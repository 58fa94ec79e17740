----------------------------- MODULE WorkDistribution -----------------------------
(***********************************************************************************)
(* WorkDistributor, JobScheduler and ResultCollector (work_distribution.rs).  A    *)
(* job is in up to three maps, each behind a lock of its own, and every call takes *)
(* the locks one after the other: submit_job puts it into pending and then into    *)
(* the queue, assign_work into active and then out of pending, complete_job out of *)
(* active and then into completed; get_job_status looks into the three in turn.    *)
(*                                                                                 *)
(* The calls are the crate's interface; their caller is the network, which may     *)
(* deliver an assignment or a result late, twice, or for a job of another node,    *)
(* and a result for a job that nobody has assigned here.                           *)
(***********************************************************************************)
EXTENDS SequencesExt, Maps

CONSTANTS
  Jobs, Foreign,       \* the ids; those of jobs that other nodes have made
  Nodes,
  Features,            \* what a node can have: cores, memory, a GPU, capabilities
  Overlooked,          \* memory and GPU: looked at on submission, not on selection
  Requests,            \* [priority, min_nodes, needs]: what a job can ask for
  Tasks, Watchers,     \* who submits, assigns and completes; who asks for the status
  MaxCalls             \* bound: calls in a behaviour

ASSUME ForeignAssumption == Foreign \subseteq Jobs
ASSUME FeaturesAssumption == Overlooked \subseteq Features
ASSUME RequestsAssumption ==
  Requests \subseteq [priority : Nat, min_nodes : Nat, needs : SUBSET Features]
ASSUME CallsAssumption == MaxCalls \in Nat /\ Tasks \cap Watchers = {}

VARIABLES
  request,             \* the jobs that have been submitted here, and what they ask for
  pending_jobs, active_jobs, completed_jobs,
  scheduling_queue,
  node_capabilities,
  partial_results,     \* per job, the nodes whose results wait for another
  pc, call,            \* where each call is, and what it has found
  calls,
  arrivals,            \* history: the jobs in the order in which they were queued
  started, assigned    \* history: those that have been active; those an assignment of
                       \* which has returned

jobs == <<request, pending_jobs, active_jobs, completed_jobs, scheduling_queue>>
history == <<arrivals, started, assigned>>
vars == <<jobs, node_capabilities, partial_results, pc, call, calls, history>>

NoCall == [job |-> "none"]

Init ==
  /\ request = <<>>
  /\ pending_jobs = {} /\ active_jobs = <<>> /\ completed_jobs = {}
  /\ scheduling_queue = <<>>
  /\ node_capabilities = <<>> /\ partial_results = <<>>
  /\ pc = [t \in Tasks \cup Watchers |-> "idle"]
  /\ call = [t \in Tasks \cup Watchers |-> NoCall]
  /\ calls = 0
  /\ arrivals = <<>> /\ started = {} /\ assigned = {}

-----------------------------------------------------------------------------------
\* history: a watcher's answer may be stale once a call on its job has run meanwhile.
Disturbed(j) ==
  [t \in Tasks \cup Watchers |->
     IF t \in Watchers /\ call[t].job = j THEN [call[t] EXCEPT !.alone = FALSE] ELSE call[t]]

Begin(t) == pc[t] = "idle" /\ calls < MaxCalls /\ calls' = calls + 1

Continue(t, place, c) ==
  /\ pc' = [pc EXCEPT ![t] = place]
  /\ call' = [Disturbed(c.job) EXCEPT ![t] = c]

Return(t) ==
  /\ pc' = [pc EXCEPT ![t] = "idle"]
  /\ call' = [Disturbed(call[t].job) EXCEPT ![t] = NoCall]

-----------------------------------------------------------------------------------
(***********************************************************************************)
(* Jobs and nodes.                                                                 *)
(***********************************************************************************)
node_meets_requirements(n, r) == r.needs \subseteq node_capabilities[n]

Suitable(r) == {n \in DOMAIN node_capabilities : node_meets_requirements(n, r)}

register_node_capabilities(n, features) ==
  /\ calls < MaxCalls /\ calls' = calls + 1
  /\ node_capabilities' = Put(node_capabilities, n, features)
  /\ UNCHANGED <<jobs, partial_results, pc, call, history>>

Priority(j) == request[j].priority

\* Mutation: the job is queued in front of the first one that is not of higher priority.
schedule_job_InFront(j) ==
  \E i \in 1..Len(scheduling_queue) + 1 :
    /\ \A k \in 1..i - 1 : Priority(scheduling_queue[k]) > Priority(j)
    /\ i <= Len(scheduling_queue) => Priority(scheduling_queue[i]) <= Priority(j)
    /\ scheduling_queue' = InsertAt(scheduling_queue, i, j)
    /\ arrivals' = Append(arrivals, j)

\* The job is queued in front of the first one of lower priority.
schedule_job(j) ==
  \E i \in 1..Len(scheduling_queue) + 1 :
    /\ \A k \in 1..i - 1 : Priority(scheduling_queue[k]) >= Priority(j)
    /\ i <= Len(scheduling_queue) => Priority(scheduling_queue[i]) < Priority(j)
    /\ scheduling_queue' = InsertAt(scheduling_queue, i, j)
    /\ arrivals' = Append(arrivals, j)

\* Mutation: the job is queued before it is made pending.
submit_job_QueuedFirst(t) ==
  \/ /\ Begin(t)
     /\ \E j \in Jobs \ (DOMAIN request \cup Foreign), r \in Requests :
          IF Cardinality(Suitable(r)) >= r.min_nodes
          THEN request' = Put(request, j, r) /\ Continue(t, "pend", [job |-> j])
          ELSE UNCHANGED <<request, pc, call>>
     /\ UNCHANGED <<pending_jobs, scheduling_queue, arrivals>>
  \/ /\ pc[t] = "pend"
     /\ schedule_job(call[t].job)
     /\ Continue(t, "schedule", call[t])
     /\ UNCHANGED <<request, pending_jobs, calls>>
  \/ /\ pc[t] = "schedule"
     /\ pending_jobs' = pending_jobs \cup {call[t].job}
     /\ Return(t)
     /\ UNCHANGED <<request, scheduling_queue, arrivals, calls>>

\* The new job is validated; it becomes pending; it is queued.
submit_job(t) ==
  \/ /\ Begin(t)
     /\ \E j \in Jobs \ (DOMAIN request \cup Foreign), r \in Requests :
          IF Cardinality(Suitable(r)) >= r.min_nodes
          THEN request' = Put(request, j, r) /\ Continue(t, "pend", [job |-> j])
          ELSE UNCHANGED <<request, pc, call>>
     /\ UNCHANGED <<pending_jobs, scheduling_queue, arrivals>>
  \/ /\ pc[t] = "pend"
     /\ pending_jobs' = pending_jobs \cup {call[t].job}
     /\ Continue(t, "schedule", call[t])
     /\ UNCHANGED <<request, scheduling_queue, arrivals, calls>>
  \/ /\ pc[t] = "schedule"
     /\ schedule_job(call[t].job)
     /\ Return(t)
     /\ UNCHANGED <<request, pending_jobs, calls>>

Submit(t) ==
  submit_job(t) /\ UNCHANGED <<active_jobs, completed_jobs, node_capabilities, partial_results,
                                started, assigned>>

\* The jobs whose id has been given out: it is new, and unknown before the job is queued.
Published == DOMAIN request \ {call[t].job : t \in {u \in Tasks : pc[u] \in {"pend", "schedule"}}}

\* The ids that a caller can name; nothing asks whether the job is known here.
Named == Published \cup Foreign

-----------------------------------------------------------------------------------
(***********************************************************************************)
(* Assignments and results.                                                        *)
(***********************************************************************************)
\* The nodes that select_nodes_for_job may return of those it is offered: of the ones that
\* are not too busy and suit the job, as many as it needs, if there are.  What a node is
\* offered with need not be what it has registered.
select_nodes_for_job(j, available) ==
  LET fit == {n \in DOMAIN available : /\ ~ available[n].busy
                                       /\ request[j].needs \ Overlooked \subseteq available[n].features}
  IN  {s \in SUBSET fit : Cardinality(s) = Min({request[j].min_nodes, Cardinality(fit)})}

\* What a caller may offer: some nodes, each with features and a load of its own.
Offers == UNION {[offered -> [features : SUBSET Features, busy : BOOLEAN]] : offered \in SUBSET Nodes}

\* get_next_job and select_nodes_for_job: their caller makes an assignment of them.
Dispatch(t) ==
  /\ Begin(t) /\ scheduling_queue # <<>>
  /\ scheduling_queue' = Tail(scheduling_queue)
  /\ LET j == Head(scheduling_queue)
     IN  \E available \in Offers : \E s \in select_nodes_for_job(j, available) :
           Continue(t, "assign", [job |-> j, nodes |-> s])
  /\ UNCHANGED <<request, pending_jobs, active_jobs, completed_jobs,
                 node_capabilities, partial_results, history>>

\* An assignment made elsewhere, of a job of another node or of one known here.
Receive(t) ==
  /\ Begin(t)
  /\ \E j \in Named, s \in SUBSET Nodes : Continue(t, "assign", [job |-> j, nodes |-> s])
  /\ UNCHANGED <<jobs, node_capabilities, partial_results, history>>

\* Mutation: the job leaves pending before it is active.
assign_work_PendingFirst(t) ==
  \/ /\ pc[t] = "assign"
     /\ pending_jobs' = pending_jobs \ {call[t].job}
     /\ Continue(t, "unpend", call[t])
     /\ UNCHANGED <<active_jobs, started, assigned>>
  \/ /\ pc[t] = "unpend"
     /\ active_jobs' = Put(active_jobs, call[t].job, call[t].nodes)
     /\ started' = started \cup {call[t].job}
     /\ assigned' = assigned \cup {call[t].job}
     /\ Return(t)
     /\ UNCHANGED pending_jobs

\* The job becomes active; it is no longer pending.
assign_work(t) ==
  \/ /\ pc[t] = "assign"
     /\ active_jobs' = Put(active_jobs, call[t].job, call[t].nodes)
     /\ started' = started \cup {call[t].job}
     /\ Continue(t, "unpend", call[t])
     /\ UNCHANGED <<pending_jobs, assigned>>
  \/ /\ pc[t] = "unpend"
     /\ pending_jobs' = pending_jobs \ {call[t].job}
     /\ assigned' = assigned \cup {call[t].job}
     /\ Return(t)
     /\ UNCHANGED <<active_jobs, started>>

Assign(t) ==
  assign_work(t) /\ UNCHANGED <<request, completed_jobs, scheduling_queue, node_capabilities,
                                partial_results, calls, arrivals>>

\* The result of a job has come, whether or not the job was active: it is no longer; it is
\* completed.
complete_job(t) ==
  \/ /\ Begin(t)
     /\ \E j \in Named :
          /\ active_jobs' = Without(active_jobs, j)
          /\ Continue(t, "store", [job |-> j])
     /\ UNCHANGED completed_jobs
  \/ /\ pc[t] = "store"
     /\ completed_jobs' = completed_jobs \cup {call[t].job}
     /\ Return(t)
     /\ UNCHANGED <<active_jobs, calls>>

Complete(t) ==
  complete_job(t) /\ UNCHANGED <<request, pending_jobs, scheduling_queue, node_capabilities,
                                 partial_results, history>>

\* Mutation: the results that have been aggregated are kept.
Collected_Kept(waiting, n) == Append(waiting, n)

\* Two results are aggregated, and forgotten.
Collected(waiting, n) == IF Len(waiting) + 1 >= 2 THEN <<>> ELSE Append(waiting, n)

collect_partial_result(j, n) ==
  /\ calls < MaxCalls /\ calls' = calls + 1
  /\ LET waiting == IF j \in DOMAIN partial_results THEN partial_results[j] ELSE <<>>
         rest == Collected(waiting, n)
     IN  partial_results' = IF rest = <<>> THEN Without(partial_results, j)
                            ELSE Put(partial_results, j, rest)
  /\ UNCHANGED <<jobs, node_capabilities, pc, call, history>>

-----------------------------------------------------------------------------------
(***********************************************************************************)
(* get_job_status: completed, then active, then pending.                           *)
(***********************************************************************************)
InCall(j) == \E t \in Tasks : pc[t] # "idle" /\ call[t].job = j

Holds(j, status) ==
  CASE status = "Completed"  -> j \in completed_jobs
    [] status = "InProgress" -> j \in DOMAIN active_jobs
    [] status = "Pending"    -> j \in pending_jobs
    [] status = "None"       -> TRUE

\* Mutation: active jobs are looked at first.
Lookups_ActiveFirst == <<"InProgress", "Completed", "Pending", "None">>

Lookups == <<"Completed", "InProgress", "Pending", "None">>

\* One lookup; the last follows the third without a lock to wait for.
Look(w, c) ==
  LET next == IF c.next = 3 /\ ~ Holds(c.job, Lookups[3]) THEN 4 ELSE c.next
      found == Holds(c.job, Lookups[next])
  IN  /\ call' = [call EXCEPT ![w] = IF found THEN [c EXCEPT !.answer = Lookups[next]]
                                     ELSE [c EXCEPT !.next = next + 1]]
      /\ pc' = [pc EXCEPT ![w] = IF found THEN "idle" ELSE "look"]

get_job_status(w) ==
  /\ \/ /\ Begin(w)
        /\ \E j \in Named : Look(w, [job |-> j, alone |-> ~ InCall(j), next |-> 1, answer |-> "?"])
     \/ pc[w] = "look" /\ Look(w, call[w]) /\ UNCHANGED calls
  /\ UNCHANGED <<jobs, node_capabilities, partial_results, history>>

-----------------------------------------------------------------------------------
Next ==
  \/ \E t \in Tasks : Submit(t) \/ Dispatch(t) \/ Receive(t) \/ Assign(t) \/ Complete(t)
  \/ \E w \in Watchers : get_job_status(w)
  \/ \E n \in Nodes, f \in SUBSET Features : register_node_capabilities(n, f)
  \/ \E j \in Named, n \in Nodes : collect_partial_result(j, n)

Spec == Init /\ [][Next]_vars

-----------------------------------------------------------------------------------
(***********************************************************************************)
(* Properties.                                                                     *)
(***********************************************************************************)
Answers == {"?", "None", "Pending", "InProgress", "Completed"}

\* Type invariant; results that are enough to be aggregated do not wait.
TypeOK ==
  /\ request \in [DOMAIN request -> Requests] /\ DOMAIN request \subseteq Jobs \ Foreign
  /\ pending_jobs \subseteq DOMAIN request /\ completed_jobs \subseteq DOMAIN request \cup Foreign
  /\ active_jobs \in [DOMAIN active_jobs -> SUBSET Nodes]
  /\ DOMAIN active_jobs \subseteq DOMAIN request \cup Foreign
  /\ scheduling_queue \in Seq(DOMAIN request)
  /\ node_capabilities \in [DOMAIN node_capabilities -> SUBSET Features]
  /\ \A j \in DOMAIN partial_results : Len(partial_results[j]) = 1
  /\ pc \in [Tasks \cup Watchers ->
               {"idle", "pend", "schedule", "assign", "unpend", "store", "look"}]
  /\ \A t \in Tasks : pc[t] # "idle" => call[t].job \in DOMAIN request \cup Foreign
  /\ \A w \in Watchers : call[w] # NoCall =>
       call[w].job \in DOMAIN request \cup Foreign /\ call[w].answer \in Answers

\* Where the three maps have a job.
Status(j) ==
  CASE j \in completed_jobs -> "Completed"
    [] j \in DOMAIN active_jobs \ completed_jobs -> "InProgress"
    [] j \in pending_jobs \ (DOMAIN active_jobs \cup completed_jobs) -> "Pending"
    [] j \notin pending_jobs \cup DOMAIN active_jobs \cup completed_jobs -> "None"

\* The jobs a result of which has come and is not stored yet.
Storing == {call[t].job : t \in {u \in Tasks : pc[u] = "store"}}

Lifecycle == INSTANCE JobLifecycle WITH status <- [j \in Jobs |-> Status(j)], storing <- Storing

\* "Move from active to completed" (work_distribution.rs:134): calls of any number move a job
\* between the maps only as the lifecycle allows, so that it is never lost: what has been
\* submitted or started is seen until a result of it comes, and a completed job stays so.
LifecycleSpec == Lifecycle!Spec

\* How far a job has ever got: that its result has come need not mean that it has started.
Reached(j) ==
  IF j \in completed_jobs THEN "Completed"
  ELSE IF j \in started THEN "InProgress"
  ELSE IF j \in pending_jobs THEN "Pending" ELSE "None"

\* What get_job_status answers is where the maps have the job when no other call on the job
\* overlapped it, and is never ahead of how far the job has got (it may be behind, or None).
Rank == [None |-> 0, Pending |-> 1, InProgress |-> 2, Completed |-> 3]

StatusHonest ==
  \A w \in Watchers : call[w] # NoCall /\ call[w].answer # "?" =>
    /\ Rank[call[w].answer] <= Rank[Reached(call[w].job)]
    /\ call[w].alone => call[w].answer = Status(call[w].job)

\* Once an assignment of a job has returned the job is not pending any more.
AssignedNotPending == assigned \cap pending_jobs = {}

\* i was queued before j.
QueuedBefore(i, j) == \E b \in DOMAIN arrivals : \E a \in 1..b - 1 : arrivals[a] = i /\ arrivals[b] = j

\* "Insert job based on priority" (work_distribution.rs:221): however submissions and
\* get_next_job interleave, no job waits behind one of lower priority, nor behind one of its
\* own priority that was queued after it.
QueueFair ==
  \A b \in DOMAIN scheduling_queue : \A a \in 1..b - 1 :
    LET i == scheduling_queue[a]
        j == scheduling_queue[b]
    IN  Priority(i) > Priority(j) \/ (Priority(i) = Priority(j) /\ QueuedBefore(i, j))
===================================================================================
