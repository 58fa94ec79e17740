------------------------- MODULE WorkDistribution_proofs -------------------------
(***********************************************************************************)
(* Proofs about WorkDistribution for any jobs, nodes, requests, tasks and bounds.  *)
(***********************************************************************************)
EXTENDS WorkDistribution, SequenceTheorems, TLAPS

-----------------------------------------------------------------------------------
\* Scheduling a job adds the job and no other.
LEMMA InsertAtFacts ==
  ASSUME NEW T, NEW q \in Seq(T), NEW e \in T, NEW i \in 1..Len(q) + 1
  PROVE  InsertAt(q, i, e) \in Seq(T)
<1>1. Len(q) \in Nat
  BY LenProperties
<1>2. SubSeq(q, 1, i - 1) \in Seq(T)
  BY <1>1, SubSeqProperties
<1>3. SubSeq(q, i, Len(q)) \in Seq(T)
  BY <1>1, SubSeqProperties
<1> QED BY <1>2, <1>3, ConcatProperties DEF InsertAt

Starting(t) == pc[t] \in {"pend", "schedule"}

InStore(j) == \E t \in Tasks : pc[t] = "store" /\ call[t].job = j

Typed ==
  /\ DOMAIN request \subseteq Jobs \ Foreign
  /\ pending_jobs \subseteq DOMAIN request
  /\ completed_jobs \cup started \cup assigned \subseteq DOMAIN request \cup Foreign
  /\ DOMAIN active_jobs \subseteq started
  /\ scheduling_queue \in Seq(Published)
  /\ pc = [t \in Tasks \cup Watchers |-> pc[t]] /\ call = [t \in Tasks \cup Watchers |-> call[t]]
  /\ \A t \in Tasks :
       /\ pc[t] \in {"idle", "pend", "schedule", "assign", "unpend", "store"}
       /\ pc[t] # "idle" => call[t].job \in DOMAIN request \cup Foreign
       /\ Starting(t) => call[t].job \in DOMAIN request

\* A job that is being submitted is in no other call, and has been nowhere yet.
Fresh ==
  \A t \in Tasks : Starting(t) =>
    /\ \A u \in Tasks : pc[u] # "idle" /\ call[u].job = call[t].job => u = t
    /\ call[t].job \notin completed_jobs \cup started \cup assigned

\* A job that is leaving pending has got somewhere else.
Placed ==
  \A t \in Tasks : pc[t] = "unpend" =>
    /\ call[t].job \in started
    /\ call[t].job \in DOMAIN active_jobs \cup completed_jobs \/ InStore(call[t].job)

IInv == Typed /\ Fresh /\ Placed /\ AssignedNotPending

LEMMA InvInit == Init => IInv
<1> SUFFICES ASSUME Init PROVE IInv
  OBVIOUS
<1>1. DOMAIN request = {} /\ DOMAIN active_jobs = {}
  BY DEF Init
<1>2. scheduling_queue \in Seq(Published)
  BY DEF Init
<1> QED BY <1>1, <1>2 DEF Init, IInv, Typed, Fresh, Starting, Placed, AssignedNotPending

-----------------------------------------------------------------------------------
\* What a step does to the other calls: nothing but to the answers watchers wait for.
LEMMA ContinueFacts ==
  ASSUME Typed, NEW t \in Tasks, NEW place, NEW c, Continue(t, place, c)
  PROVE  /\ pc' = [u \in Tasks \cup Watchers |-> pc'[u]] /\ call' = [u \in Tasks \cup Watchers |-> call'[u]]
         /\ pc'[t] = place /\ call'[t] = c
         /\ \A u \in Tasks : u # t => pc'[u] = pc[u] /\ call'[u] = call[u]
BY CallsAssumption DEF Typed, Continue, Disturbed

LEMMA ReturnFacts ==
  ASSUME Typed, NEW t \in Tasks, Return(t)
  PROVE  /\ pc' = [u \in Tasks \cup Watchers |-> pc'[u]] /\ call' = [u \in Tasks \cup Watchers |-> call'[u]]
         /\ pc'[t] = "idle"
         /\ \A u \in Tasks : u # t => pc'[u] = pc[u] /\ call'[u] = call[u]
BY CallsAssumption DEF Typed, Return, Disturbed

LEMMA LookFacts ==
  ASSUME Typed, NEW w \in Watchers, get_job_status(w)
  PROVE  /\ pc' = [u \in Tasks \cup Watchers |-> pc'[u]] /\ call' = [u \in Tasks \cup Watchers |-> call'[u]]
         /\ \A u \in Tasks : pc'[u] = pc[u] /\ call'[u] = call[u]
         /\ UNCHANGED <<jobs, history>>
<1>1. PICK c : Look(w, c)
  BY DEF get_job_status
<1>2. /\ \E d : call' = [call EXCEPT ![w] = d]
      /\ \E d : pc' = [pc EXCEPT ![w] = d]
  BY <1>1 DEF Look
<1>3. w \notin Tasks
  BY CallsAssumption
<1> QED BY <1>2, <1>3 DEF Typed, get_job_status, history

-----------------------------------------------------------------------------------
\* A job that can be named is not being submitted any more.
LEMMA NamedFacts ==
  ASSUME IInv, NEW j \in Named
  PROVE  /\ j \in Jobs /\ j \in DOMAIN request \cup Foreign
         /\ \A u \in Tasks : Starting(u) => call[u].job # j
<1>1. CASE j \in Foreign
  BY <1>1, ForeignAssumption DEF IInv, Typed
<1>2. CASE j \in Published
  BY <1>2 DEF IInv, Typed, Starting, Published
<1> QED BY <1>1, <1>2 DEF Named

\* submit_job: the job is validated.
LEMMA BeginStep ==
  ASSUME IInv, NEW t \in Tasks, NEW j \in Jobs \ (DOMAIN request \cup Foreign), NEW r, pc[t] = "idle",
         request' = Put(request, j, r), Continue(t, "pend", [job |-> j]),
         UNCHANGED <<pending_jobs, active_jobs, completed_jobs, scheduling_queue, started, assigned>>
  PROVE  IInv'
<1>1. DOMAIN request' = DOMAIN request \cup {j}
  BY DEF Put
<1>2. /\ pc' = [u \in Tasks \cup Watchers |-> pc'[u]] /\ call' = [u \in Tasks \cup Watchers |-> call'[u]]
      /\ pc'[t] = "pend" /\ call'[t].job = j
      /\ \A u \in Tasks : u # t => pc'[u] = pc[u] /\ call'[u] = call[u]
  BY ContinueFacts DEF IInv
<1>3. Published \subseteq Published'
  BY <1>1, <1>2 DEF Published
<1>4. scheduling_queue' \in Seq(Published')
  BY <1>3, SeqMonotonic DEF IInv, Typed
<1>5. Typed'
  BY <1>1, <1>2, <1>4 DEF IInv, Typed, Starting
<1>6. Fresh'
  BY <1>1, <1>2 DEF IInv, Typed, Fresh, Starting
<1>7. Placed' /\ AssignedNotPending'
  BY <1>2 DEF IInv, Placed, InStore, AssignedNotPending
<1> QED BY <1>5, <1>6, <1>7 DEF IInv

\* submit_job: the job becomes pending.
LEMMA PendStep ==
  ASSUME IInv, NEW t \in Tasks, pc[t] = "pend", pending_jobs' = pending_jobs \cup {call[t].job},
         Continue(t, "schedule", call[t]),
         UNCHANGED <<request, active_jobs, completed_jobs, scheduling_queue, started, assigned>>
  PROVE  IInv'
<1>1. /\ pc' = [u \in Tasks \cup Watchers |-> pc'[u]] /\ call' = [u \in Tasks \cup Watchers |-> call'[u]]
      /\ pc'[t] = "schedule" /\ call'[t] = call[t]
      /\ \A u \in Tasks : u # t => pc'[u] = pc[u] /\ call'[u] = call[u]
  BY ContinueFacts DEF IInv
<1>2. Published' = Published
  BY <1>1 DEF Published
<1>3. Typed'
  BY <1>1, <1>2 DEF IInv, Typed, Starting
<1>4. Fresh' /\ Placed'
  BY <1>1 DEF IInv, Fresh, Starting, Placed, InStore
<1>5. AssignedNotPending'
  BY DEF IInv, Fresh, Starting, AssignedNotPending
<1> QED BY <1>3, <1>4, <1>5 DEF IInv

\* submit_job: the job is queued.
LEMMA ScheduleStep ==
  ASSUME IInv, NEW t \in Tasks, pc[t] = "schedule", schedule_job(call[t].job), Return(t),
         UNCHANGED <<request, pending_jobs, active_jobs, completed_jobs, started, assigned>>
  PROVE  IInv'
<1> DEFINE j == call[t].job
<1>1. /\ pc' = [u \in Tasks \cup Watchers |-> pc'[u]] /\ call' = [u \in Tasks \cup Watchers |-> call'[u]]
      /\ pc'[t] = "idle" /\ \A u \in Tasks : u # t => pc'[u] = pc[u] /\ call'[u] = call[u]
  BY ReturnFacts DEF IInv
<1>2. Published \subseteq Published' /\ j \in Published'
  <2>1. Published \subseteq Published'
    BY <1>1 DEF Published
  <2>2. j \in DOMAIN request /\ \A u \in Tasks : pc[u] # "idle" /\ call[u].job = j => u = t
    BY DEF IInv, Typed, Fresh, Starting
  <2>3. \A u \in Tasks : pc'[u] \in {"pend", "schedule"} => call'[u].job # j
    BY <1>1, <2>2
  <2> QED BY <2>1, <2>2, <2>3 DEF Published
<1>3. scheduling_queue' \in Seq(Published')
  <2>1. scheduling_queue \in Seq(Published')
    BY <1>2, SeqMonotonic DEF IInv, Typed
  <2>2. PICK i \in 1..Len(scheduling_queue) + 1 : scheduling_queue' = InsertAt(scheduling_queue, i, j)
    BY DEF schedule_job
  <2> QED BY <1>2, <2>1, <2>2, InsertAtFacts
<1>4. Typed'
  BY <1>1, <1>3 DEF IInv, Typed, Starting
<1>5. Fresh' /\ Placed' /\ AssignedNotPending'
  BY <1>1 DEF IInv, Fresh, Starting, Placed, InStore, AssignedNotPending
<1> QED BY <1>4, <1>5 DEF IInv

\* An assignment has been made here, or has come from elsewhere.
LEMMA EnterStep ==
  ASSUME IInv, NEW t \in Tasks, pc[t] = "idle", NEW j \in Named, NEW c, c.job = j,
         Continue(t, "assign", c), scheduling_queue' \in Seq(Published),
         UNCHANGED <<request, pending_jobs, active_jobs, completed_jobs, started, assigned>>
  PROVE  IInv'
<1>1. /\ pc' = [u \in Tasks \cup Watchers |-> pc'[u]] /\ call' = [u \in Tasks \cup Watchers |-> call'[u]]
      /\ pc'[t] = "assign" /\ call'[t].job = j
      /\ \A u \in Tasks : u # t => pc'[u] = pc[u] /\ call'[u] = call[u]
  BY ContinueFacts DEF IInv
<1>2. Published \subseteq Published'
  BY <1>1 DEF Published
<1>3. scheduling_queue' \in Seq(Published')
  BY <1>2, SeqMonotonic
<1>4. j \in DOMAIN request \cup Foreign /\ \A u \in Tasks : Starting(u) => call[u].job # j
  BY NamedFacts
<1>5. Typed'
  BY <1>1, <1>3, <1>4 DEF IInv, Typed, Starting
<1>6. Fresh'
  BY <1>1, <1>4 DEF IInv, Fresh, Starting
<1>7. Placed' /\ AssignedNotPending'
  BY <1>1 DEF IInv, Placed, InStore, AssignedNotPending
<1> QED BY <1>5, <1>6, <1>7 DEF IInv

\* assign_work: the job becomes active.
LEMMA ActivateStep ==
  ASSUME IInv, NEW t \in Tasks, pc[t] = "assign", Continue(t, "unpend", call[t]),
         active_jobs' = Put(active_jobs, call[t].job, call[t].nodes),
         started' = started \cup {call[t].job},
         UNCHANGED <<request, pending_jobs, completed_jobs, scheduling_queue, assigned>>
  PROVE  IInv'
<1>1. /\ pc' = [u \in Tasks \cup Watchers |-> pc'[u]] /\ call' = [u \in Tasks \cup Watchers |-> call'[u]]
      /\ pc'[t] = "unpend" /\ call'[t] = call[t]
      /\ \A u \in Tasks : u # t => pc'[u] = pc[u] /\ call'[u] = call[u]
  BY ContinueFacts DEF IInv
<1>2. DOMAIN active_jobs' = DOMAIN active_jobs \cup {call[t].job}
  BY DEF Put
<1>3. Published' = Published
  BY <1>1 DEF Published
<1>4. Typed'
  BY <1>1, <1>2, <1>3 DEF IInv, Typed, Starting
<1>5. Fresh'
  BY <1>1, <1>2 DEF IInv, Typed, Fresh, Starting
<1>6. Placed' /\ AssignedNotPending'
  BY <1>1, <1>2 DEF IInv, Placed, InStore, AssignedNotPending
<1> QED BY <1>4, <1>5, <1>6 DEF IInv

\* assign_work: the job is no longer pending.
LEMMA UnpendStep ==
  ASSUME IInv, NEW t \in Tasks, pc[t] = "unpend", Return(t),
         pending_jobs' = pending_jobs \ {call[t].job}, assigned' = assigned \cup {call[t].job},
         UNCHANGED <<request, active_jobs, completed_jobs, scheduling_queue, started>>
  PROVE  IInv'
<1>1. /\ pc' = [u \in Tasks \cup Watchers |-> pc'[u]] /\ call' = [u \in Tasks \cup Watchers |-> call'[u]]
      /\ pc'[t] = "idle" /\ \A u \in Tasks : u # t => pc'[u] = pc[u] /\ call'[u] = call[u]
  BY ReturnFacts DEF IInv
<1>2. Published' = Published
  BY <1>1 DEF Published
<1>3. Typed'
  BY <1>1, <1>2 DEF IInv, Typed, Starting
<1>4. Fresh'
  BY <1>1 DEF IInv, Typed, Fresh, Starting
<1>5. Placed' /\ AssignedNotPending'
  BY <1>1 DEF IInv, Placed, InStore, AssignedNotPending
<1> QED BY <1>3, <1>4, <1>5 DEF IInv

\* complete_job: the job is no longer active.
LEMMA TakeStep ==
  ASSUME IInv, NEW t \in Tasks, NEW j \in Named, pc[t] = "idle", Continue(t, "store", [job |-> j]),
         active_jobs' = Without(active_jobs, j),
         UNCHANGED <<request, pending_jobs, completed_jobs, scheduling_queue, started, assigned>>
  PROVE  IInv'
<1>1. /\ pc' = [u \in Tasks \cup Watchers |-> pc'[u]] /\ call' = [u \in Tasks \cup Watchers |-> call'[u]]
      /\ pc'[t] = "store" /\ call'[t].job = j
      /\ \A u \in Tasks : u # t => pc'[u] = pc[u] /\ call'[u] = call[u]
  BY ContinueFacts, SMTT(30) DEF IInv
<1>2. DOMAIN active_jobs' = DOMAIN active_jobs \ {j}
  BY DEF Without, Restrict
<1>3. Published' = Published
  BY <1>1 DEF Published
<1>4. j \in DOMAIN request \cup Foreign /\ \A u \in Tasks : Starting(u) => call[u].job # j
  BY NamedFacts
<1>5. Typed'
  BY <1>1, <1>2, <1>3, <1>4 DEF IInv, Typed, Starting
<1>6. Fresh'
  BY <1>1, <1>2, <1>4 DEF IInv, Fresh, Starting
<1>7. Placed' /\ AssignedNotPending'
  BY <1>1, <1>2 DEF IInv, Placed, InStore, AssignedNotPending
<1> QED BY <1>5, <1>6, <1>7 DEF IInv

\* complete_job: the job is completed.
LEMMA StoreStep ==
  ASSUME IInv, NEW t \in Tasks, pc[t] = "store", Return(t),
         completed_jobs' = completed_jobs \cup {call[t].job},
         UNCHANGED <<request, pending_jobs, active_jobs, scheduling_queue, started, assigned>>
  PROVE  IInv'
<1>1. /\ pc' = [u \in Tasks \cup Watchers |-> pc'[u]] /\ call' = [u \in Tasks \cup Watchers |-> call'[u]]
      /\ pc'[t] = "idle" /\ \A u \in Tasks : u # t => pc'[u] = pc[u] /\ call'[u] = call[u]
  BY ReturnFacts DEF IInv
<1>2. Published' = Published
  BY <1>1 DEF Published
<1>3. Typed'
  BY <1>1, <1>2 DEF IInv, Typed, Starting
<1>4. Fresh'
  BY <1>1 DEF IInv, Typed, Fresh, Starting
<1>5. Placed' /\ AssignedNotPending'
  BY <1>1 DEF IInv, Placed, InStore, AssignedNotPending
<1> QED BY <1>3, <1>4, <1>5 DEF IInv

\* Whoever registers, sends results or watches leaves the jobs and the calls on them alone.
LEMMA AsideStep ==
  ASSUME IInv, UNCHANGED <<jobs, started, assigned>>,
         pc' = [u \in Tasks \cup Watchers |-> pc'[u]], call' = [u \in Tasks \cup Watchers |-> call'[u]],
         \A u \in Tasks : pc'[u] = pc[u] /\ call'[u] = call[u]
  PROVE  IInv'
<1>1. Published' = Published
  BY DEF Published, jobs
<1>2. Typed'
  BY <1>1 DEF IInv, Typed, Starting, jobs
<1>3. Fresh' /\ Placed' /\ AssignedNotPending'
  BY DEF IInv, Fresh, Starting, Placed, InStore, AssignedNotPending, jobs
<1> QED BY <1>2, <1>3 DEF IInv

-----------------------------------------------------------------------------------
\* get_next_job takes a job from the queue.
LEMMA QueueFacts ==
  ASSUME NEW T, NEW q \in Seq(T), q # <<>>
  PROVE  Head(q) \in T /\ Tail(q) \in Seq(T)
BY HeadTailProperties

LEMMA SubmitStep ==
  ASSUME IInv, NEW t \in Tasks, Submit(t)
  PROVE  IInv'
<1>1. UNCHANGED <<active_jobs, completed_jobs, started, assigned>>
  BY DEF Submit
<1>2. ASSUME Begin(t), NEW j \in Jobs \ (DOMAIN request \cup Foreign), NEW r \in Requests,
             UNCHANGED <<pending_jobs, scheduling_queue, arrivals>>,
             IF Cardinality(Suitable(r)) >= r.min_nodes
             THEN request' = Put(request, j, r) /\ Continue(t, "pend", [job |-> j])
             ELSE UNCHANGED <<request, pc, call>>
      PROVE  IInv'
  <2>1. CASE Cardinality(Suitable(r)) >= r.min_nodes
    BY <1>1, <1>2, <2>1, BeginStep DEF Begin
  <2>2. CASE ~ Cardinality(Suitable(r)) >= r.min_nodes
    BY <1>1, <1>2, <2>2, AsideStep DEF IInv, Typed, jobs
  <2> QED BY <2>1, <2>2
<1>3. CASE /\ pc[t] = "pend"
           /\ pending_jobs' = pending_jobs \cup {call[t].job}
           /\ Continue(t, "schedule", call[t])
           /\ UNCHANGED <<request, scheduling_queue, arrivals, calls>>
  BY <1>1, <1>3, PendStep
<1>4. CASE /\ pc[t] = "schedule"
           /\ schedule_job(call[t].job)
           /\ Return(t)
           /\ UNCHANGED <<request, pending_jobs, calls>>
  BY <1>1, <1>4, ScheduleStep
<1> QED BY <1>2, <1>3, <1>4 DEF Submit, submit_job

LEMMA DispatchStep ==
  ASSUME IInv, NEW t \in Tasks, Dispatch(t)
  PROVE  IInv'
<1>1. Head(scheduling_queue) \in Published /\ scheduling_queue' \in Seq(Published)
  BY QueueFacts DEF Dispatch, IInv, Typed
<1>2. PICK s : Continue(t, "assign", [job |-> Head(scheduling_queue), nodes |-> s])
  BY DEF Dispatch
<1> QED BY <1>1, <1>2, EnterStep DEF Dispatch, Begin, history, Named

LEMMA ReceiveStep ==
  ASSUME IInv, NEW t \in Tasks, Receive(t)
  PROVE  IInv'
<1>1. PICK j \in Named : \E s : Continue(t, "assign", [job |-> j, nodes |-> s])
  BY DEF Receive
<1> QED BY <1>1, EnterStep DEF Receive, Begin, jobs, history, IInv, Typed

LEMMA AssignStep ==
  ASSUME IInv, NEW t \in Tasks, Assign(t)
  PROVE  IInv'
BY ActivateStep, UnpendStep DEF Assign, assign_work

LEMMA CompleteStep ==
  ASSUME IInv, NEW t \in Tasks, Complete(t)
  PROVE  IInv'
BY TakeStep, StoreStep DEF Complete, complete_job, Begin, history

LEMMA InvStep == IInv /\ [Next]_vars => IInv'
<1> SUFFICES ASSUME IInv, [Next]_vars PROVE IInv'
  OBVIOUS
<1>1. ASSUME NEW t \in Tasks, Submit(t) \/ Dispatch(t) \/ Receive(t) \/ Assign(t) \/ Complete(t)
      PROVE  IInv'
  BY <1>1, SubmitStep, DispatchStep, ReceiveStep, AssignStep, CompleteStep
<1>2. ASSUME NEW w \in Watchers, get_job_status(w)
      PROVE  IInv'
  BY <1>2, LookFacts, AsideStep DEF IInv, history
<1>3. CASE UNCHANGED <<jobs, pc, call, history>>
  BY <1>3, AsideStep DEF IInv, Typed, history
<1> QED BY <1>1, <1>2, <1>3 DEF Next, vars, register_node_capabilities, collect_partial_result

\* A job whose assignment has returned is not pending: no call that is still running can put
\* it back, since only the submission that made its id does, and that came before.
THEOREM NotPendingAgain == Spec => []AssignedNotPending
<1>1. IInv => AssignedNotPending
  BY DEF IInv
<1> QED BY <1>1, InvInit, InvStep, PTL DEF Spec

-----------------------------------------------------------------------------------
(***********************************************************************************)
(* The maps implement the lifecycle.                                               *)
(***********************************************************************************)
LEMMA StatusIs ==
  ASSUME NEW j
  PROVE  Status(j) = IF j \in completed_jobs THEN "Completed"
                     ELSE IF j \in DOMAIN active_jobs THEN "InProgress"
                     ELSE IF j \in pending_jobs THEN "Pending" ELSE "None"
BY DEF Status

LEMMA StatusIsNext ==
  ASSUME NEW j
  PROVE  Status(j)' = IF j \in completed_jobs' THEN "Completed"
                      ELSE IF j \in DOMAIN active_jobs' THEN "InProgress"
                      ELSE IF j \in pending_jobs' THEN "Pending" ELSE "None"
BY DEF Status

LEMMA KeptFacts ==
  ASSUME NEW j, j \in completed_jobs' <=> j \in completed_jobs,
         j \in DOMAIN active_jobs' <=> j \in DOMAIN active_jobs,
         \/ j \in pending_jobs' <=> j \in pending_jobs
         \/ j \in completed_jobs \cup DOMAIN active_jobs
  PROVE  Status(j)' = Status(j)
BY StatusIs, StatusIsNext

\* One job has gone on as the lifecycle allows.
Allowed(j) ==
  \/ /\ Storing' = Storing
     /\ \/ Status(j)' = Status(j)
        \/ Status(j) = "None" /\ Status(j)' = "Pending"
        \/ Status(j) \in {"None", "Pending"} /\ Status(j)' = "InProgress"
        \/ j \in Storing /\ Status(j) = "Pending" /\ Status(j)' = "None"
  \/ /\ Storing' = Storing \cup {j}
     /\ \/ Status(j)' = Status(j)
        \/ Status(j) = "InProgress" /\ Status(j)' \in {"Pending", "None"}
  \/ /\ j \in Storing /\ Storing' \in {Storing, Storing \ {j}}
     /\ Status(j)' = "Completed"

Moves == [Lifecycle!Next]_<<[j \in Jobs |-> Status(j)], Storing>>

LEMMA MovesFacts ==
  ASSUME NEW j \in Jobs, Allowed(j), \A k \in Jobs : k # j => Status(k)' = Status(k)
  PROVE  Moves
<1> DEFINE before == [k \in Jobs |-> Status(k)]
           after == [k \in Jobs |-> Status(k)']
<1>1. before[j] = Status(j) /\ after[j] = Status(j)'
  OBVIOUS
<1>2. after = [before EXCEPT ![j] = Status(j)']
  OBVIOUS
<1>3. Status(j)' = Status(j) => after = before
  OBVIOUS
<1>4. CASE Status(j)' = Status(j) /\ Storing' = Storing
  BY <1>3, <1>4 DEF Moves
<1>5. CASE Status(j) = "None" /\ Status(j)' = "Pending" /\ Storing' = Storing
  BY <1>1, <1>2, <1>5 DEF Moves, Lifecycle!Next, Lifecycle!Submit, Lifecycle!Becomes
<1>6. CASE Status(j) \in {"None", "Pending"} /\ Status(j)' = "InProgress" /\ Storing' = Storing
  BY <1>1, <1>2, <1>6 DEF Moves, Lifecycle!Next, Lifecycle!Start, Lifecycle!Becomes
<1>7. CASE j \in Storing /\ Status(j) = "Pending" /\ Status(j)' = "None" /\ Storing' = Storing
  BY <1>1, <1>2, <1>7 DEF Moves, Lifecycle!Next, Lifecycle!Hidden, Lifecycle!Becomes
<1>8. CASE Status(j)' = Status(j) /\ Storing' = Storing \cup {j}
  BY <1>3, <1>8 DEF Moves, Lifecycle!Next, Lifecycle!ResultComes
<1>9. CASE Status(j) = "InProgress" /\ Status(j)' \in {"Pending", "None"} /\ Storing' = Storing \cup {j}
  BY <1>1, <1>2, <1>9 DEF Moves, Lifecycle!Next, Lifecycle!ResultComes, Lifecycle!Becomes
<1>10. CASE j \in Storing /\ Storing' \in {Storing, Storing \ {j}} /\ Status(j)' = "Completed"
  BY <1>1, <1>2, <1>10 DEF Moves, Lifecycle!Next, Lifecycle!Store, Lifecycle!Becomes
<1> QED BY <1>4, <1>5, <1>6, <1>7, <1>8, <1>9, <1>10 DEF Allowed

LEMMA StillFacts ==
  ASSUME \A k \in Jobs : Status(k)' = Status(k), Storing' = Storing
  PROVE  Moves
BY DEF Moves

\* A call that enters or leaves a place outside complete_job, and changes no map.
LEMMA PlaceStep ==
  ASSUME Typed, NEW t \in Tasks, pc[t] # "store", pc'[t] # "store",
         \A u \in Tasks : u # t => pc'[u] = pc[u] /\ call'[u] = call[u],
         UNCHANGED <<pending_jobs, completed_jobs, active_jobs>>
  PROVE  Moves
<1>1. Storing' = Storing
  BY DEF Storing
<1>2. \A j \in Jobs : Status(j)' = Status(j)
  BY KeptFacts
<1> QED BY <1>1, <1>2, StillFacts

LEMMA PendMoves ==
  ASSUME IInv, NEW t \in Tasks, pc[t] = "pend", pending_jobs' = pending_jobs \cup {call[t].job},
         Continue(t, "schedule", call[t]), UNCHANGED <<active_jobs, completed_jobs>>
  PROVE  Moves
<1>0. PICK j \in Jobs : j = call[t].job
  BY DEF IInv, Typed, Starting
<1>1. /\ pc'[t] = "schedule" /\ call'[t] = call[t]
      /\ \A u \in Tasks : u # t => pc'[u] = pc[u] /\ call'[u] = call[u]
  BY ContinueFacts DEF IInv
<1>2. Storing' = Storing
  BY <1>1 DEF Storing
<1>3. j \notin DOMAIN active_jobs /\ j \notin completed_jobs
  BY <1>0 DEF IInv, Typed, Fresh, Starting
<1>4. Allowed(j)
  BY <1>0, <1>2, <1>3, StatusIs, StatusIsNext DEF Allowed
<1>5. \A k \in Jobs : k # j => Status(k)' = Status(k)
  BY <1>0, KeptFacts
<1> QED BY <1>4, <1>5, MovesFacts

LEMMA ActivateMoves ==
  ASSUME IInv, NEW t \in Tasks, pc[t] = "assign", Continue(t, "unpend", call[t]),
         active_jobs' = Put(active_jobs, call[t].job, call[t].nodes),
         UNCHANGED <<pending_jobs, completed_jobs>>
  PROVE  Moves
<1>0. PICK j \in Jobs : j = call[t].job
  BY ForeignAssumption DEF IInv, Typed
<1>1. /\ pc'[t] = "unpend" /\ call'[t] = call[t]
      /\ \A u \in Tasks : u # t => pc'[u] = pc[u] /\ call'[u] = call[u]
  BY ContinueFacts DEF IInv
<1>2. DOMAIN active_jobs' = DOMAIN active_jobs \cup {j}
  BY <1>0 DEF Put
<1>3. Storing' = Storing
  BY <1>1 DEF Storing
<1>4. Allowed(j)
  BY <1>2, <1>3, StatusIs, StatusIsNext DEF Allowed
<1>5. \A k \in Jobs : k # j => Status(k)' = Status(k)
  BY <1>2, KeptFacts
<1> QED BY <1>4, <1>5, MovesFacts

\* The job is seen, or a result of it is being stored.
LEMMA UnpendMoves ==
  ASSUME IInv, NEW t \in Tasks, pc[t] = "unpend", Return(t),
         pending_jobs' = pending_jobs \ {call[t].job}, UNCHANGED <<active_jobs, completed_jobs>>
  PROVE  Moves
<1>0. PICK j \in Jobs : j = call[t].job
  BY ForeignAssumption DEF IInv, Typed
<1>1. pc'[t] = "idle" /\ \A u \in Tasks : u # t => pc'[u] = pc[u] /\ call'[u] = call[u]
  BY ReturnFacts DEF IInv
<1>2. Storing' = Storing
  BY <1>1 DEF Storing
<1>3. j \in DOMAIN active_jobs \cup completed_jobs \/ j \in Storing
  BY <1>0 DEF IInv, Placed, InStore, Storing
<1>4. Allowed(j)
  BY <1>0, <1>2, <1>3, StatusIs, StatusIsNext DEF Allowed
<1>5. \A k \in Jobs : k # j => Status(k)' = Status(k)
  BY <1>0, KeptFacts
<1> QED BY <1>4, <1>5, MovesFacts

LEMMA TakeMoves ==
  ASSUME IInv, NEW t \in Tasks, NEW j \in Named, pc[t] = "idle", Continue(t, "store", [job |-> j]),
         active_jobs' = Without(active_jobs, j), UNCHANGED <<pending_jobs, completed_jobs>>
  PROVE  Moves
<1>1. /\ pc'[t] = "store" /\ call'[t].job = j
      /\ \A u \in Tasks : u # t => pc'[u] = pc[u] /\ call'[u] = call[u]
  BY ContinueFacts DEF IInv
<1>2. DOMAIN active_jobs' = DOMAIN active_jobs \ {j}
  BY DEF Without, Restrict
<1>3. Storing' = Storing \cup {j}
  BY <1>1 DEF Storing
<1>4. j \in Jobs
  BY NamedFacts
<1>5. Allowed(j)
  BY <1>2, <1>3, StatusIs, StatusIsNext DEF Allowed
<1>6. \A k \in Jobs : k # j => Status(k)' = Status(k)
  BY <1>2, KeptFacts
<1> QED BY <1>4, <1>5, <1>6, MovesFacts

LEMMA StoreMoves ==
  ASSUME IInv, NEW t \in Tasks, pc[t] = "store", Return(t),
         completed_jobs' = completed_jobs \cup {call[t].job}, UNCHANGED <<pending_jobs, active_jobs>>
  PROVE  Moves
<1>0. PICK j \in Jobs : j = call[t].job
  BY ForeignAssumption DEF IInv, Typed
<1>1. pc'[t] = "idle" /\ \A u \in Tasks : u # t => pc'[u] = pc[u] /\ call'[u] = call[u]
  BY ReturnFacts DEF IInv
<1>2. j \in Storing /\ Storing \ {j} \subseteq Storing' /\ Storing' \subseteq Storing
  BY <1>0, <1>1 DEF Storing
<1>3. Storing' \in {Storing, Storing \ {j}}
  <2>1. CASE j \in Storing'
    BY <1>2, <2>1
  <2>2. CASE j \notin Storing'
    BY <1>2, <2>2
  <2> QED BY <2>1, <2>2
<1>4. Allowed(j)
  BY <1>0, <1>2, <1>3, StatusIsNext DEF Allowed
<1>5. \A k \in Jobs : k # j => Status(k)' = Status(k)
  BY <1>0, KeptFacts
<1> QED BY <1>4, <1>5, MovesFacts

LEMMA AsideMoves ==
  ASSUME UNCHANGED <<pending_jobs, active_jobs, completed_jobs>>,
         \A u \in Tasks : pc'[u] = pc[u] /\ call'[u] = call[u]
  PROVE  Moves
<1>1. Storing' = Storing
  BY DEF Storing
<1>2. \A j \in Jobs : Status(j)' = Status(j)
  BY KeptFacts
<1> QED BY <1>1, <1>2, StillFacts

-----------------------------------------------------------------------------------
LEMMA SubmitMoves ==
  ASSUME IInv, NEW t \in Tasks, Submit(t)
  PROVE  Moves
<1>1. UNCHANGED <<active_jobs, completed_jobs>> /\ Typed
  BY DEF Submit, IInv
<1>2. ASSUME Begin(t), NEW j \in Jobs \ (DOMAIN request \cup Foreign), NEW r \in Requests,
             UNCHANGED <<pending_jobs, scheduling_queue, arrivals>>,
             IF Cardinality(Suitable(r)) >= r.min_nodes
             THEN request' = Put(request, j, r) /\ Continue(t, "pend", [job |-> j])
             ELSE UNCHANGED <<request, pc, call>>
      PROVE  Moves
  <2>1. CASE Cardinality(Suitable(r)) >= r.min_nodes
    BY <1>1, <1>2, <2>1, ContinueFacts, PlaceStep DEF Begin
  <2>2. CASE ~ Cardinality(Suitable(r)) >= r.min_nodes
    BY <1>1, <1>2, <2>2, AsideMoves
  <2> QED BY <2>1, <2>2
<1>3. CASE /\ pc[t] = "pend"
           /\ pending_jobs' = pending_jobs \cup {call[t].job}
           /\ Continue(t, "schedule", call[t])
           /\ UNCHANGED <<request, scheduling_queue, arrivals, calls>>
  BY <1>1, <1>3, PendMoves
<1>4. CASE /\ pc[t] = "schedule"
           /\ schedule_job(call[t].job)
           /\ Return(t)
           /\ UNCHANGED <<request, pending_jobs, calls>>
  BY <1>1, <1>4, ReturnFacts, PlaceStep
<1> QED BY <1>2, <1>3, <1>4 DEF Submit, submit_job

LEMMA EnterMoves ==
  ASSUME IInv, NEW t \in Tasks, Dispatch(t) \/ Receive(t)
  PROVE  Moves
<1>1. UNCHANGED <<pending_jobs, active_jobs, completed_jobs>> /\ pc[t] = "idle" /\ Typed
  BY DEF Dispatch, Receive, Begin, IInv, jobs
<1>2. PICK c : Continue(t, "assign", c)
  BY DEF Dispatch, Receive
<1> QED BY <1>1, <1>2, ContinueFacts, PlaceStep

LEMMA AssignMoves ==
  ASSUME IInv, NEW t \in Tasks, Assign(t)
  PROVE  Moves
BY ActivateMoves, UnpendMoves DEF Assign, assign_work

LEMMA CompleteMoves ==
  ASSUME IInv, NEW t \in Tasks, Complete(t)
  PROVE  Moves
BY TakeMoves, StoreMoves DEF Complete, complete_job, Begin

\* The three maps together, each behind its own lock, implement the lifecycle of a job: no job
\* is lost, unless a result of it is being stored, and none that is completed goes back, though
\* assignments and results come late, twice or unasked and no call holds two locks.
THEOREM ImplementsLifecycle == Spec => LifecycleSpec
<1>1. Init => Lifecycle!Init
  BY StatusIs DEF Init, Storing, Lifecycle!Init
<1>2. ASSUME IInv, [Next]_vars PROVE [Lifecycle!Next]_<<[j \in Jobs |-> Status(j)], Storing>>
  <2>1. ASSUME NEW t \in Tasks, Submit(t) \/ Dispatch(t) \/ Receive(t) \/ Assign(t) \/ Complete(t)
        PROVE  Moves
    BY <1>2, <2>1, SubmitMoves, EnterMoves, AssignMoves, CompleteMoves
  <2>2. ASSUME NEW w \in Watchers, get_job_status(w)
        PROVE  Moves
    BY <1>2, <2>2, LookFacts, AsideMoves DEF IInv, jobs
  <2>3. ASSUME jobs' = jobs, pc' = pc, call' = call
        PROVE  Moves
    BY <2>3, AsideMoves DEF jobs
  <2>4. Moves
    BY <1>2, <2>1, <2>2, <2>3 DEF Next, vars, register_node_capabilities, collect_partial_result
  <2> QED BY <2>4 DEF Moves
<1> QED BY <1>1, <1>2, InvInit, InvStep, PTL DEF Spec, LifecycleSpec, Lifecycle!Spec

-----------------------------------------------------------------------------------
(***********************************************************************************)
(* What get_job_status answers.                                                    *)
(***********************************************************************************)
StatusCalls == [job : Jobs, alone : BOOLEAN, next : 1..4, answer : Answers]

\* A lookup that is under way has found nothing yet, and still would not if it is alone.
Looking(c) ==
  /\ c.answer = "?" => c.next \in {2, 3}
  /\ c.answer = "?" /\ c.alone =>
       /\ c.job \notin completed_jobs
       /\ c.next = 3 => c.job \notin DOMAIN active_jobs
  /\ c.answer # "?" => Rank[c.answer] <= Rank[Reached(c.job)]
  /\ c.answer # "?" /\ c.alone => c.answer = Status(c.job)
  /\ c.alone => ~ InCall(c.job)

WatchInv ==
  /\ \A w \in Watchers : pc[w] = "look" => call[w] # NoCall /\ call[w].answer = "?"
  /\ \A w \in Watchers : call[w] # NoCall => call[w] \in StatusCalls /\ Looking(call[w])

\* The maps of all jobs but k are as they were.
OnlyOf(k) ==
  \A j : j # k =>
    /\ (j \in completed_jobs' <=> j \in completed_jobs)
    /\ (j \in DOMAIN active_jobs' <=> j \in DOMAIN active_jobs)
    /\ (j \in pending_jobs' <=> j \in pending_jobs)
    /\ (j \in started' <=> j \in started)

\* A step of task t that is about job k: a watcher of k is not alone any more.
About(t, k) ==
  /\ pc[t] # "idle" => call[t].job = k
  /\ pc'[t] # "idle" => call'[t].job = k
  /\ \A u \in Tasks : u # t => pc'[u] = pc[u] /\ call'[u] = call[u]
  /\ \A w \in Watchers : pc'[w] = pc[w] /\ call'[w] = Disturbed(k)[w]
  /\ OnlyOf(k)

\* A job that is not pending any more has started.
Rises ==
  /\ completed_jobs \subseteq completed_jobs' /\ started \subseteq started'
  /\ pending_jobs \subseteq pending_jobs' \cup started'

LEMMA RankRises ==
  ASSUME Rises, NEW j
  PROVE  Rank[Reached(j)] \in Nat /\ Rank[Reached(j)'] \in Nat /\ Rank[Reached(j)] <= Rank[Reached(j)']
BY DEF Rises, Reached, Rank

LEMMA WatchStep ==
  ASSUME WatchInv, Rises, NEW t \in Tasks, NEW k, About(t, k)
  PROVE  WatchInv'
<1>1. ASSUME NEW j, j # k
      PROVE  (InCall(j)' <=> InCall(j)) /\ Status(j)' = Status(j) /\ Reached(j)' = Reached(j)
  <2>1. InCall(j)' <=> InCall(j)
    BY <1>1 DEF About, InCall
  <2>2. Status(j)' = Status(j)
    BY <1>1, KeptFacts DEF About, OnlyOf
  <2>3. Reached(j)' = Reached(j)
    BY <1>1 DEF About, OnlyOf, Reached
  <2> QED BY <2>1, <2>2, <2>3
<1>2. ASSUME NEW w \in Watchers, call[w] # NoCall, call[w].job # k
      PROVE  call'[w] = call[w] /\ Looking(call[w])'
  <2>1. call'[w] = call[w]
    BY <1>2 DEF About, Disturbed
  <2>0. PICK j : j = call[w].job
    OBVIOUS
  <2>2. (InCall(j)' <=> InCall(j)) /\ Status(j)' = Status(j) /\ Reached(j)' = Reached(j)
    BY <1>1, <1>2, <2>0
  <2>3. (j \in completed_jobs' <=> j \in completed_jobs) /\ (j \in DOMAIN active_jobs' <=> j \in DOMAIN active_jobs)
    BY <1>2, <2>0 DEF About, OnlyOf
  <2>4. Looking(call[w])
    BY <1>2 DEF WatchInv
  <2> QED BY <2>0, <2>1, <2>2, <2>3, <2>4 DEF Looking
<1>3. ASSUME NEW w \in Watchers, call[w] # NoCall, call[w].job = k
      PROVE  call'[w] = [call[w] EXCEPT !.alone = FALSE] /\ call'[w] \in StatusCalls /\ Looking(call[w])'
  <2>1. call[w] \in StatusCalls /\ Looking(call[w])
    BY <1>3 DEF WatchInv
  <2>2. call'[w] = [call[w] EXCEPT !.alone = FALSE]
    BY <1>3 DEF About, Disturbed
  <2>3. /\ call'[w] \in StatusCalls /\ call'[w].alone = FALSE /\ call'[w].job = k /\ k \in Jobs
        /\ call'[w].answer = call[w].answer /\ call'[w].next = call[w].next
    BY <1>3, <2>1, <2>2 DEF StatusCalls
  <2>4. Rank[Reached(k)] \in Nat /\ Rank[Reached(k)'] \in Nat /\ Rank[Reached(k)] <= Rank[Reached(k)']
    BY <2>3, RankRises
  <2>5. call[w].answer # "?" => Rank[call[w].answer] \in Nat
    BY <2>1 DEF StatusCalls, Answers, Rank
  <2> QED BY <1>3, <2>1, <2>2, <2>3, <2>4, <2>5 DEF Looking
<1>4. ASSUME NEW w \in Watchers, call[w] = NoCall
      PROVE  call'[w] = NoCall
  BY <1>4 DEF About, Disturbed, NoCall
<1>5. \A w \in Watchers : pc'[w] = pc[w]
  BY DEF About
<1>6. ASSUME NEW w \in Watchers, call'[w] # NoCall
      PROVE  call[w] # NoCall /\ call'[w] \in StatusCalls /\ Looking(call[w])'
  BY <1>2, <1>3, <1>4, <1>6 DEF WatchInv
<1>7. ASSUME NEW w \in Watchers, pc'[w] = "look"
      PROVE  call'[w] # NoCall /\ call'[w].answer = "?"
  <2>1. pc[w] = "look" /\ call[w] # NoCall /\ call[w].answer = "?" /\ call[w] \in StatusCalls
    BY <1>5, <1>7 DEF WatchInv
  <2>2. call'[w] = call[w] \/ call'[w] = [call[w] EXCEPT !.alone = FALSE]
    BY <1>2, <1>3, <2>1
  <2>3. call'[w].answer = "?"
    BY <2>1, <2>2 DEF StatusCalls
  <2>4. CASE call'[w] = NoCall
    BY <2>1, <2>2, <2>4 DEF StatusCalls, NoCall
  <2> QED BY <2>3, <2>4
<1> QED BY <1>6, <1>7 DEF WatchInv

LEMMA AboutContinue ==
  ASSUME Typed, NEW t \in Tasks, NEW place, NEW c, Continue(t, place, c), OnlyOf(c.job),
         pc[t] = "idle" \/ call[t].job = c.job
  PROVE  About(t, c.job)
<1>1. pc'[t] = place /\ call'[t] = c /\ \A u \in Tasks : u # t => pc'[u] = pc[u] /\ call'[u] = call[u]
  BY ContinueFacts
<1>2. \A w \in Watchers : pc'[w] = pc[w] /\ call'[w] = Disturbed(c.job)[w]
  BY CallsAssumption DEF Typed, Continue, Disturbed
<1> QED BY <1>1, <1>2 DEF About

LEMMA AboutReturn ==
  ASSUME Typed, NEW t \in Tasks, Return(t), OnlyOf(call[t].job)
  PROVE  About(t, call[t].job)
<1>1. pc'[t] = "idle" /\ \A u \in Tasks : u # t => pc'[u] = pc[u] /\ call'[u] = call[u]
  BY ReturnFacts
<1>2. \A w \in Watchers : pc'[w] = pc[w] /\ call'[w] = Disturbed(call[t].job)[w]
  BY CallsAssumption DEF Typed, Return, Disturbed
<1> QED BY <1>1, <1>2 DEF About

LEMMA SameLooking ==
  ASSUME UNCHANGED <<pending_jobs, active_jobs, completed_jobs, started>>,
         \A u \in Tasks : pc'[u] = pc[u] /\ call'[u] = call[u], NEW c
  PROVE  Looking(c)' <=> Looking(c)
<1>1. PICK j : j = c.job
  OBVIOUS
<1>2. (InCall(j)' <=> InCall(j)) /\ Reached(j)' = Reached(j)
  BY DEF InCall, Reached
<1>3. Status(j)' = Status(j)
  BY KeptFacts
<1> QED BY <1>1, <1>2, <1>3 DEF Looking

LEMMA WatchAside ==
  ASSUME WatchInv, UNCHANGED <<pending_jobs, active_jobs, completed_jobs, started, pc, call>>
  PROVE  WatchInv'
BY SameLooking DEF WatchInv

-----------------------------------------------------------------------------------
\* A lookup that is about to be made.
Asking(c) ==
  /\ c.answer = "?" /\ c.next \in 1..3
  /\ c.alone => /\ ~ InCall(c.job)
                /\ c.next # 1 => c.job \notin completed_jobs
                /\ c.next = 3 => c.job \notin DOMAIN active_jobs

\* A lookup finds the job where it is, or goes on.
LEMMA LookResult ==
  ASSUME Typed, NEW w \in Watchers, NEW c \in StatusCalls, Asking(c), Look(w, c)
  PROVE  \E d \in StatusCalls, p \in {"idle", "look"} :
           /\ Looking(d) /\ (p = "look" => d.answer = "?")
           /\ call' = [call EXCEPT ![w] = d] /\ pc' = [pc EXCEPT ![w] = p]
<1>1. /\ Holds(c.job, "Completed") <=> c.job \in completed_jobs
      /\ Holds(c.job, "InProgress") <=> c.job \in DOMAIN active_jobs
      /\ Holds(c.job, "Pending") <=> c.job \in pending_jobs
      /\ Holds(c.job, "None")
  BY DEF Holds
<1>2. /\ Lookups[1] = "Completed" /\ Lookups[2] = "InProgress"
      /\ Lookups[3] = "Pending" /\ Lookups[4] = "None"
  BY DEF Lookups
<1>3. c.job \in DOMAIN active_jobs => c.job \in started
  BY DEF Typed
<1>4. ASSUME NEW a \in Answers \ {"?"}, Rank[a] <= Rank[Reached(c.job)], c.alone => a = Status(c.job),
             call' = [call EXCEPT ![w] = [c EXCEPT !.answer = a]], pc' = [pc EXCEPT ![w] = "idle"]
      PROVE  \E d \in StatusCalls, p \in {"idle", "look"} :
               /\ Looking(d) /\ (p = "look" => d.answer = "?")
               /\ call' = [call EXCEPT ![w] = d] /\ pc' = [pc EXCEPT ![w] = p]
  <2> DEFINE d == [c EXCEPT !.answer = a]
  <2>1. d \in StatusCalls /\ d.answer = a /\ d.job = c.job /\ d.alone = c.alone
    BY DEF StatusCalls
  <2>2. Looking(d)
    BY <1>4, <2>1 DEF Looking, Asking
  <2> QED BY <1>4, <2>1, <2>2
<1>5. ASSUME NEW n \in {2, 3}, call' = [call EXCEPT ![w] = [c EXCEPT !.next = n]], pc' = [pc EXCEPT ![w] = "look"],
             c.alone => c.job \notin completed_jobs /\ (n = 3 => c.job \notin DOMAIN active_jobs)
      PROVE  \E d \in StatusCalls, p \in {"idle", "look"} :
               /\ Looking(d) /\ (p = "look" => d.answer = "?")
               /\ call' = [call EXCEPT ![w] = d] /\ pc' = [pc EXCEPT ![w] = p]
  <2> DEFINE d == [c EXCEPT !.next = n]
  <2>1. d \in StatusCalls /\ d.answer = "?" /\ d.next = n /\ d.job = c.job /\ d.alone = c.alone
    BY DEF StatusCalls, Asking
  <2>2. Looking(d)
    BY <1>5, <2>1 DEF Looking, Asking
  <2> QED BY <1>5, <2>1, <2>2
<1>6. CASE c.next = 1
  <2>1. CASE c.job \in completed_jobs
    <3>1. Rank["Completed"] <= Rank[Reached(c.job)] /\ (c.alone => "Completed" = Status(c.job))
      BY <2>1, StatusIs DEF Rank, Reached
    <3> QED BY <1>1, <1>2, <1>4, <1>6, <2>1, <3>1 DEF Look, Answers
  <2>2. CASE c.job \notin completed_jobs
    <3>1. call' = [call EXCEPT ![w] = [c EXCEPT !.next = 1 + 1]] /\ pc' = [pc EXCEPT ![w] = "look"]
      BY <1>1, <1>2, <1>6, <2>2 DEF Look
    <3>2. c.alone => c.job \notin completed_jobs /\ (2 = 3 => c.job \notin DOMAIN active_jobs)
      BY <2>2
    <3>3. 1 + 1 = 2
      OBVIOUS
    <3> QED BY <1>5, <3>1, <3>2, <3>3
  <2> QED BY <2>1, <2>2
<1>7. CASE c.next = 2
  <2>1. CASE c.job \in DOMAIN active_jobs
    <3>1. Rank["InProgress"] <= Rank[Reached(c.job)] /\ (c.alone => "InProgress" = Status(c.job))
      BY <1>3, <1>7, <2>1, StatusIs DEF Rank, Reached, Asking
    <3> QED BY <1>1, <1>2, <1>4, <1>7, <2>1, <3>1 DEF Look, Answers
  <2>2. CASE c.job \notin DOMAIN active_jobs
    <3>1. call' = [call EXCEPT ![w] = [c EXCEPT !.next = 2 + 1]] /\ pc' = [pc EXCEPT ![w] = "look"]
      BY <1>1, <1>2, <1>7, <2>2 DEF Look
    <3>2. c.alone => c.job \notin completed_jobs
      BY <1>7 DEF Asking
    <3>3. 2 + 1 = 3
      OBVIOUS
    <3> QED BY <1>5, <2>2, <3>1, <3>2, <3>3
  <2> QED BY <2>1, <2>2
<1>8. CASE c.next = 3
  <2>1. CASE c.job \in pending_jobs
    <3>1. Rank["Pending"] <= Rank[Reached(c.job)] /\ (c.alone => "Pending" = Status(c.job))
      BY <1>8, <2>1, StatusIs DEF Rank, Reached, Asking
    <3> QED BY <1>1, <1>2, <1>4, <1>8, <2>1, <3>1 DEF Look, Answers
  <2>2. CASE c.job \notin pending_jobs
    <3>1. Rank["None"] <= Rank[Reached(c.job)] /\ (c.alone => "None" = Status(c.job))
      BY <1>8, <2>2, StatusIs DEF Rank, Reached, Asking
    <3> QED BY <1>1, <1>2, <1>4, <1>8, <2>2, <3>1 DEF Look, Answers
  <2> QED BY <2>1, <2>2
<1> QED BY <1>6, <1>7, <1>8 DEF Asking

LEMMA LookStep ==
  ASSUME IInv, WatchInv, NEW w \in Watchers, get_job_status(w)
  PROVE  WatchInv'
<1>1. PICK c \in StatusCalls : Asking(c) /\ Look(w, c)
  <2>1. CASE pc[w] = "look" /\ Look(w, call[w])
    <3>1. call[w] \in StatusCalls /\ call[w].answer = "?" /\ Looking(call[w])
      BY <2>1 DEF WatchInv
    <3>2. call[w].next \in {2, 3} /\ (call[w].alone => ~ InCall(call[w].job))
      BY <3>1 DEF Looking
    <3>3. call[w].alone =>
            /\ call[w].job \notin completed_jobs
            /\ call[w].next = 3 => call[w].job \notin DOMAIN active_jobs
      BY <3>1 DEF Looking
    <3>4. call[w].next \in 1..3
      BY <3>2
    <3>5. Asking(call[w])
      BY <3>1, <3>2, <3>3, <3>4, Zenon DEF Asking
    <3> QED BY <2>1, <3>1, <3>5
  <2>2. ASSUME NEW j \in Named, Look(w, [job |-> j, alone |-> ~ InCall(j), next |-> 1, answer |-> "?"])
        PROVE  \E c \in StatusCalls : Asking(c) /\ Look(w, c)
    <3>0. PICK b \in BOOLEAN : b = ~ InCall(j)
      OBVIOUS
    <3> DEFINE c == [job |-> j, alone |-> b, next |-> 1, answer |-> "?"]
    <3>1. c \in StatusCalls
      BY NamedFacts DEF StatusCalls, Answers
    <3>2. c.alone => ~ InCall(c.job)
      BY <3>0
    <3>3. Asking(c)
      BY <3>2 DEF Asking
    <3> QED BY <2>2, <3>0, <3>1, <3>3
  <2> QED BY <2>1, <2>2 DEF get_job_status
<1>2. PICK d \in StatusCalls, p \in {"idle", "look"} :
        /\ Looking(d) /\ (p = "look" => d.answer = "?")
        /\ call' = [call EXCEPT ![w] = d] /\ pc' = [pc EXCEPT ![w] = p]
  BY <1>1, LookResult DEF IInv
<1>3. /\ \A u \in Tasks : pc'[u] = pc[u] /\ call'[u] = call[u]
      /\ UNCHANGED <<pending_jobs, active_jobs, completed_jobs, started>>
  BY LookFacts DEF IInv, jobs, history
<1>4. /\ call'[w] = d /\ pc'[w] = p
      /\ \A v \in Watchers : v # w => call'[v] = call[v] /\ pc'[v] = pc[v]
  BY <1>2 DEF IInv, Typed
<1>5. ASSUME NEW v \in Watchers, call'[v] # NoCall
      PROVE  call'[v] \in StatusCalls /\ Looking(call[v])'
  BY <1>2, <1>3, <1>4, <1>5, SameLooking DEF WatchInv
<1>6. d # NoCall
  BY DEF StatusCalls, NoCall
<1>7. \A v \in Watchers : pc'[v] = "look" => call'[v] # NoCall /\ call'[v].answer = "?"
  BY <1>2, <1>4, <1>6 DEF WatchInv
<1> QED BY <1>5, <1>7 DEF WatchInv

-----------------------------------------------------------------------------------
LEMMA SubmitWatched ==
  ASSUME IInv, WatchInv, NEW t \in Tasks, Submit(t)
  PROVE  WatchInv'
<1>1. UNCHANGED <<active_jobs, completed_jobs, started>> /\ Typed /\ Rises
  BY DEF Submit, submit_job, IInv, Rises
<1>2. ASSUME Begin(t), NEW j \in Jobs \ (DOMAIN request \cup Foreign), NEW r \in Requests,
             UNCHANGED <<pending_jobs, scheduling_queue, arrivals>>,
             IF Cardinality(Suitable(r)) >= r.min_nodes
             THEN request' = Put(request, j, r) /\ Continue(t, "pend", [job |-> j])
             ELSE UNCHANGED <<request, pc, call>>
      PROVE  WatchInv'
  <2>1. CASE Cardinality(Suitable(r)) >= r.min_nodes
    <3>1. About(t, j)
      BY <1>1, <1>2, <2>1, AboutContinue DEF Begin, OnlyOf
    <3> QED BY <1>1, <3>1, WatchStep
  <2>2. CASE ~ Cardinality(Suitable(r)) >= r.min_nodes
    BY <1>1, <1>2, <2>2, WatchAside
  <2> QED BY <2>1, <2>2
<1>3. CASE /\ pc[t] = "pend"
           /\ pending_jobs' = pending_jobs \cup {call[t].job}
           /\ Continue(t, "schedule", call[t])
           /\ UNCHANGED <<request, scheduling_queue, arrivals, calls>>
  <2>1. About(t, call[t].job)
    BY <1>1, <1>3, AboutContinue DEF OnlyOf
  <2> QED BY <1>1, <2>1, WatchStep
<1>4. CASE /\ pc[t] = "schedule"
           /\ schedule_job(call[t].job)
           /\ Return(t)
           /\ UNCHANGED <<request, pending_jobs, calls>>
  <2>1. About(t, call[t].job)
    BY <1>1, <1>4, AboutReturn DEF OnlyOf
  <2> QED BY <1>1, <2>1, WatchStep
<1> QED BY <1>2, <1>3, <1>4 DEF Submit, submit_job

LEMMA EnterWatched ==
  ASSUME IInv, WatchInv, NEW t \in Tasks, Dispatch(t) \/ Receive(t)
  PROVE  WatchInv'
<1>1. /\ UNCHANGED <<pending_jobs, active_jobs, completed_jobs, started>> /\ pc[t] = "idle"
      /\ Typed /\ Rises
  BY DEF Dispatch, Receive, Begin, IInv, jobs, history, Rises
<1>2. PICK c : Continue(t, "assign", c)
  BY DEF Dispatch, Receive
<1>3. About(t, c.job)
  BY <1>1, <1>2, AboutContinue DEF OnlyOf
<1> QED BY <1>1, <1>3, WatchStep

LEMMA AssignWatched ==
  ASSUME IInv, WatchInv, NEW t \in Tasks, Assign(t)
  PROVE  WatchInv'
<1>1. Typed /\ Rises /\ UNCHANGED completed_jobs
  BY DEF Assign, assign_work, IInv, Placed, Rises
<1>2. CASE /\ active_jobs' = Put(active_jobs, call[t].job, call[t].nodes)
           /\ started' = started \cup {call[t].job}
           /\ Continue(t, "unpend", call[t]) /\ UNCHANGED pending_jobs
  <2>1. DOMAIN active_jobs' = DOMAIN active_jobs \cup {call[t].job}
    BY <1>2 DEF Put
  <2>2. About(t, call[t].job)
    BY <1>1, <1>2, <2>1, AboutContinue DEF OnlyOf
  <2> QED BY <1>1, <2>2, WatchStep
<1>3. CASE /\ pending_jobs' = pending_jobs \ {call[t].job} /\ Return(t)
           /\ UNCHANGED <<active_jobs, started>>
  <2>1. About(t, call[t].job)
    BY <1>1, <1>3, AboutReturn DEF OnlyOf
  <2> QED BY <1>1, <2>1, WatchStep
<1> QED BY <1>2, <1>3 DEF Assign, assign_work

LEMMA CompleteWatched ==
  ASSUME IInv, WatchInv, NEW t \in Tasks, Complete(t)
  PROVE  WatchInv'
<1>1. Typed /\ Rises /\ UNCHANGED <<pending_jobs, started>>
  BY DEF Complete, complete_job, IInv, history, Rises
<1>2. ASSUME NEW j \in Named, pc[t] = "idle", active_jobs' = Without(active_jobs, j),
             Continue(t, "store", [job |-> j]), UNCHANGED completed_jobs
      PROVE  WatchInv'
  <2>1. DOMAIN active_jobs' = DOMAIN active_jobs \ {j}
    BY <1>2 DEF Without, Restrict
  <2>2. About(t, j)
    BY <1>1, <1>2, <2>1, AboutContinue DEF OnlyOf
  <2> QED BY <1>1, <2>2, WatchStep
<1>3. CASE completed_jobs' = completed_jobs \cup {call[t].job} /\ Return(t) /\ UNCHANGED active_jobs
  <2>1. About(t, call[t].job)
    BY <1>1, <1>3, AboutReturn DEF OnlyOf
  <2> QED BY <1>1, <2>1, WatchStep
<1> QED BY <1>2, <1>3 DEF Complete, complete_job, Begin

LEMMA WatchInvStep == IInv /\ WatchInv /\ [Next]_vars => WatchInv'
<1> SUFFICES ASSUME IInv, WatchInv, [Next]_vars PROVE WatchInv'
  OBVIOUS
<1>1. ASSUME NEW t \in Tasks, Submit(t) \/ Dispatch(t) \/ Receive(t) \/ Assign(t) \/ Complete(t)
      PROVE  WatchInv'
  BY <1>1, SubmitWatched, EnterWatched, AssignWatched, CompleteWatched
<1>2. ASSUME NEW w \in Watchers, get_job_status(w)
      PROVE  WatchInv'
  BY <1>2, LookStep
<1>3. CASE UNCHANGED <<jobs, pc, call, history>>
  BY <1>3, WatchAside DEF jobs, history
<1> QED BY <1>1, <1>2, <1>3 DEF Next, vars, register_node_capabilities, collect_partial_result

\* get_job_status takes its three locks one after the other while calls on the same job go
\* on, and yet never says that a job is further than it ever got, and says exactly where the
\* maps have it when no call on the job overlapped the question.
THEOREM AnswersHonest == Spec => []StatusHonest
<1>1. Init => WatchInv
  BY CallsAssumption DEF Init, WatchInv
<1>2. WatchInv => StatusHonest
  BY DEF WatchInv, Looking, StatusHonest
<1> QED BY <1>1, <1>2, InvInit, InvStep, WatchInvStep, PTL DEF Spec

-----------------------------------------------------------------------------------
(***********************************************************************************)
(* Types.                                                                          *)
(***********************************************************************************)
DataInv ==
  /\ request \in [DOMAIN request -> Requests]
  /\ active_jobs \in [DOMAIN active_jobs -> SUBSET Nodes]
  /\ \A t \in Tasks : pc[t] = "assign" => call[t].nodes \subseteq Nodes
  /\ node_capabilities \in [DOMAIN node_capabilities -> SUBSET Features]
  /\ DOMAIN node_capabilities \subseteq Nodes
  /\ \A j \in DOMAIN partial_results : Len(partial_results[j]) = 1
  /\ \A w \in Watchers : pc[w] \in {"idle", "look"}

LEMMA PutTyped ==
  ASSUME NEW T, NEW f, f \in [DOMAIN f -> T], NEW k, NEW v \in T
  PROVE  Put(f, k, v) \in [DOMAIN Put(f, k, v) -> T]
BY DEF Put

LEMMA WithoutTyped ==
  ASSUME NEW T, NEW f, f \in [DOMAIN f -> T], NEW k
  PROVE  Without(f, k) \in [DOMAIN Without(f, k) -> T]
BY DEF Without, Restrict

\* Whatever a task does to its call, the nodes of an assignment are nodes.
LEMMA PlacesTyped ==
  ASSUME IInv, DataInv, NEW t \in Tasks, NEW place, NEW c, Continue(t, place, c),
         place = "assign" => c.nodes \subseteq Nodes
  PROVE  /\ \A u \in Tasks : pc'[u] = "assign" => call'[u].nodes \subseteq Nodes
         /\ \A w \in Watchers : pc'[w] \in {"idle", "look"}
<1>1. pc'[t] = place /\ call'[t] = c /\ \A u \in Tasks : u # t => pc'[u] = pc[u] /\ call'[u] = call[u]
  BY ContinueFacts DEF IInv
<1>2. \A w \in Watchers : pc'[w] = pc[w]
  BY CallsAssumption DEF IInv, Typed, Continue
<1> QED BY <1>1, <1>2 DEF DataInv

LEMMA ReturnTyped ==
  ASSUME IInv, DataInv, NEW t \in Tasks, Return(t)
  PROVE  /\ \A u \in Tasks : pc'[u] = "assign" => call'[u].nodes \subseteq Nodes
         /\ \A w \in Watchers : pc'[w] \in {"idle", "look"}
<1>1. pc'[t] = "idle" /\ \A u \in Tasks : u # t => pc'[u] = pc[u] /\ call'[u] = call[u]
  BY ReturnFacts DEF IInv
<1>2. \A w \in Watchers : pc'[w] = pc[w]
  BY CallsAssumption DEF IInv, Typed, Return
<1> QED BY <1>1, <1>2 DEF DataInv

LEMMA RequestTyped ==
  ASSUME DataInv, NEW j, NEW r \in Requests, request' = Put(request, j, r)
  PROVE  request' \in [DOMAIN request' -> Requests]
BY PutTyped DEF DataInv

-----------------------------------------------------------------------------------
LEMMA SubmitTyped ==
  ASSUME IInv, DataInv, NEW t \in Tasks, Submit(t)
  PROVE  DataInv'
<1>1. UNCHANGED <<active_jobs, node_capabilities, partial_results>>
  BY DEF Submit
<1>2. ASSUME NEW j \in Jobs \ (DOMAIN request \cup Foreign), NEW r \in Requests,
             IF Cardinality(Suitable(r)) >= r.min_nodes
             THEN request' = Put(request, j, r) /\ Continue(t, "pend", [job |-> j])
             ELSE UNCHANGED <<request, pc, call>>
      PROVE  DataInv'
  <2>1. CASE Cardinality(Suitable(r)) >= r.min_nodes
    BY <1>1, <1>2, <2>1, PlacesTyped, RequestTyped DEF DataInv
  <2>2. CASE ~ Cardinality(Suitable(r)) >= r.min_nodes
    BY <1>1, <1>2, <2>2 DEF DataInv
  <2> QED BY <2>1, <2>2
<1>3. CASE Continue(t, "schedule", call[t]) /\ UNCHANGED request
  BY <1>1, <1>3, PlacesTyped DEF DataInv
<1>4. CASE Return(t) /\ UNCHANGED request
  BY <1>1, <1>4, ReturnTyped DEF DataInv
<1> QED BY <1>2, <1>3, <1>4 DEF Submit, submit_job

LEMMA DispatchTyped ==
  ASSUME IInv, DataInv, NEW t \in Tasks, Dispatch(t)
  PROVE  DataInv'
<1>1. UNCHANGED <<active_jobs, node_capabilities, partial_results, request>>
  BY DEF Dispatch
<1>2. PICK available \in Offers : \E j, s : /\ s \in select_nodes_for_job(j, available)
                                            /\ Continue(t, "assign", [job |-> j, nodes |-> s])
  BY DEF Dispatch
<1>3. ASSUME NEW j, NEW s \in select_nodes_for_job(j, available)
      PROVE  s \subseteq Nodes
  <2>1. DOMAIN available \subseteq Nodes
    BY DEF Offers
  <2> QED BY <2>1 DEF select_nodes_for_job
<1> QED BY <1>1, <1>2, <1>3, PlacesTyped DEF DataInv

LEMMA ReceiveTyped ==
  ASSUME IInv, DataInv, NEW t \in Tasks, Receive(t)
  PROVE  DataInv'
<1>1. UNCHANGED <<request, active_jobs, node_capabilities, partial_results>>
  BY DEF Receive, jobs
<1>2. PICK s \in SUBSET Nodes : \E j : Continue(t, "assign", [job |-> j, nodes |-> s])
  BY DEF Receive
<1> QED BY <1>1, <1>2, PlacesTyped DEF DataInv

LEMMA AssignTyped ==
  ASSUME IInv, DataInv, NEW t \in Tasks, Assign(t)
  PROVE  DataInv'
<1>1. UNCHANGED <<request, node_capabilities, partial_results>>
  BY DEF Assign
<1>2. CASE /\ pc[t] = "assign" /\ active_jobs' = Put(active_jobs, call[t].job, call[t].nodes)
           /\ Continue(t, "unpend", call[t])
  <2>1. active_jobs' \in [DOMAIN active_jobs' -> SUBSET Nodes]
    BY <1>2, PutTyped DEF DataInv
  <2> QED BY <1>1, <1>2, <2>1, PlacesTyped DEF DataInv
<1>3. CASE Return(t) /\ UNCHANGED active_jobs
  BY <1>1, <1>3, ReturnTyped DEF DataInv
<1> QED BY <1>2, <1>3 DEF Assign, assign_work

LEMMA CompleteTyped ==
  ASSUME IInv, DataInv, NEW t \in Tasks, Complete(t)
  PROVE  DataInv'
<1>1. UNCHANGED <<request, node_capabilities, partial_results>>
  BY DEF Complete
<1>2. ASSUME NEW j, active_jobs' = Without(active_jobs, j), Continue(t, "store", [job |-> j])
      PROVE  DataInv'
  <2>1. active_jobs' \in [DOMAIN active_jobs' -> SUBSET Nodes]
    BY <1>2, WithoutTyped DEF DataInv
  <2> QED BY <1>1, <1>2, <2>1, PlacesTyped DEF DataInv
<1>3. CASE Return(t) /\ UNCHANGED active_jobs
  BY <1>1, <1>3, ReturnTyped DEF DataInv
<1> QED BY <1>2, <1>3 DEF Complete, complete_job

LEMMA LookTyped ==
  ASSUME IInv, DataInv, NEW w \in Watchers, get_job_status(w)
  PROVE  DataInv'
<1>1. UNCHANGED <<request, active_jobs, scheduling_queue, node_capabilities, partial_results>>
  BY DEF get_job_status, jobs
<1>2. PICK p \in {"idle", "look"} : pc' = [pc EXCEPT ![w] = p]
  BY DEF get_job_status, Look
<1>3. \A v \in Watchers : pc'[v] \in {"idle", "look"}
  BY <1>2 DEF DataInv, IInv, Typed
<1>4. \A t \in Tasks : pc'[t] = pc[t] /\ call'[t] = call[t]
  BY LookFacts DEF IInv
<1> QED BY <1>1, <1>3, <1>4 DEF DataInv

LEMMA RegisterTyped ==
  ASSUME IInv, DataInv, NEW n \in Nodes, NEW f \in SUBSET Features, register_node_capabilities(n, f)
  PROVE  DataInv'
<1>1. UNCHANGED <<request, active_jobs, scheduling_queue, partial_results, pc, call>>
  BY DEF register_node_capabilities, jobs
<1>2. /\ node_capabilities' \in [DOMAIN node_capabilities' -> SUBSET Features]
      /\ DOMAIN node_capabilities' = DOMAIN node_capabilities \cup {n}
  <2>1. node_capabilities \in [DOMAIN node_capabilities -> SUBSET Features]
    BY DEF DataInv
  <2>2. /\ Put(node_capabilities, n, f) \in [DOMAIN Put(node_capabilities, n, f) -> SUBSET Features]
        /\ DOMAIN Put(node_capabilities, n, f) = DOMAIN node_capabilities \cup {n}
    BY <2>1 DEF Put
  <2> QED BY <2>2 DEF register_node_capabilities
<1> QED BY <1>1, <1>2 DEF DataInv

\* One result waits, or none.
LEMMA CollectTyped ==
  ASSUME DataInv, NEW j, NEW n, collect_partial_result(j, n)
  PROVE  DataInv'
<1>1. UNCHANGED <<request, active_jobs, scheduling_queue, node_capabilities, pc, call>>
  BY DEF collect_partial_result, jobs
<1>2. PICK waiting : /\ waiting = IF j \in DOMAIN partial_results THEN partial_results[j] ELSE <<>>
                     /\ partial_results' = IF Collected(waiting, n) = <<>> THEN Without(partial_results, j)
                                           ELSE Put(partial_results, j, Collected(waiting, n))
  BY DEF collect_partial_result
<1>3. CASE j \in DOMAIN partial_results
  <2>1. Collected(waiting, n) = <<>>
    <3>1. waiting = partial_results[j]
      BY <1>2, <1>3
    <3>2. Len(waiting) = 1
      BY <1>3, <3>1 DEF DataInv
    <3> QED BY <3>2 DEF Collected
  <2> QED BY <1>1, <1>2, <2>1 DEF Without, Restrict, DataInv
<1>4. CASE j \notin DOMAIN partial_results
  <2>1. Collected(waiting, n) = <<n>>
    BY <1>2, <1>4 DEF Collected
  <2>2. partial_results' = Put(partial_results, j, <<n>>)
    BY <1>2, <2>1
  <2>3. \A k \in DOMAIN partial_results' : Len(partial_results'[k]) = 1
    BY <2>2 DEF Put, DataInv
  <2> QED BY <1>1, <2>3 DEF DataInv
<1> QED BY <1>3, <1>4

LEMMA DataInvStep == IInv /\ DataInv /\ [Next]_vars => DataInv'
<1> SUFFICES ASSUME IInv, DataInv, [Next]_vars PROVE DataInv'
  OBVIOUS
<1>1. ASSUME NEW t \in Tasks, Submit(t) \/ Dispatch(t) \/ Receive(t) \/ Assign(t) \/ Complete(t)
      PROVE  DataInv'
  BY <1>1, SubmitTyped, DispatchTyped, ReceiveTyped, AssignTyped, CompleteTyped
<1>2. CASE UNCHANGED vars
  BY <1>2 DEF vars, jobs, DataInv
<1> QED BY <1>1, <1>2, LookTyped, RegisterTyped, CollectTyped DEF Next

\* Who is asked about is known.
Asked == \A w \in Watchers : call[w] # NoCall => call[w].job \in DOMAIN request \cup Foreign

LEMMA DisturbedAsked ==
  ASSUME WatchInv, NEW k, NEW w \in Watchers, NEW d, d = Disturbed(k)[w]
  PROVE  d = NoCall \/ (call[w] # NoCall /\ d.job = call[w].job)
<1>1. CASE call[w] = NoCall
  BY <1>1 DEF Disturbed, NoCall
<1>2. CASE call[w] # NoCall
  <2>1. call[w] \in StatusCalls
    BY <1>2 DEF WatchInv
  <2>2. d = call[w] \/ d = [call[w] EXCEPT !.alone = FALSE]
    BY DEF Disturbed
  <2>3. d.job = call[w].job
    BY <2>1, <2>2 DEF StatusCalls
  <2> QED BY <1>2, <2>3
<1> QED BY <1>1, <1>2

LEMMA TaskAsked ==
  ASSUME IInv, WatchInv, Asked, NEW t \in Tasks, DOMAIN request \subseteq DOMAIN request',
         (\E place, c : Continue(t, place, c)) \/ Return(t)
  PROVE  Asked'
<1>1. PICK k : \A w \in Watchers : call'[w] = Disturbed(k)[w]
  <2>1. ASSUME NEW place, NEW c, Continue(t, place, c)
        PROVE  \A w \in Watchers : call'[w] = Disturbed(c.job)[w]
    BY <2>1, CallsAssumption DEF Continue, Disturbed
  <2>2. CASE Return(t)
    <3>1. \A w \in Watchers : call'[w] = Disturbed(call[t].job)[w]
      BY <2>2, CallsAssumption DEF Return, Disturbed
    <3> QED BY <3>1
  <2> QED BY <2>1, <2>2
<1>2. \A w \in Watchers : call'[w] = NoCall \/ (call[w] # NoCall /\ call'[w].job = call[w].job)
  BY <1>1, DisturbedAsked
<1> QED BY <1>2 DEF Asked

LEMMA LookAsked ==
  ASSUME IInv, WatchInv, Asked, NEW w \in Watchers, get_job_status(w)
  PROVE  Asked'
<1>1. PICK c \in StatusCalls : Look(w, c) /\ c.job \in DOMAIN request \cup Foreign
  <2>1. CASE pc[w] = "look" /\ Look(w, call[w])
    BY <2>1 DEF WatchInv, Asked
  <2>2. ASSUME NEW j \in Named, Look(w, [job |-> j, alone |-> ~ InCall(j), next |-> 1, answer |-> "?"])
        PROVE  \E c \in StatusCalls : Look(w, c) /\ c.job \in DOMAIN request \cup Foreign
    <3>1. PICK b \in BOOLEAN : b = ~ InCall(j)
      OBVIOUS
    <3> DEFINE c == [job |-> j, alone |-> b, next |-> 1, answer |-> "?"]
    <3>2. c \in StatusCalls /\ c.job \in DOMAIN request \cup Foreign
      BY NamedFacts DEF StatusCalls, Answers
    <3> QED BY <2>2, <3>1, <3>2
  <2> QED BY <2>1, <2>2 DEF get_job_status
<1>2. \E d : d.job = c.job /\ call' = [call EXCEPT ![w] = d]
  <2>1. \A a, n : [c EXCEPT !.answer = a].job = c.job /\ [c EXCEPT !.next = n].job = c.job
    BY DEF StatusCalls
  <2>2. (\E a : call' = [call EXCEPT ![w] = [c EXCEPT !.answer = a]])
          \/ (\E n : call' = [call EXCEPT ![w] = [c EXCEPT !.next = n]])
    BY <1>1 DEF Look
  <2> QED BY <2>1, <2>2
<1> QED BY <1>1, <1>2 DEF get_job_status, jobs, Asked, IInv, Typed

LEMMA AskedStep == IInv /\ WatchInv /\ Asked /\ [Next]_vars => Asked'
<1> SUFFICES ASSUME IInv, WatchInv, Asked, [Next]_vars PROVE Asked'
  OBVIOUS
<1>1. ASSUME NEW t \in Tasks, Submit(t) \/ Dispatch(t) \/ Receive(t) \/ Assign(t) \/ Complete(t)
      PROVE  Asked'
  <2>1. DOMAIN request \subseteq DOMAIN request'
    BY <1>1 DEF Submit, submit_job, Dispatch, Receive, Assign, Complete, Put, jobs
  <2>2. (\E place, c : Continue(t, place, c)) \/ Return(t) \/ call' = call
    BY <1>1 DEF Submit, submit_job, Dispatch, Receive, Assign, assign_work, Complete, complete_job
  <2> QED BY <2>1, <2>2, TaskAsked DEF Asked
<1>2. CASE request' = request /\ call' = call
  BY <1>2 DEF Asked
<1> QED BY <1>1, <1>2, LookAsked DEF Next, vars, jobs, register_node_capabilities, collect_partial_result

\* Type correctness: among others, results that are enough to be aggregated do not wait, and
\* whatever id a caller names, the maps hold no job that was neither submitted here nor made
\* by another node.
THEOREM TypeCorrect == Spec => []TypeOK
<1>1. Init => DataInv
  BY DEF Init, DataInv
<1>2. Init => WatchInv
  BY CallsAssumption DEF Init, WatchInv
<1>3. Init => Asked
  BY DEF Init, Asked
<1>4. IInv /\ WatchInv /\ Asked /\ DataInv => TypeOK
  <2> SUFFICES ASSUME IInv, WatchInv, Asked, DataInv PROVE TypeOK
    OBVIOUS
  <2>1. scheduling_queue \in Seq(DOMAIN request)
    BY SeqMonotonic DEF IInv, Typed, Published
  <2>2. pc \in [Tasks \cup Watchers -> {"idle", "pend", "schedule", "assign", "unpend", "store", "look"}]
    BY DEF IInv, Typed, DataInv
  <2>3. \A w \in Watchers : call[w] # NoCall =>
          call[w].job \in DOMAIN request \cup Foreign /\ call[w].answer \in Answers
    BY DEF Asked, WatchInv, StatusCalls
  <2> QED BY <2>1, <2>2, <2>3 DEF TypeOK, IInv, Typed, DataInv
<1> QED BY <1>1, <1>2, <1>3, <1>4, InvInit, InvStep, WatchInvStep, AskedStep, DataInvStep, PTL DEF Spec

-----------------------------------------------------------------------------------
(***********************************************************************************)
(* The order of the queue.                                                         *)
(***********************************************************************************)
\* The elements of q are in an order that the pairs R give.
Ordered(q, R) == \A b \in 1..Len(q) : \A a \in 1..b - 1 : <<q[a], q[b]>> \in R

LEMMA InsertAtIs ==
  ASSUME NEW T, NEW q \in Seq(T), NEW e \in T, NEW i \in 1..Len(q) + 1
  PROVE  /\ Len(InsertAt(q, i, e)) = Len(q) + 1
         /\ \A k \in 1..Len(q) + 1 :
              InsertAt(q, i, e)[k] = IF k < i THEN q[k] ELSE IF k = i THEN e ELSE q[k - 1]
<1> DEFINE front == SubSeq(q, 1, i - 1)
           back == SubSeq(q, i, Len(q))
<1>1. Len(q) \in Nat
  BY LenProperties
<1>2. front \in Seq(T) /\ Len(front) = i - 1 /\ \A k \in 1..i - 1 : front[k] = q[k]
  BY <1>1, SubSeqProperties
<1>3. back \in Seq(T) /\ Len(back) = Len(q) - i + 1 /\ \A k \in 1..Len(q) - i + 1 : back[k] = q[i + k - 1]
  BY <1>1, SubSeqProperties
<1> HIDE DEF front, back
<1>4. <<e>> \in Seq(T) /\ Len(<<e>>) = 1 /\ <<e>>[1] = e
  OBVIOUS
<1>5. /\ front \o <<e>> \in Seq(T) /\ Len(front \o <<e>>) = i
      /\ \A k \in 1..i : (front \o <<e>>)[k] = IF k < i THEN q[k] ELSE e
  BY <1>2, <1>4, ConcatProperties
<1>6. /\ Len((front \o <<e>>) \o back) = Len(q) + 1
      /\ \A k \in 1..Len(q) + 1 :
           ((front \o <<e>>) \o back)[k] = IF k <= i THEN (front \o <<e>>)[k] ELSE back[k - i]
  <2>1. Len((front \o <<e>>) \o back) = i + (Len(q) - i + 1)
    BY <1>3, <1>5, ConcatProperties
  <2>2. \A k \in 1..i + (Len(q) - i + 1) :
          ((front \o <<e>>) \o back)[k] = IF k <= i THEN (front \o <<e>>)[k] ELSE back[k - i]
    BY <1>3, <1>5, ConcatProperties
  <2>3. i + (Len(q) - i + 1) = Len(q) + 1
    BY <1>1
  <2> QED BY <2>1, <2>2, <2>3
<1>7. \A k \in 1..Len(q) + 1 :
        ((front \o <<e>>) \o back)[k] = IF k < i THEN q[k] ELSE IF k = i THEN e ELSE q[k - 1]
  <2> SUFFICES ASSUME NEW k \in 1..Len(q) + 1
               PROVE  ((front \o <<e>>) \o back)[k] = IF k < i THEN q[k] ELSE IF k = i THEN e ELSE q[k - 1]
    OBVIOUS
  <2>1. CASE k <= i
    BY <1>5, <1>6, <2>1
  <2>2. CASE k > i
    <3>1. k - i \in 1..Len(q) - i + 1 /\ i + (k - i) - 1 = k - 1
      BY <1>1, <2>2
    <3>2. back[k - i] = q[k - 1]
      BY <1>3, <3>1
    <3>3. ~ k <= i /\ ~ k < i /\ k # i
      BY <1>1, <2>2
    <3> QED BY <1>6, <3>2, <3>3
  <2>3. k <= i \/ k > i
    BY <1>1
  <2> QED BY <2>1, <2>2, <2>3, Zenon
<1> QED BY <1>6, <1>7 DEF InsertAt, front, back

\* What comes behind all that goes before its place and before all that follows leaves the
\* order as it is.
LEMMA InsertOrdered ==
  ASSUME NEW T, NEW q \in Seq(T), NEW e \in T, NEW i \in 1..Len(q) + 1, NEW R, Ordered(q, R),
         \A k \in 1..i - 1 : <<q[k], e>> \in R, \A k \in i..Len(q) : <<e, q[k]>> \in R
  PROVE  Ordered(InsertAt(q, i, e), R)
<1> DEFINE r == InsertAt(q, i, e)
<1>1. Len(q) \in Nat
  BY LenProperties
<1>2. /\ Len(r) = Len(q) + 1
      /\ \A k \in 1..Len(q) + 1 : r[k] = IF k < i THEN q[k] ELSE IF k = i THEN e ELSE q[k - 1]
  BY InsertAtIs
<1> SUFFICES ASSUME NEW b \in 1..Len(q) + 1, NEW a \in 1..b - 1
             PROVE  <<r[a], r[b]>> \in R
  BY <1>2 DEF Ordered
<1> HIDE DEF r
<1>3. a \in 1..Len(q) + 1 /\ a < b
  BY <1>1
<1>4. CASE b < i
  <2>1. r[a] = q[a] /\ r[b] = q[b] /\ b \in 1..Len(q)
    BY <1>1, <1>2, <1>3, <1>4
  <2> QED BY <2>1 DEF Ordered
<1>5. CASE b = i
  <2>1. r[a] = q[a] /\ r[b] = e /\ a \in 1..i - 1
    BY <1>1, <1>2, <1>3, <1>5
  <2> QED BY <2>1
<1>6. CASE b > i
  <2>1. r[b] = q[b - 1] /\ b - 1 \in i..Len(q) /\ b - 1 \in 1..Len(q)
    BY <1>1, <1>2, <1>6
  <2>2. CASE a < i
    <3>1. r[a] = q[a] /\ a \in 1..(b - 1) - 1
      BY <1>2, <1>3, <1>6, <2>2
    <3> QED BY <2>1, <3>1 DEF Ordered
  <2>3. CASE a = i
    <3>1. r[a] = e
      BY <1>2, <1>3, <2>3
    <3> QED BY <2>1, <3>1
  <2>4. CASE a > i
    <3>1. r[a] = q[a - 1] /\ a - 1 \in 1..(b - 1) - 1
      BY <1>1, <1>2, <1>3, <2>4
    <3> QED BY <2>1, <3>1 DEF Ordered
  <2> QED BY <1>1, <1>3, <2>2, <2>3, <2>4
<1> QED BY <1>1, <1>4, <1>5, <1>6

LEMMA TailOrdered ==
  ASSUME NEW T, NEW R, NEW q \in Seq(T), q # <<>>, Ordered(q, R)
  PROVE  Ordered(Tail(q), R)
<1>1. Len(q) \in Nat /\ Len(Tail(q)) = Len(q) - 1 /\ \A k \in 1..Len(Tail(q)) : Tail(q)[k] = q[k + 1]
  BY HeadTailProperties, LenProperties
<1> SUFFICES ASSUME NEW b \in 1..Len(q) - 1, NEW a \in 1..b - 1
             PROVE  <<Tail(q)[a], Tail(q)[b]>> \in R
  BY <1>1 DEF Ordered
<1>2. Tail(q)[a] = q[a + 1] /\ Tail(q)[b] = q[b + 1] /\ b + 1 \in 1..Len(q) /\ a + 1 \in 1..(b + 1) - 1
  BY <1>1
<1> QED BY <1>2 DEF Ordered

\* Who goes before whom in the queue.
Ahead ==
  {p \in Jobs \X Jobs : \/ Priority(p[1]) > Priority(p[2])
                        \/ Priority(p[1]) = Priority(p[2]) /\ QueuedBefore(p[1], p[2])}

QueueInv ==
  /\ arrivals \in Seq(Jobs)
  /\ \A k \in 1..Len(scheduling_queue) : \E a \in 1..Len(arrivals) : arrivals[a] = scheduling_queue[k]
  /\ Ordered(scheduling_queue, Ahead)

\* What is in the queue has been given out.
LEMMA QueuedFacts ==
  ASSUME IInv
  PROVE  /\ scheduling_queue \in Seq(DOMAIN request) /\ Len(scheduling_queue) \in Nat
         /\ \A k \in 1..Len(scheduling_queue) :
              scheduling_queue[k] \in DOMAIN request /\ scheduling_queue[k] \in Jobs
<1>1. scheduling_queue \in Seq(DOMAIN request)
  BY SeqMonotonic DEF IInv, Typed, Published
<1>2. Len(scheduling_queue) \in Nat
  BY <1>1, LenProperties
<1>3. \A k \in 1..Len(scheduling_queue) : scheduling_queue[k] \in DOMAIN request
  BY <1>1, ElementOfSeq
<1> QED BY <1>1, <1>2, <1>3 DEF IInv, Typed

\* Two jobs that have been given out stay in their order.
LEMMA AheadStays ==
  ASSUME IInv, QueueInv, NEW i \in DOMAIN request, NEW j \in DOMAIN request, <<i, j>> \in Ahead,
         \A k \in DOMAIN request : request'[k] = request[k],
         arrivals' = arrivals \/ \E e \in Jobs : arrivals' = Append(arrivals, e)
  PROVE  <<i, j>> \in Ahead'
<1>1. Priority(i)' = Priority(i) /\ Priority(j)' = Priority(j)
  BY DEF Priority
<1>2. QueuedBefore(i, j) => QueuedBefore(i, j)'
  <2>1. Len(arrivals) \in Nat /\ DOMAIN arrivals = 1..Len(arrivals)
    BY LenProperties DEF QueueInv
  <2>2. 1..Len(arrivals) \subseteq DOMAIN arrivals' /\ \A a \in 1..Len(arrivals) : arrivals'[a] = arrivals[a]
    <3>1. CASE arrivals' = arrivals
      BY <2>1, <3>1
    <3>2. ASSUME NEW e \in Jobs, arrivals' = Append(arrivals, e)
          PROVE  1..Len(arrivals) \subseteq DOMAIN arrivals' /\ \A a \in 1..Len(arrivals) : arrivals'[a] = arrivals[a]
      <4>1. /\ arrivals' \in Seq(Jobs) /\ Len(arrivals') = Len(arrivals) + 1
            /\ \A a \in 1..Len(arrivals) : arrivals'[a] = arrivals[a]
        BY <3>2, AppendProperties DEF QueueInv
      <4>2. DOMAIN arrivals' = 1..Len(arrivals) + 1
        BY <4>1, LenProperties
      <4> QED BY <2>1, <4>1, <4>2
    <3> QED BY <3>1, <3>2
  <2>3. \A b \in 1..Len(arrivals) : \A a \in 1..b - 1 : a \in 1..Len(arrivals)
    BY <2>1
  <2> QED BY <2>1, <2>2, <2>3 DEF QueuedBefore
<1> QED BY <1>1, <1>2 DEF Ahead

\* Nothing is queued.
LEMMA QueueAside ==
  ASSUME IInv, QueueInv, UNCHANGED arrivals, \A k \in DOMAIN request : request'[k] = request[k],
         \/ scheduling_queue' = scheduling_queue
         \/ scheduling_queue # <<>> /\ scheduling_queue' = Tail(scheduling_queue)
  PROVE  QueueInv'
<1>1. scheduling_queue' \in Seq(DOMAIN request) /\ Ordered(scheduling_queue', Ahead)
      /\ \A k \in 1..Len(scheduling_queue') : \E a \in 1..Len(arrivals) : arrivals[a] = scheduling_queue'[k]
  <2>1. CASE scheduling_queue' = scheduling_queue
    BY <2>1, QueuedFacts DEF QueueInv
  <2>2. CASE scheduling_queue # <<>> /\ scheduling_queue' = Tail(scheduling_queue)
    <3>1. /\ Tail(scheduling_queue) \in Seq(DOMAIN request)
          /\ Len(Tail(scheduling_queue)) = Len(scheduling_queue) - 1
          /\ \A k \in 1..Len(Tail(scheduling_queue)) : Tail(scheduling_queue)[k] = scheduling_queue[k + 1]
      BY <2>2, QueuedFacts, HeadTailProperties
    <3>2. \A k \in 1..Len(scheduling_queue) - 1 : k + 1 \in 1..Len(scheduling_queue)
      BY QueuedFacts
    <3>3. Ordered(Tail(scheduling_queue), Ahead)
      BY <2>2, QueuedFacts, TailOrdered DEF QueueInv
    <3> QED BY <2>2, <3>1, <3>2, <3>3 DEF QueueInv
  <2> QED BY <2>1, <2>2
<1>2. Len(scheduling_queue') \in Nat /\ \A k \in 1..Len(scheduling_queue') : scheduling_queue'[k] \in DOMAIN request
  BY <1>1, LenProperties, ElementOfSeq
<1>3. Ordered(scheduling_queue', Ahead')
  <2> SUFFICES ASSUME NEW b \in 1..Len(scheduling_queue'), NEW a \in 1..b - 1
               PROVE  <<scheduling_queue'[a], scheduling_queue'[b]>> \in Ahead'
    BY DEF Ordered
  <2>1. a \in 1..Len(scheduling_queue')
    BY <1>2
  <2>2. <<scheduling_queue'[a], scheduling_queue'[b]>> \in Ahead
    BY <1>1 DEF Ordered
  <2> QED BY <1>2, <2>1, <2>2, AheadStays
<1> QED BY <1>1, <1>3 DEF QueueInv

\* The job goes behind all that are not of lower priority, which were queued before it.
LEMMA QueueStep ==
  ASSUME IInv, DataInv, QueueInv, NEW j \in DOMAIN request, schedule_job(j), UNCHANGED request
  PROVE  QueueInv'
<1> DEFINE q == scheduling_queue
<1>1. PICK i \in 1..Len(q) + 1 :
        /\ \A k \in 1..i - 1 : Priority(q[k]) >= Priority(j)
        /\ i <= Len(q) => Priority(q[i]) < Priority(j)
        /\ q' = InsertAt(q, i, j)
        /\ arrivals' = Append(arrivals, j)
  BY DEF schedule_job
<1>2. /\ q \in Seq(DOMAIN request) /\ Len(q) \in Nat /\ j \in Jobs
      /\ \A k \in 1..Len(q) : q[k] \in DOMAIN request /\ q[k] \in Jobs
  BY QueuedFacts DEF IInv, Typed
<1>3. /\ arrivals' \in Seq(Jobs) /\ Len(arrivals) \in Nat /\ Len(arrivals') = Len(arrivals) + 1
      /\ DOMAIN arrivals' = 1..Len(arrivals) + 1
      /\ arrivals'[Len(arrivals) + 1] = j /\ \A a \in 1..Len(arrivals) : arrivals'[a] = arrivals[a]
  BY <1>1, <1>2, AppendProperties, LenProperties DEF QueueInv
<1>4. \A k \in DOMAIN request : Priority(k) \in Nat /\ Priority(k)' = Priority(k)
  BY RequestsAssumption DEF Priority, DataInv
<1>5. Ordered(q, Ahead')
  <2> SUFFICES ASSUME NEW b \in 1..Len(q), NEW a \in 1..b - 1 PROVE <<q[a], q[b]>> \in Ahead'
    BY DEF Ordered
  <2>1. PICK i0 \in DOMAIN request, j0 \in DOMAIN request : i0 = q[a] /\ j0 = q[b]
    <3>1. a \in 1..Len(q)
      BY <1>2
    <3> QED BY <1>2, <3>1
  <2>2. <<i0, j0>> \in Ahead
    BY <2>1 DEF QueueInv, Ordered
  <2>3. <<i0, j0>> \in Ahead'
    BY <1>1, <1>2, <2>2, AheadStays
  <2> QED BY <2>1, <2>3
<1>6. ASSUME NEW k \in 1..i - 1
      PROVE  <<q[k], j>> \in Ahead'
  <2>1. k \in 1..Len(q)
    BY <1>2
  <2>2. PICK x \in DOMAIN request : x = q[k]
    BY <1>2, <2>1
  <2>3. PICK a \in 1..Len(arrivals) : arrivals[a] = x
    BY <2>1, <2>2 DEF QueueInv
  <2>4. /\ a \in 1..(Len(arrivals) + 1) - 1 /\ Len(arrivals) + 1 \in DOMAIN arrivals'
        /\ arrivals'[a] = x /\ arrivals'[Len(arrivals) + 1] = j
    BY <1>3, <2>3
  <2>5. QueuedBefore(x, j)'
    BY <2>4 DEF QueuedBefore
  <2>6. Priority(x)' > Priority(j)' \/ Priority(x)' = Priority(j)'
    <3>1. Priority(x) >= Priority(j)
      BY <1>1, <2>2
    <3>2. Priority(x) \in Nat /\ Priority(j) \in Nat /\ Priority(x)' = Priority(x) /\ Priority(j)' = Priority(j)
      BY <1>4
    <3> QED BY <3>1, <3>2
  <2>7. x \in Jobs
    BY <1>2, <2>1, <2>2
  <2>8. <<x, j>> \in Ahead'
    BY <1>2, <2>5, <2>6, <2>7 DEF Ahead
  <2> QED BY <2>2, <2>8
<1>7. ASSUME NEW k \in i..Len(q)
      PROVE  <<j, q[k]>> \in Ahead'
  <2>1. i \in 1..Len(q) /\ k \in 1..Len(q) /\ Priority(q[i]) < Priority(j)
    BY <1>1, <1>2
  <2>2. PICK x \in DOMAIN request, y \in DOMAIN request : x = q[k] /\ y = q[i]
    BY <1>2, <2>1
  <2>3. /\ Priority(j) \in Nat /\ Priority(x) \in Nat /\ Priority(y) \in Nat
        /\ Priority(j)' = Priority(j) /\ Priority(x)' = Priority(x)
    BY <1>4
  <2>4. Priority(x) <= Priority(y)
    <3>1. CASE k = i
      BY <2>2, <2>3, <3>1
    <3>2. CASE k # i
      <4>1. i \in 1..k - 1
        BY <1>2, <3>2
      <4>2. <<y, x>> \in Ahead
        BY <2>1, <2>2, <4>1 DEF QueueInv, Ordered
      <4>3. Priority(y) > Priority(x) \/ Priority(y) = Priority(x)
        BY <4>2 DEF Ahead
      <4> QED BY <2>3, <4>3
    <3> QED BY <3>1, <3>2
  <2>5. Priority(j)' > Priority(x)'
    BY <2>1, <2>2, <2>3, <2>4
  <2>6. x \in Jobs
    BY <1>2, <2>1, <2>2
  <2>7. <<j, x>> \in Ahead'
    BY <1>2, <2>5, <2>6 DEF Ahead
  <2> QED BY <2>2, <2>7
<1>8. Ordered(q', Ahead')
  BY <1>1, <1>2, <1>5, <1>6, <1>7, InsertOrdered
<1>9. \A k \in 1..Len(q') : \E a \in 1..Len(arrivals') : arrivals'[a] = q'[k]
  <2> SUFFICES ASSUME NEW k \in 1..Len(q) + 1
               PROVE  \E a \in 1..Len(arrivals) + 1 : arrivals'[a] = q'[k]
    BY <1>1, <1>2, <1>3, InsertAtIs
  <2>1. q'[k] = IF k < i THEN q[k] ELSE IF k = i THEN j ELSE q[k - 1]
    BY <1>1, <1>2, InsertAtIs
  <2>2. CASE k = i
    BY <1>3, <2>1, <2>2
  <2>3. CASE k # i
    <3>1. PICK m \in 1..Len(q) : q'[k] = q[m]
      BY <1>2, <2>1, <2>3
    <3>2. PICK a \in 1..Len(arrivals) : arrivals[a] = q[m]
      BY DEF QueueInv
    <3> QED BY <1>3, <3>1, <3>2
  <2> QED BY <2>2, <2>3
<1> QED BY <1>3, <1>8, <1>9 DEF QueueInv

LEMMA QueueInvStep == IInv /\ DataInv /\ QueueInv /\ [Next]_vars => QueueInv'
<1> SUFFICES ASSUME IInv, DataInv, QueueInv, [Next]_vars PROVE QueueInv'
  OBVIOUS
<1>1. ASSUME NEW t \in Tasks, Submit(t)
      PROVE  QueueInv'
  <2>1. ASSUME NEW j \in Jobs \ (DOMAIN request \cup Foreign), NEW r \in Requests,
               UNCHANGED <<pending_jobs, scheduling_queue, arrivals>>,
               IF Cardinality(Suitable(r)) >= r.min_nodes
               THEN request' = Put(request, j, r) /\ Continue(t, "pend", [job |-> j])
               ELSE UNCHANGED <<request, pc, call>>
        PROVE  QueueInv'
    <3>1. \A k \in DOMAIN request : request'[k] = request[k]
      BY <2>1 DEF Put
    <3> QED BY <2>1, <3>1, QueueAside
  <2>2. CASE UNCHANGED <<request, scheduling_queue, arrivals, calls>>
    BY <2>2, QueueAside
  <2>3. CASE pc[t] = "schedule" /\ schedule_job(call[t].job) /\ UNCHANGED request
    <3>1. call[t].job \in DOMAIN request
      BY <2>3 DEF IInv, Typed, Starting
    <3> QED BY <2>3, <3>1, QueueStep
  <2> QED BY <1>1, <2>1, <2>2, <2>3 DEF Submit, submit_job
<1>2. ASSUME NEW t \in Tasks, Dispatch(t)
      PROVE  QueueInv'
  BY <1>2, QueueAside DEF Dispatch, history
<1>3. CASE UNCHANGED <<request, scheduling_queue, arrivals>>
  BY <1>3, QueueAside
<1>4. ASSUME NEW t \in Tasks, Receive(t) \/ Assign(t) \/ Complete(t)
      PROVE  UNCHANGED <<request, scheduling_queue, arrivals>>
  BY <1>4 DEF Receive, Assign, Complete, jobs, history
<1> QED BY <1>1, <1>2, <1>3, <1>4 DEF Next, vars, jobs, history, get_job_status,
        register_node_capabilities, collect_partial_result

\* However many callers submit and take jobs, none waits behind one of lower priority or one
\* of its own priority that was queued later (schedule_job, get_next_job).
THEOREM QueueIsFair == Spec => []QueueFair
<1>1. Init => DataInv /\ QueueInv
  <2>1. ASSUME Init PROVE Ordered(scheduling_queue, Ahead)
    BY <2>1 DEF Init, Ordered
  <2> QED BY <2>1 DEF Init, DataInv, QueueInv
<1>2. IInv /\ QueueInv => QueueFair
  <2> SUFFICES ASSUME IInv, QueueInv, NEW b \in DOMAIN scheduling_queue, NEW a \in 1..b - 1
               PROVE  LET i == scheduling_queue[a]
                          j == scheduling_queue[b]
                      IN  Priority(i) > Priority(j) \/ (Priority(i) = Priority(j) /\ QueuedBefore(i, j))
    BY DEF QueueFair
  <2>1. DOMAIN scheduling_queue = 1..Len(scheduling_queue)
    BY QueuedFacts, LenProperties
  <2>2. <<scheduling_queue[a], scheduling_queue[b]>> \in Ahead
    BY <2>1 DEF QueueInv, Ordered
  <2> QED BY <2>2 DEF Ahead
<1> QED BY <1>1, <1>2, InvInit, InvStep, DataInvStep, QueueInvStep, PTL DEF Spec
===================================================================================
