------------------------------- MODULE JobLifecycle -------------------------------
(***********************************************************************************)
(* What the work distributor promises about a job: it is submitted here or starts  *)
(* on behalf of another node, and is seen from then on until a result of it comes. *)
(* While that is being stored the job may be out of sight; then it is completed,   *)
(* for ever.  A result may come for a job that has not started, or that nobody has *)
(* heard of.                                                                       *)
(***********************************************************************************)
CONSTANT Jobs

VARIABLES
  status,
  storing      \* the jobs a result of which has come and is not stored yet

JobStatus == {"None", "Pending", "InProgress", "Completed"}

TypeOK == status \in [Jobs -> JobStatus] /\ storing \subseteq Jobs

Init == status = [j \in Jobs |-> "None"] /\ storing = {}

Becomes(j, s) == status' = [status EXCEPT ![j] = s]

Submit(j) == status[j] = "None" /\ Becomes(j, "Pending") /\ UNCHANGED storing

Start(j) == status[j] \in {"None", "Pending"} /\ Becomes(j, "InProgress") /\ UNCHANGED storing

ResultComes(j) ==
  /\ storing' = storing \cup {j}
  /\ \/ UNCHANGED status
     \/ status[j] = "InProgress" /\ (Becomes(j, "Pending") \/ Becomes(j, "None"))

Hidden(j) == j \in storing /\ status[j] = "Pending" /\ Becomes(j, "None") /\ UNCHANGED storing

\* Another result of the job may be on its way still.
Store(j) == j \in storing /\ Becomes(j, "Completed") /\ storing' \in {storing, storing \ {j}}

Next == \E j \in Jobs : Submit(j) \/ Start(j) \/ ResultComes(j) \/ Hidden(j) \/ Store(j)

Spec == Init /\ [][Next]_<<status, storing>>
===================================================================================
