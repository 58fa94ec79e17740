---------------------------- MODULE Translators_proofs -----------------------------
(***********************************************************************************)
(* Proofs about Translators for any callers, readers, names, paths and modules,    *)
(* and any number of threads of the runtime.                                       *)
(***********************************************************************************)
EXTENDS Translators, Lemmas

-----------------------------------------------------------------------------------
Translator ==
  [name : Names, data : Data \ Invalid, thread : {"starting", "serving", "exited"},
   queue : Seq(Callers \cup {"shutdown"})]

Info == [data : Data, status : Statuses]

InstallJobs == [op : {"Install"}, name : Names, data : Data]

ControlJobs == [op : {"Enable", "Disable"}, name : Names]

InvokeJobs == [op : {"Invoke"}, path : Paths]

SetJobs == [op : {"Set"}, path : Paths, name : Names]

Jobs == CommandJobs \cup CallJobs \cup {NoJob}

StateTypes ==
  /\ infos \in [DOMAIN infos -> Info] /\ DOMAIN infos \subseteq Names
  /\ commands \in Seq(CommandJobs)
  /\ translators \in Seq(Translator)
  /\ registry \in [DOMAIN registry -> DOMAIN translators] /\ DOMAIN registry \subseteq Paths

TaskTypes ==
  /\ pc \in [Tasks -> Places]
  /\ job \in [Tasks -> Jobs]
  /\ handle \in [Tasks -> DOMAIN translators \cup {0}]

LockTypes ==
  /\ nodes_lock \in LocksOf(Tasks)
  /\ infos_lock \in LocksOf(Tasks)
  /\ registry_lock \in LocksOf(Tasks)

Types == StateTypes /\ TaskTypes /\ LockTypes

\* Whoever looks a translator up sets it on a path, or is the processor at a command.
Loading(t) ==
  \/ t \in Callers /\ job[t] \in SetJobs
  \/ t = "processor" /\ job[t] \in ControlJobs

Invoking(t) == t \in Callers /\ job[t] \in InvokeJobs

\* Who can be where, with what to do, and whether it holds a translator there.
PlaceOf(t) ==
  /\ pc[t] = "write" => t \in Callers /\ job[t] \in ControlJobs
  /\ pc[t] \in {"get", "send", "answer", "drop"} => Invoking(t)
  /\ pc[t] \in {"read", "status"} => t \in Readers
  /\ pc[t] \in {"directory", "file", "store"} => t = "processor" /\ job[t] \in InstallJobs
  /\ pc[t] \in {"lookup", "load", "remove"} => Loading(t)
  /\ pc[t] = "remove" => job[t].op = "Disable"
  /\ pc[t] = "join" => Loading(t) \/ Invoking(t)
  /\ pc[t] \in {"send", "answer", "drop", "join", "load"} <=> handle[t] # 0

PlaceInv == \A t \in Tasks : PlaceOf(t)

\* A caller waits in one queue, once, while it waits for its answer.
WaitsIn(i, j) ==
  LET q == translators[i].queue
  IN  /\ pc[q[j]] = "answer" /\ handle[q[j]] = i
      /\ \A k \in DOMAIN q : q[k] = q[j] => k = j

QueueOf(i) ==
  \A j \in DOMAIN translators[i].queue : translators[i].queue[j] # "shutdown" => WaitsIn(i, j)

QueueInv == \A i \in DOMAIN translators : QueueOf(i)

HoldsInfos(t) == Reads(infos_lock, t) \/ Writes(infos_lock, t)

\* The locks a task has where it is; the processor never reads the infos.
LocksOfPlace(t) ==
  /\ pc[t] = "status" => Reads(nodes_lock, t)
  /\ pc[t] \in {"load", "remove"} => HoldsInfos(t) /\ job[t].name \in DOMAIN infos
  /\ pc[t] = "join" /\ job[t].op # "Invoke" =>
       HoldsInfos(t) /\ Writes(registry_lock, t) /\ job[t].name \in DOMAIN infos

LockInv ==
  /\ Exclusive(nodes_lock) /\ Exclusive(infos_lock) /\ Exclusive(registry_lock)
  /\ "processor" \notin Wants(infos_lock, "R")
  /\ \A t \in Tasks : LocksOfPlace(t)

\* A translator somebody holds runs, and has not been told to stop.
Running(i) == translators[i].thread # "exited" /\ "shutdown" \notin ToSet(translators[i].queue)

ServedOf(i) == translators[i].data \notin Failing /\ Handles(i) # {} => Running(i)

ServedInv == \A i \in DOMAIN translators : ServedOf(i)

\* Translator i, if it is n's, was made from what is installed under n.
Right(n, i) == translators[i].name = n => translators[i].data = infos[n].data

\* The processor has taken n from the registry and waits for its thread to end.
Removing(n) ==
  pc["processor"] = "join" /\ job["processor"].op = "Disable" /\ job["processor"].name = n

ServesInfo(n) == n \in DOMAIN registry /\ Right(n, registry[n])

InfoInv ==
  /\ \A n \in DOMAIN infos : infos[n].status = "Enabled" => ServesInfo(n) \/ Removing(n)
  /\ \A t \in Tasks : pc[t] = "load" =>
       translators[handle[t]].name = job[t].name /\ Right(job[t].name, handle[t])
  /\ \A t \in Tasks : pc[t] = "join" /\ job[t].op = "Enable" => ServesInfo(job[t].name)

-----------------------------------------------------------------------------------
LEMMA JobFacts ==
  /\ CommandJobs = InstallJobs \cup ControlJobs
  /\ CallJobs = InvokeJobs \cup SetJobs
  /\ \A j \in InstallJobs : j.op = "Install" /\ j.name \in Names /\ j.data \in Data
  /\ \A j \in ControlJobs : j.op \in {"Enable", "Disable"} /\ j.name \in Names
  /\ \A j \in InvokeJobs : j.op = "Invoke" /\ j.path \in Paths
  /\ \A j \in SetJobs : j.op = "Set" /\ j.path \in Paths /\ j.name \in Names
BY DEF CommandJobs, CallJobs, InstallJobs, ControlJobs, InvokeJobs, SetJobs

\* What no step changes of a translator.
Kept ==
  /\ translators' \in Seq(Translator)
  /\ DOMAIN translators \subseteq DOMAIN translators'
  /\ \A i \in DOMAIN translators :
       /\ translators'[i].name = translators[i].name
       /\ translators'[i].data = translators[i].data

LEMMA Replaced ==
  ASSUME NEW S, NEW s \in Seq(S), NEW i \in DOMAIN s, NEW r \in S
  PROVE  /\ [s EXCEPT ![i] = r] \in Seq(S)
         /\ DOMAIN [s EXCEPT ![i] = r] = DOMAIN s
         /\ [s EXCEPT ![i] = r][i] = r
         /\ \A j \in DOMAIN s : j # i => [s EXCEPT ![i] = r][j] = s[j]
BY ExceptSeq

\* One translator gets another queue or another state of its thread.
Alters(i, th, q) ==
  /\ Kept /\ DOMAIN translators' = DOMAIN translators
  /\ translators'[i].thread = th /\ translators'[i].queue = q
  /\ \A j \in DOMAIN translators : j # i => translators'[j] = translators[j]

LEMMA Altered ==
  ASSUME translators \in Seq(Translator), NEW i \in DOMAIN translators,
         NEW r \in Translator, r.name = translators[i].name, r.data = translators[i].data,
         translators' = [translators EXCEPT ![i] = r]
  PROVE  Alters(i, r.thread, r.queue)
<1> DEFINE t == [translators EXCEPT ![i] = r]
<1>3. /\ t \in Seq(Translator) /\ DOMAIN t = DOMAIN translators /\ t[i] = r
      /\ \A j \in DOMAIN translators : j # i => t[j] = translators[j]
  BY Replaced
<1>4. translators' = t
  OBVIOUS
<1> HIDE DEF t
<1> QED BY <1>3, <1>4 DEF Kept, Alters

\* What the steps of a translator's thread and of those who send to it do.
LEMMA QueueAltered ==
  ASSUME translators \in Seq(Translator), NEW i \in DOMAIN translators,
         NEW q \in Seq(Callers \cup {"shutdown"}),
         translators' = [translators EXCEPT ![i].queue = q]
  PROVE  Alters(i, translators[i].thread, q)
<1> DEFINE r == [translators[i] EXCEPT !.queue = q]
<1>1. translators[i] \in Translator
  OBVIOUS
<1>2. /\ r.queue = q /\ r.thread = translators[i].thread
      /\ r \in Translator /\ r.name = translators[i].name /\ r.data = translators[i].data
  BY <1>1 DEF Translator
<1>3. translators' = [translators EXCEPT ![i] = r]
  OBVIOUS
<1> HIDE DEF r
<1>4. Alters(i, r.thread, r.queue)
  BY <1>2, <1>3, Altered
<1> QED BY <1>2, <1>4

LEMMA SendAlters ==
  ASSUME translators \in Seq(Translator), NEW i \in DOMAIN translators,
         NEW c \in Callers \cup {"shutdown"},
         translators' = [translators EXCEPT ![i].queue = Append(@, c)]
  PROVE  Alters(i, translators[i].thread, Append(translators[i].queue, c))
<1>1. translators[i] \in Translator
  OBVIOUS
<1>2. translators[i].queue \in Seq(Callers \cup {"shutdown"})
  BY <1>1 DEF Translator
<1>3. Append(translators[i].queue, c) \in Seq(Callers \cup {"shutdown"})
  BY <1>2
<1> QED BY <1>3, QueueAltered

LEMMA AnswerAlters ==
  ASSUME translators \in Seq(Translator), NEW i \in DOMAIN translators,
         translators[i].queue # <<>>,
         translators' = [translators EXCEPT ![i].queue = Tail(@)]
  PROVE  Alters(i, translators[i].thread, Tail(translators[i].queue))
<1>1. translators[i] \in Translator
  OBVIOUS
<1>2. translators[i].queue \in Seq(Callers \cup {"shutdown"})
  BY <1>1 DEF Translator
<1>3. Tail(translators[i].queue) \in Seq(Callers \cup {"shutdown"})
  BY <1>2
<1> QED BY <1>3, QueueAltered

LEMMA ServingAlters ==
  ASSUME translators \in Seq(Translator), NEW i \in DOMAIN translators,
         translators' = [translators EXCEPT ![i].thread = "serving"]
  PROVE  Alters(i, "serving", translators[i].queue)
<1> DEFINE r == [translators[i] EXCEPT !.thread = "serving"]
<1>1. translators[i] \in Translator
  OBVIOUS
<1>2. /\ r.queue = translators[i].queue /\ r.thread = "serving"
      /\ r \in Translator /\ r.name = translators[i].name /\ r.data = translators[i].data
  BY <1>1 DEF Translator
<1>3. translators' = [translators EXCEPT ![i] = r]
  OBVIOUS
<1> HIDE DEF r
<1>4. Alters(i, r.thread, r.queue)
  BY <1>2, <1>3, Altered
<1> QED BY <1>2, <1>4

LEMMA ExitAlters ==
  ASSUME translators \in Seq(Translator), NEW i \in DOMAIN translators, Exited(i)
  PROVE  Alters(i, "exited", <<>>)
<1> DEFINE r == [translators[i] EXCEPT !.thread = "exited", !.queue = <<>>]
           s == [translators EXCEPT ![i].thread = "exited"]
<1>1. translators[i] \in Translator
  OBVIOUS
<1>2. /\ r.queue = <<>> /\ r.thread = "exited"
      /\ r \in Translator /\ r.name = translators[i].name /\ r.data = translators[i].data
  BY <1>1, EmptySeq DEF Translator
<1>3. translators' = [translators EXCEPT ![i] = r]
  <2>1. translators' = [translators EXCEPT ![i].thread = "exited", ![i].queue = <<>>]
    BY DEF Exited
  <2>2. [translators EXCEPT ![i].thread = "exited", ![i].queue = <<>>] = [s EXCEPT ![i].queue = <<>>]
    OBVIOUS
  <2>3. [translators EXCEPT ![i].thread = "exited", ![i].queue = <<>>] = [translators EXCEPT ![i] = r]
    BY <2>2
  <2> QED BY <2>1, <2>3
<1> HIDE DEF r, s
<1>4. Alters(i, r.thread, r.queue)
  BY <1>2, <1>3, Altered
<1> QED BY <1>2, <1>4

\* A translator that is shut down: the command is queued, or its thread is gone.
LEMMA ShutdownAlters ==
  ASSUME translators \in Seq(Translator), NEW i \in DOMAIN translators,
         translators' = Shutdown(i)
  PROVE  Alters(i, translators[i].thread,
                IF translators[i].thread = "exited" THEN translators[i].queue
                ELSE Append(translators[i].queue, "shutdown"))
<1>1. CASE translators[i].thread = "exited"
  BY <1>1 DEF Shutdown, Alters, Kept
<1>2. CASE translators[i].thread # "exited"
  BY <1>2, SendAlters DEF Shutdown
<1> QED BY <1>1, <1>2

LEMMA Added ==
  ASSUME translators \in Seq(Translator), NEW r \in Translator,
         translators' = Append(translators, r)
  PROVE  /\ Kept /\ DOMAIN translators' = DOMAIN translators \cup {Len(translators')}
         /\ Len(translators') \notin DOMAIN translators /\ Len(translators') # 0
         /\ translators'[Len(translators')] = r
         /\ \A i \in DOMAIN translators : translators'[i] = translators[i]
BY DEF Kept

LEMMA SpawnedTyped == \A n \in Names, d \in Data \ Invalid : Spawned(n, d) \in Translator
BY EmptySeq DEF Spawned, Translator

AfterShutdown(i) ==
  Alters(i, translators[i].thread,
         IF translators[i].thread = "exited" THEN translators[i].queue
         ELSE Append(translators[i].queue, "shutdown"))

\* What the steps of the tasks and of the threads do to the translators.
LEMMA SendEffect ==
  ASSUME Types, PlaceInv, NEW t \in Tasks, Send(t)
  PROVE  /\ handle[t] \in DOMAIN translators /\ t \in Callers
         /\ \/ UNCHANGED translators
            \/ Alters(handle[t], translators[handle[t]].thread,
                      Append(translators[handle[t]].queue, t))
<1>1. pc[t] = "send"
  BY DEF Send, At
<1>2. handle[t] \in DOMAIN translators /\ t \in Callers
  BY <1>1 DEF Types, StateTypes, TaskTypes, PlaceInv, PlaceOf, Invoking
<1>3. CASE UNCHANGED translators
  BY <1>2, <1>3
<1>4. CASE ~ UNCHANGED translators
  BY <1>2, <1>4, SendAlters DEF Send, Types, StateTypes, TaskTypes
<1> QED BY <1>3, <1>4

LEMMA DropEffect ==
  ASSUME Types, PlaceInv, NEW t \in Tasks, Drop(t)
  PROVE  /\ handle[t] \in DOMAIN translators
         /\ IF LastHandle(handle[t], t) THEN AfterShutdown(handle[t]) ELSE UNCHANGED translators
<1>1. pc[t] = "drop"
  BY DEF Drop, At
<1>2. handle[t] \in DOMAIN translators
  BY <1>1 DEF Types, StateTypes, TaskTypes, PlaceInv, PlaceOf
<1>3. LastHandle(handle[t], t) => translators' = Shutdown(handle[t])
  BY DEF Drop
<1>4. ~ LastHandle(handle[t], t) => UNCHANGED translators
  BY DEF Drop
<1> QED BY <1>2, <1>3, <1>4, ShutdownAlters DEF AfterShutdown, Types, StateTypes, TaskTypes

Displaces(t) == MountPoint(t) \in DOMAIN registry /\ LastHandle(registry[MountPoint(t)], MountPoint(t))

LEMMA DisplaceEffect ==
  ASSUME Types, NEW t \in Tasks, Displace(t)
  PROVE  IF Displaces(t)
         THEN AfterShutdown(registry[MountPoint(t)]) /\ registry[MountPoint(t)] \in DOMAIN translators
         ELSE UNCHANGED translators
<1>1. CASE Displaces(t)
  <2>1. registry[MountPoint(t)] \in DOMAIN translators
    BY <1>1 DEF Types, StateTypes, TaskTypes, Displaces
  <2>2. translators' = Shutdown(registry[MountPoint(t)])
    BY <1>1 DEF Displace, Displaces
  <2> QED BY <1>1, <2>1, <2>2, ShutdownAlters DEF AfterShutdown, Types, StateTypes, TaskTypes
<1>2. CASE ~ Displaces(t)
  BY <1>2 DEF Displace, Displaces
<1> QED BY <1>1, <1>2

LEMMA SpawnEffect ==
  ASSUME Types, PlaceInv, NEW t \in Tasks, Spawn(t)
  PROVE  /\ Spawned(job[t].name, infos[job[t].name].data) \in Translator
         /\ translators' = Append(translators, Spawned(job[t].name, infos[job[t].name].data))
         /\ Kept
<1>1. pc[t] = "lookup" /\ job[t].name \in DOMAIN infos /\ infos[job[t].name].data \notin Invalid
  BY DEF Spawn, Found, At
<1>2. job[t].name \in Names
  BY <1>1, JobFacts DEF PlaceInv, PlaceOf, Loading
<1>3. infos[job[t].name] \in Info
  BY <1>1 DEF Types, StateTypes, TaskTypes
<1>4. infos[job[t].name].data \in Data \ Invalid
  BY <1>1, <1>3 DEF Info
<1>5. Spawned(job[t].name, infos[job[t].name].data) \in Translator
  BY <1>2, <1>4, SpawnedTyped
<1>6. translators' = Append(translators, Spawned(job[t].name, infos[job[t].name].data))
  BY DEF Spawn
<1> QED BY <1>5, <1>6, Added DEF Types, StateTypes, TaskTypes

LEMMA InstantiateEffect ==
  ASSUME Types, NEW i \in DOMAIN translators, Instantiate(i)
  PROVE  IF translators[i].data \in Failing THEN Exited(i) /\ Alters(i, "exited", <<>>)
         ELSE Alters(i, "serving", translators[i].queue) /\ UNCHANGED pc
BY ExitAlters, ServingAlters DEF Instantiate, Types, StateTypes, TaskTypes

LEMMA ServeEffect ==
  ASSUME Types, NEW i \in DOMAIN translators, Serve(i)
  PROVE  LET q == translators[i].queue
         IN  /\ q # <<>>
             /\ IF Head(q) = "shutdown" THEN Exited(i) /\ Alters(i, "exited", <<>>)
                ELSE Alters(i, translators[i].thread, Tail(q)) /\ Goto(Head(q), "drop")
<1>1. translators[i].queue # <<>>
  BY DEF Serve
<1>2. CASE Head(translators[i].queue) = "shutdown"
  BY <1>1, <1>2, ExitAlters DEF Serve, Types, StateTypes, TaskTypes
<1>3. CASE Head(translators[i].queue) # "shutdown"
  BY <1>1, <1>3, AnswerAlters DEF Serve, Types, StateTypes, TaskTypes
<1> QED BY <1>1, <1>2, <1>3

LEMMA KeptStep == Types /\ PlaceInv /\ [Next]_vars => Kept
<1> SUFFICES ASSUME Types, PlaceInv, [Next]_vars PROVE Kept
  OBVIOUS
<1>k. \/ UNCHANGED translators
      \/ \E i \in DOMAIN translators : \E th, q : Alters(i, th, q)
      => Kept
  BY DEF Kept, Alters, Types, StateTypes, TaskTypes
<1> USE DEF state, Complete
<1>1. ASSUME NEW t \in Tasks, InstallTranslator(t) PROVE Kept
  BY <1>1, <1>k DEF InstallTranslator
<1>2. ASSUME NEW t \in Tasks, WriteControl(t) PROVE Kept
  BY <1>2, <1>k DEF WriteControl
<1>3. ASSUME NEW t \in Tasks, ControlWritten(t) PROVE Kept
  BY <1>3, <1>k DEF ControlWritten
<1>4. ASSUME NEW t \in Tasks, Invoke(t) PROVE Kept
  BY <1>4, <1>k DEF Invoke
<1>5. ASSUME NEW t \in Tasks, Get(t) PROVE Kept
  BY <1>5, <1>k DEF Get
<1>6. ASSUME NEW t \in Tasks, Send(t) PROVE Kept
  BY <1>6, <1>k, SendEffect
<1>7. ASSUME NEW t \in Tasks, Drop(t) PROVE Kept
  BY <1>7, <1>k, DropEffect DEF AfterShutdown
<1>8. ASSUME NEW t \in Tasks, SetTranslator(t) PROVE Kept
  BY <1>8, <1>k DEF SetTranslator
<1>9. ASSUME NEW t \in Tasks, ReadStatus(t) PROVE Kept
  BY <1>9, <1>k DEF ReadStatus
<1>10. ASSUME NEW t \in Tasks, BlockOnStatus(t) PROVE Kept
  BY <1>10, <1>k DEF BlockOnStatus
<1>11. ASSUME NEW t \in Tasks, StatusRead(t) PROVE Kept
  BY <1>11, <1>k DEF StatusRead
<1>12. ASSUME NEW t \in Tasks, Unusable(t) PROVE Kept
  BY <1>12, <1>k DEF Unusable
<1>13. ASSUME NEW t \in Tasks, Spawn(t) PROVE Kept
  BY <1>13, SpawnEffect
<1>14. ASSUME NEW t \in Tasks, Disable(t) PROVE Kept
  BY <1>14, <1>k DEF Disable
<1>15. ASSUME NEW t \in Tasks, Load(t) PROVE Kept
  BY <1>15, <1>k, DisplaceEffect DEF Load, AfterShutdown
<1>16. ASSUME NEW t \in Tasks, RemoveTranslator(t) PROVE Kept
  BY <1>16, <1>k, DisplaceEffect DEF AfterShutdown, RemoveTranslator
<1>17. ASSUME NEW t \in Tasks, Joined(t) PROVE Kept
  BY <1>17, <1>k DEF Joined
<1>18. CASE Receive
  BY <1>18, <1>k DEF Receive
<1>19. CASE InstallDirectory
  BY <1>19, <1>k DEF InstallDirectory
<1>20. CASE InstallFile
  BY <1>20, <1>k DEF InstallFile
<1>21. CASE InstallInfo
  BY <1>21, <1>k DEF InstallInfo
<1>22. ASSUME NEW i \in DOMAIN translators, Instantiate(i) PROVE Kept
  BY <1>22, InstantiateEffect DEF Alters
<1>23. ASSUME NEW i \in DOMAIN translators, Serve(i) PROVE Kept
  BY <1>23, ServeEffect DEF Alters
<1>24. CASE UNCHANGED vars
  BY <1>24, <1>k DEF vars, state, locks
<1> QED BY <1>1, <1>2, <1>3, <1>4, <1>5, <1>6, <1>7, <1>8, <1>9, <1>10, <1>11,
           <1>12, <1>13, <1>14, <1>15, <1>16, <1>17, <1>18, <1>19, <1>20, <1>21,
           <1>22, <1>23, <1>24
        DEF Next, Start, Step, Processor

-----------------------------------------------------------------------------------
\* What Complete and Unusable do to the infos: at most the status of one changes.
Marked(n, st) ==
  /\ infos' \in [DOMAIN infos -> Info] /\ DOMAIN infos' = DOMAIN infos
  /\ \A m \in DOMAIN infos : infos'[m].data = infos[m].data
  /\ \A m \in DOMAIN infos : m # n => infos'[m] = infos[m]
  /\ n \in DOMAIN infos => infos'[n].status = st

LEMMA Marking ==
  ASSUME infos \in [DOMAIN infos -> Info], NEW n, NEW st \in Statuses,
         infos' = [infos EXCEPT ![n].status = st]
  PROVE  Marked(n, st)
<1>1. CASE n \in DOMAIN infos
  <2> DEFINE r == [infos[n] EXCEPT !.status = st]
  <2>1. infos[n] \in Info
    BY <1>1
  <2>2. r \in Info /\ r.data = infos[n].data /\ r.status = st
    BY <2>1 DEF Info
  <2>3. infos' = [infos EXCEPT ![n] = r]
    OBVIOUS
  <2> HIDE DEF r
  <2> QED BY <1>1, <2>2, <2>3 DEF Marked
<1>2. CASE n \notin DOMAIN infos
  <2>1. infos' = infos
    BY <1>2
  <2> QED BY <1>2, <2>1 DEF Marked
<1> QED BY <1>1, <1>2

LEMMA CompleteEffect ==
  ASSUME Types, NEW t \in Tasks, Complete(t)
  PROVE  /\ CASE job[t].op = "Enable"  -> Marked(job[t].name, "Enabled")
              [] job[t].op = "Disable" -> Marked(job[t].name, "Disabled")
              [] OTHER                 -> UNCHANGED infos
         /\ DOMAIN infos' = DOMAIN infos /\ infos' \in [DOMAIN infos' -> Info]
         /\ registry_lock' = Leave(registry_lock, t)
         /\ infos_lock' = Leave(infos_lock, t)
         /\ Finish(t)
<1>1. /\ registry_lock' = Leave(registry_lock, t)
      /\ infos_lock' = Leave(infos_lock, t)
      /\ Finish(t)
  BY DEF Complete
<1>2. CASE job[t].op = "Enable"
  <2>1. Marked(job[t].name, "Enabled")
    BY <1>2, Marking DEF Complete, Types, StateTypes, Statuses
  <2> QED BY <1>1, <1>2, <2>1 DEF Marked
<1>3. CASE job[t].op = "Disable"
  <2>1. Marked(job[t].name, "Disabled")
    BY <1>3, Marking DEF Complete, Types, StateTypes, Statuses
  <2> QED BY <1>1, <1>3, <2>1 DEF Marked
<1>4. CASE job[t].op \notin {"Enable", "Disable"}
  BY <1>1, <1>4 DEF Complete, Types, StateTypes
<1> QED BY <1>2, <1>3, <1>4

LEMMA StoredTyped ==
  ASSUME Types, NEW n \in Names, NEW d \in Data
  PROVE  /\ Stored(n, d) \in [DOMAIN Stored(n, d) -> Info]
         /\ DOMAIN Stored(n, d) = DOMAIN infos \cup {n}
         /\ Stored(n, d)[n].status = "Available"
         /\ \A m \in DOMAIN infos : m # n => Stored(n, d)[m] = infos[m]
BY DEF Stored, WithInfo, Types, StateTypes, Info, Statuses

LEMMA ExitedPlaces ==
  ASSUME Types, PlaceInv, QueueInv, NEW i \in DOMAIN translators, Exited(i)
  PROVE  /\ pc' \in [Tasks -> Places]
         /\ \A t \in Tasks : \/ pc'[t] = pc[t]
                             \/ pc[t] = "answer" /\ pc'[t] = "drop" /\ handle[t] = i
<1>1. pc' = [t \in Tasks |-> IF t \in ToSet(translators[i].queue) THEN "drop" ELSE pc[t]]
  BY DEF Exited
<1>2. ASSUME NEW t \in Tasks, t \in ToSet(translators[i].queue)
      PROVE  pc[t] = "answer" /\ handle[t] = i
  <2>1. PICK j \in DOMAIN translators[i].queue : translators[i].queue[j] = t
    BY <1>2 DEF ToSet
  <2>2. t # "shutdown"
    BY HandlesAssumption DEF Tasks
  <2> QED BY <2>1, <2>2 DEF QueueInv, QueueOf, WaitsIn
<1> QED BY <1>1, <1>2 DEF Types, TaskTypes, Places

\* A caller that is answered waited for the answer.
LEMMA AnsweredPlaces ==
  ASSUME Types, PlaceInv, QueueInv, NEW i \in DOMAIN translators, Serve(i),
         Head(translators[i].queue) # "shutdown"
  PROVE  LET c == Head(translators[i].queue)
         IN  c \in Callers /\ pc[c] = "answer" /\ handle[c] = i
<1> DEFINE q == translators[i].queue
<1>1. translators[i] \in Translator
  BY DEF Types, StateTypes
<1>2. q \in Seq(Callers \cup {"shutdown"}) /\ q # <<>>
  BY <1>1 DEF Translator, Serve
<1>3. 1 \in DOMAIN q /\ Head(q) = q[1] /\ q[1] \in Callers \cup {"shutdown"}
  BY <1>2
<1> QED BY <1>3 DEF QueueInv, QueueOf, WaitsIn

LEMMA LockTypesStep == Types /\ [Next]_vars => LockTypes'
<1> SUFFICES ASSUME Types, [Next]_vars PROVE LockTypes'
  OBVIOUS
<1>l. \A l \in LocksOf(Tasks), t \in Tasks : /\ Leave(l, t) \in LocksOf(Tasks)
                                            /\ Request(l, t, "R") \in LocksOf(Tasks)
                                            /\ Request(l, t, "W") \in LocksOf(Tasks)
  BY LeaveType, RequestType
<1>p. "processor" \in Tasks
  BY DEF Tasks
<1> USE DEF Types, LockTypes, locks, Complete
<1>1. ASSUME NEW t \in Tasks, InstallTranslator(t) PROVE LockTypes'
  BY <1>1, <1>l, <1>p DEF InstallTranslator
<1>2. ASSUME NEW t \in Tasks, WriteControl(t) PROVE LockTypes'
  BY <1>2, <1>l, <1>p DEF WriteControl
<1>3. ASSUME NEW t \in Tasks, ControlWritten(t) PROVE LockTypes'
  BY <1>3, <1>l, <1>p DEF ControlWritten
<1>4. ASSUME NEW t \in Tasks, Invoke(t) PROVE LockTypes'
  BY <1>4, <1>l, <1>p DEF Invoke
<1>5. ASSUME NEW t \in Tasks, Get(t) PROVE LockTypes'
  BY <1>5, <1>l, <1>p DEF Get
<1>6. ASSUME NEW t \in Tasks, Send(t) PROVE LockTypes'
  BY <1>6, <1>l, <1>p DEF Send
<1>7. ASSUME NEW t \in Tasks, Drop(t) PROVE LockTypes'
  BY <1>7, <1>l, <1>p DEF Drop
<1>8. ASSUME NEW t \in Tasks, SetTranslator(t) PROVE LockTypes'
  BY <1>8, <1>l, <1>p DEF SetTranslator
<1>9. ASSUME NEW t \in Tasks, ReadStatus(t) PROVE LockTypes'
  BY <1>9, <1>l, <1>p DEF ReadStatus
<1>10. ASSUME NEW t \in Tasks, BlockOnStatus(t) PROVE LockTypes'
  BY <1>10, <1>l, <1>p DEF BlockOnStatus
<1>11. ASSUME NEW t \in Tasks, StatusRead(t) PROVE LockTypes'
  BY <1>11, <1>l, <1>p DEF StatusRead
<1>12. ASSUME NEW t \in Tasks, Unusable(t) PROVE LockTypes'
  BY <1>12, <1>l, <1>p DEF Unusable
<1>13. ASSUME NEW t \in Tasks, Spawn(t) PROVE LockTypes'
  BY <1>13, <1>l, <1>p DEF Spawn
<1>14. ASSUME NEW t \in Tasks, Disable(t) PROVE LockTypes'
  BY <1>14, <1>l, <1>p DEF Disable
<1>15. ASSUME NEW t \in Tasks, Load(t) PROVE LockTypes'
  BY <1>15, <1>l DEF Load, Displace
<1>16. ASSUME NEW t \in Tasks, RemoveTranslator(t) PROVE LockTypes'
  BY <1>16, <1>l DEF RemoveTranslator, Displace
<1>17. ASSUME NEW t \in Tasks, Joined(t) PROVE LockTypes'
  BY <1>17, <1>l, <1>p DEF Joined
<1>18. CASE Receive
  BY <1>18, <1>l, <1>p DEF Receive
<1>19. CASE InstallDirectory
  BY <1>19, <1>l, <1>p DEF InstallDirectory
<1>20. CASE InstallFile
  BY <1>20, <1>l, <1>p DEF InstallFile
<1>21. CASE InstallInfo
  BY <1>21, <1>l, <1>p DEF InstallInfo
<1>22. ASSUME NEW i \in DOMAIN translators, Instantiate(i) PROVE LockTypes'
  BY <1>22, <1>l, <1>p DEF Instantiate
<1>23. ASSUME NEW i \in DOMAIN translators, Serve(i) PROVE LockTypes'
  BY <1>23, <1>l, <1>p DEF Serve
<1>24. CASE UNCHANGED vars
  BY <1>24, <1>l, <1>p DEF vars, state, locks
<1> QED BY <1>1, <1>2, <1>3, <1>4, <1>5, <1>6, <1>7, <1>8, <1>9, <1>10, <1>11,
           <1>12, <1>13, <1>14, <1>15, <1>16, <1>17, <1>18, <1>19, <1>20, <1>21,
           <1>22, <1>23, <1>24
        DEF Next, Start, Step, Processor

LEMMA TaskTypesStep == Types /\ PlaceInv /\ QueueInv /\ [Next]_vars => TaskTypes'
<1> SUFFICES ASSUME Types, PlaceInv, QueueInv, [Next]_vars PROVE TaskTypes'
  OBVIOUS
<1>k. Kept
  BY KeptStep
<1>p. \A t \in Tasks, place \in Places : Goto(t, place) => pc' \in [Tasks -> Places]
  BY DEF Goto, Types, TaskTypes
<1>f. \A t \in Tasks : Finish(t) => TaskTypes'
  BY <1>k DEF Finish, Goto, Types, TaskTypes, Places, Jobs, Kept
<1>h. UNCHANGED handle => handle' \in [Tasks -> DOMAIN translators' \cup {0}]
  BY <1>k DEF Types, TaskTypes, Kept
<1>j. \A t \in Tasks, j \in Jobs : job' = [job EXCEPT ![t] = j] => job' \in [Tasks -> Jobs]
  BY DEF Types, TaskTypes
<1>a. \A t \in Tasks, i \in DOMAIN translators' :
        handle' = [handle EXCEPT ![t] = i] => handle' \in [Tasks -> DOMAIN translators' \cup {0}]
  BY <1>k DEF Types, TaskTypes, Kept
<1>t. "processor" \in Tasks
  BY DEF Tasks
<1>u. pc' = pc => pc' \in [Tasks -> Places]
  BY DEF Types, TaskTypes
<1>v. job' = job => job' \in [Tasks -> Jobs]
  BY DEF Types, TaskTypes
<1>c. CommandJobs \subseteq Jobs /\ CallJobs \subseteq Jobs
  BY DEF Jobs
<1>q. /\ \A p \in Paths : [op |-> "Invoke", path |-> p] \in Jobs
      /\ \A p \in Paths, n \in Names : [op |-> "Set", path |-> p, name |-> n] \in Jobs
  BY DEF Jobs, CallJobs
<1>w. \A t \in Tasks : Displace(t) => TaskTypes'
  <2> SUFFICES ASSUME NEW t \in Tasks, Displace(t) PROVE TaskTypes'
    OBVIOUS
  <2>1. CASE Displaces(t)
    <3>1. registry[MountPoint(t)] \in DOMAIN translators'
      BY <1>k, <2>1 DEF Displaces, Types, StateTypes, Kept
    <3>2. /\ handle' = [handle EXCEPT ![t] = registry[MountPoint(t)]]
          /\ Goto(t, "join") /\ job' = job
      BY <2>1 DEF Displace, Displaces
    <3> QED BY <1>a, <1>p, <1>v, <3>1, <3>2 DEF TaskTypes, Places
  <2>2. CASE ~ Displaces(t)
    BY <1>f, <2>2 DEF Displace, Displaces, Complete
  <2> QED BY <2>1, <2>2
<1> USE DEF TaskTypes, state, Places
<1>1. ASSUME NEW t \in Tasks, InstallTranslator(t) PROVE TaskTypes'
  BY <1>1, <1>p, <1>f, <1>h, <1>j, <1>u, <1>v, <1>t DEF InstallTranslator
<1>2. ASSUME NEW t \in Tasks, WriteControl(t) PROVE TaskTypes'
  BY <1>2, <1>p, <1>h, <1>j, <1>c DEF WriteControl
<1>3. ASSUME NEW t \in Tasks, ControlWritten(t) PROVE TaskTypes'
  BY <1>3, <1>p, <1>f, <1>h, <1>j, <1>u, <1>v, <1>t DEF ControlWritten
<1>4. ASSUME NEW t \in Tasks, Invoke(t) PROVE TaskTypes'
  <2>1. PICK p \in Paths : job' = [job EXCEPT ![t] = [op |-> "Invoke", path |-> p]]
    BY <1>4 DEF Invoke
  <2>2. job' \in [Tasks -> Jobs]
    BY <1>j, <1>q, <2>1
  <2> QED BY <1>4, <1>p, <1>h, <2>2 DEF Invoke
<1>5. ASSUME NEW t \in Tasks, Get(t) PROVE TaskTypes'
  <2>1. CASE job[t].path \in DOMAIN registry
    <3>1. registry[job[t].path] \in DOMAIN translators'
      BY <1>k, <2>1 DEF Types, StateTypes, Kept
    <3> QED BY <1>5, <1>a, <1>p, <1>v, <2>1, <3>1 DEF Get
  <2>2. CASE job[t].path \notin DOMAIN registry
    BY <1>5, <1>f, <2>2 DEF Get
  <2> QED BY <2>1, <2>2
<1>6. ASSUME NEW t \in Tasks, Send(t) PROVE TaskTypes'
  BY <1>6, <1>p, <1>f, <1>h, <1>j, <1>u, <1>v, <1>t DEF Send
<1>7. ASSUME NEW t \in Tasks, Drop(t) PROVE TaskTypes'
  BY <1>7, <1>p, <1>f, <1>h, <1>j, <1>u, <1>v, <1>t DEF Drop
<1>8. ASSUME NEW t \in Tasks, SetTranslator(t) PROVE TaskTypes'
  BY <1>8, <1>p, <1>h, <1>j, <1>q DEF SetTranslator
<1>9. ASSUME NEW t \in Tasks, ReadStatus(t) PROVE TaskTypes'
  BY <1>9, <1>p, <1>f, <1>h, <1>j, <1>u, <1>v, <1>t DEF ReadStatus
<1>10. ASSUME NEW t \in Tasks, BlockOnStatus(t) PROVE TaskTypes'
  BY <1>10, <1>p, <1>f, <1>h, <1>j, <1>u, <1>v, <1>t DEF BlockOnStatus
<1>11. ASSUME NEW t \in Tasks, StatusRead(t) PROVE TaskTypes'
  BY <1>11, <1>p, <1>f, <1>h, <1>j, <1>u, <1>v, <1>t DEF StatusRead
<1>12. ASSUME NEW t \in Tasks, Unusable(t) PROVE TaskTypes'
  BY <1>12, <1>p, <1>f, <1>h, <1>j, <1>u, <1>v, <1>t DEF Unusable
<1>13. ASSUME NEW t \in Tasks, Spawn(t) PROVE TaskTypes'
  <2>1. Len(translators') \in DOMAIN translators'
    BY <1>13, SpawnEffect, Added DEF Types, StateTypes
  <2> QED BY <1>13, <1>a, <1>p, <1>v, <2>1 DEF Spawn
<1>14. ASSUME NEW t \in Tasks, Disable(t) PROVE TaskTypes'
  BY <1>14, <1>p, <1>f, <1>h, <1>j, <1>u, <1>v, <1>t DEF Disable
<1>15. ASSUME NEW t \in Tasks, Load(t) PROVE TaskTypes'
  BY <1>15, <1>w DEF Load
<1>16. ASSUME NEW t \in Tasks, RemoveTranslator(t) PROVE TaskTypes'
  BY <1>16, <1>w DEF RemoveTranslator
<1>17. ASSUME NEW t \in Tasks, Joined(t) PROVE TaskTypes'
  BY <1>17, <1>f DEF Joined, Complete
<1>18. CASE Receive
  <2>1. Head(commands) \in Jobs
    BY <1>18, <1>c DEF Receive, Types, StateTypes
  <2> QED BY <1>18, <1>p, <1>h, <1>j, <1>t, <2>1 DEF Receive
<1>19. CASE InstallDirectory
  BY <1>19, <1>p, <1>f, <1>h, <1>j, <1>u, <1>v, <1>t DEF InstallDirectory
<1>20. CASE InstallFile
  BY <1>20, <1>p, <1>f, <1>h, <1>j, <1>u, <1>v, <1>t DEF InstallFile
<1>21. CASE InstallInfo
  BY <1>21, <1>p, <1>f, <1>h, <1>j, <1>u, <1>v, <1>t DEF InstallInfo
<1>22. ASSUME NEW i \in DOMAIN translators, Instantiate(i) PROVE TaskTypes'
  <2>1. pc' \in [Tasks -> Places]
    BY <1>22, <1>u, InstantiateEffect, ExitedPlaces
  <2> QED BY <1>22, <1>h, <1>v, <2>1 DEF Instantiate
<1>23. ASSUME NEW i \in DOMAIN translators, Serve(i) PROVE TaskTypes'
  <2>1. pc' \in [Tasks -> Places]
    BY <1>23, <1>u, ServeEffect, ExitedPlaces DEF Goto, Types
  <2> QED BY <1>23, <1>h, <1>v, <2>1 DEF Serve
<1>24. CASE UNCHANGED vars
  BY <1>24, <1>p, <1>f, <1>h, <1>j, <1>u, <1>v, <1>t DEF vars, state, locks
<1> QED BY <1>1, <1>2, <1>3, <1>4, <1>5, <1>6, <1>7, <1>8, <1>9, <1>10, <1>11,
           <1>12, <1>13, <1>14, <1>15, <1>16, <1>17, <1>18, <1>19, <1>20, <1>21,
           <1>22, <1>23, <1>24
        DEF Next, Start, Step, Processor

LEMMA StateTypesStep == Types /\ PlaceInv /\ [Next]_vars => StateTypes'
<1> SUFFICES ASSUME Types, PlaceInv, [Next]_vars PROVE StateTypes'
  OBVIOUS
<1>k. Kept
  BY KeptStep
<1>h. /\ UNCHANGED registry => /\ registry' \in [DOMAIN registry' -> DOMAIN translators']
                               /\ DOMAIN registry' \subseteq Paths
      /\ translators' \in Seq(Translator)
      /\ UNCHANGED infos => infos' \in [DOMAIN infos' -> Info] /\ DOMAIN infos' \subseteq Names
      /\ UNCHANGED commands => commands' \in Seq(CommandJobs)
  BY <1>k DEF Types, StateTypes, Kept
<1>c. \A c \in CommandJobs : Append(commands, c) \in Seq(CommandJobs)
  BY DEF Types, StateTypes
<1>d. commands # <<>> => Tail(commands) \in Seq(CommandJobs)
  BY DEF Types, StateTypes
<1>e. \A t \in Tasks : Complete(t) => infos' \in [DOMAIN infos' -> Info] /\ DOMAIN infos' \subseteq Names
  BY CompleteEffect DEF Types, StateTypes
<1>t. "processor" \in Tasks
  BY DEF Tasks
<1>m. \A t \in Tasks : pc[t] = "load" =>
        job[t].name \in Paths /\ MountPoint(t) \in Paths /\ handle[t] # 0
  BY JobFacts, NamesAssumption DEF PlaceInv, PlaceOf, Loading, MountPoint
<1> USE DEF StateTypes, state
<1>1. ASSUME NEW t \in Tasks, InstallTranslator(t) PROVE StateTypes'
  BY <1>1, <1>h, <1>c DEF InstallTranslator
<1>2. ASSUME NEW t \in Tasks, WriteControl(t) PROVE StateTypes'
  BY <1>2, <1>h DEF WriteControl
<1>3. ASSUME NEW t \in Tasks, ControlWritten(t) PROVE StateTypes'
  <2>1. job[t] \in CommandJobs
    BY <1>3, JobFacts DEF ControlWritten, At, PlaceInv, PlaceOf
  <2> QED BY <1>3, <1>h, <1>c, <2>1 DEF ControlWritten
<1>4. ASSUME NEW t \in Tasks, Invoke(t) PROVE StateTypes'
  BY <1>4, <1>h DEF Invoke
<1>5. ASSUME NEW t \in Tasks, Get(t) PROVE StateTypes'
  BY <1>5, <1>h DEF Get
<1>6. ASSUME NEW t \in Tasks, Send(t) PROVE StateTypes'
  BY <1>6, <1>h DEF Send
<1>7. ASSUME NEW t \in Tasks, Drop(t) PROVE StateTypes'
  BY <1>7, <1>h DEF Drop
<1>8. ASSUME NEW t \in Tasks, SetTranslator(t) PROVE StateTypes'
  BY <1>8, <1>h DEF SetTranslator
<1>9. ASSUME NEW t \in Tasks, ReadStatus(t) PROVE StateTypes'
  BY <1>9, <1>h DEF ReadStatus
<1>10. ASSUME NEW t \in Tasks, BlockOnStatus(t) PROVE StateTypes'
  BY <1>10, <1>h DEF BlockOnStatus
<1>11. ASSUME NEW t \in Tasks, StatusRead(t) PROVE StateTypes'
  BY <1>11, <1>h DEF StatusRead
<1>12. ASSUME NEW t \in Tasks, Unusable(t) PROVE StateTypes'
  <2>1. CASE infos' = infos
    BY <1>12, <1>h, <2>1 DEF Unusable
  <2>2. CASE infos' = [infos EXCEPT ![job[t].name].status = "Error"]
    <3>1. Marked(job[t].name, "Error")
      BY <2>2, Marking DEF Types, Statuses
    <3> QED BY <1>12, <1>h, <3>1 DEF Unusable, Marked, Types
  <2> QED BY <1>12, <2>1, <2>2 DEF Unusable
<1>13. ASSUME NEW t \in Tasks, Spawn(t) PROVE StateTypes'
  BY <1>13, <1>h DEF Spawn
<1>14. ASSUME NEW t \in Tasks, Disable(t) PROVE StateTypes'
  BY <1>14, <1>h DEF Disable
<1>15. ASSUME NEW t \in Tasks, Load(t) PROVE StateTypes'
  <2>1. job[t].name \in Paths /\ MountPoint(t) \in Paths /\ handle[t] \in DOMAIN translators'
    BY <1>15, <1>m, <1>k DEF Load, At, Types, TaskTypes, Kept
  <2>2. registry' \in [DOMAIN registry' -> DOMAIN translators'] /\ DOMAIN registry' \subseteq Paths
    BY <1>15, <1>k, <2>1 DEF Load, Types, Kept
  <2>3. infos' \in [DOMAIN infos' -> Info] /\ DOMAIN infos' \subseteq Names
    BY <1>15, <1>e, <1>h DEF Load, Displace
  <2> QED BY <1>15, <1>h, <2>2, <2>3 DEF Load
<1>16. ASSUME NEW t \in Tasks, RemoveTranslator(t) PROVE StateTypes'
  <2>2. registry' \in [DOMAIN registry' -> DOMAIN translators'] /\ DOMAIN registry' \subseteq Paths
    BY <1>16, <1>k DEF RemoveTranslator, Types, Kept
  <2>3. infos' \in [DOMAIN infos' -> Info] /\ DOMAIN infos' \subseteq Names
    BY <1>16, <1>e, <1>h DEF RemoveTranslator, Displace
  <2> QED BY <1>16, <1>h, <2>2, <2>3 DEF RemoveTranslator
<1>17. ASSUME NEW t \in Tasks, Joined(t) PROVE StateTypes'
  BY <1>17, <1>h, <1>e DEF Joined
<1>18. CASE Receive
  BY <1>18, <1>h, <1>d DEF Receive
<1>19. CASE InstallDirectory
  BY <1>19, <1>h DEF InstallDirectory
<1>20. CASE InstallFile
  BY <1>20, <1>h DEF InstallFile
<1>21. CASE InstallInfo
  <2>1. job["processor"].name \in Names /\ job["processor"].data \in Data
    BY <1>21, <1>t, JobFacts DEF InstallInfo, At, PlaceInv, PlaceOf
  <2> DEFINE s == Stored(job["processor"].name, job["processor"].data)
  <2>3. infos' = s
    BY <1>21 DEF InstallInfo
  <2>4. s \in [DOMAIN s -> Info] /\ DOMAIN s = DOMAIN infos \cup {job["processor"].name}
    BY <2>1, StoredTyped
  <2> HIDE DEF s
  <2>2. infos' \in [DOMAIN infos' -> Info] /\ DOMAIN infos' \subseteq Names
    BY <2>1, <2>3, <2>4 DEF Types
  <2> QED BY <1>21, <1>h, <2>2 DEF InstallInfo
<1>22. ASSUME NEW i \in DOMAIN translators, Instantiate(i) PROVE StateTypes'
  BY <1>22, <1>h DEF Instantiate
<1>23. ASSUME NEW i \in DOMAIN translators, Serve(i) PROVE StateTypes'
  BY <1>23, <1>h DEF Serve
<1>24. CASE UNCHANGED vars
  BY <1>24, <1>h DEF vars, state, locks
<1> QED BY <1>1, <1>2, <1>3, <1>4, <1>5, <1>6, <1>7, <1>8, <1>9, <1>10, <1>11,
           <1>12, <1>13, <1>14, <1>15, <1>16, <1>17, <1>18, <1>19, <1>20, <1>21,
           <1>22, <1>23, <1>24
        DEF Next, Start, Step, Processor

-----------------------------------------------------------------------------------
LEMMA PlaceStep == Types /\ PlaceInv /\ QueueInv /\ [Next]_vars => PlaceInv'
<1> SUFFICES ASSUME Types, PlaceInv, QueueInv, [Next]_vars, NEW u \in Tasks PROVE PlaceOf(u)'
  BY DEF PlaceInv
<1>o. pc'[u] = pc[u] /\ job'[u] = job[u] /\ handle'[u] = handle[u] => PlaceOf(u)'
  BY DEF PlaceInv, PlaceOf, Loading, Invoking
<1>f. \A t \in Tasks : Finish(t) => PlaceOf(u)'
  <2> SUFFICES ASSUME NEW t \in Tasks, Finish(t) PROVE PlaceOf(u)'
    OBVIOUS
  <2>1. CASE u = t
    BY <2>1 DEF Finish, Goto, PlaceOf, Types, TaskTypes
  <2>2. CASE u # t
    BY <1>o, <2>2 DEF Finish, Goto, Types, TaskTypes
  <2> QED BY <2>1, <2>2
<1>d. /\ pc \in [Tasks -> Places] /\ job \in [Tasks -> Jobs]
      /\ handle \in [Tasks -> DOMAIN translators \cup {0}]
  BY DEF PlaceInv, Types, TaskTypes
<1>p. \A t \in Tasks : PlaceOf(t)
  BY DEF PlaceInv
<1>t. "processor" \in Tasks
  BY DEF Tasks
<1>j. \A j : \/ j \in InstallJobs /\ j.op = "Install"
             \/ j \in ControlJobs /\ j.op # "Install"
             \/ j \notin CommandJobs
  BY JobFacts
<1>w. \A t \in Tasks : pc[t] \in {"load", "remove"} /\ Displace(t) => PlaceOf(u)'
  <2> SUFFICES ASSUME NEW t \in Tasks, pc[t] \in {"load", "remove"}, Displace(t) PROVE PlaceOf(u)'
    OBVIOUS
  <2>1. CASE Displaces(t)
    <3>1. registry[MountPoint(t)] \in DOMAIN translators
      BY <2>1 DEF Displaces, Types, StateTypes
    <3>2. registry[MountPoint(t)] # 0
      BY <3>1 DEF Types, StateTypes
    <3>3. /\ handle' = [handle EXCEPT ![t] = registry[MountPoint(t)]]
          /\ Goto(t, "join") /\ job' = job
      BY <2>1 DEF Displace, Displaces
    <3>4. u # t => PlaceOf(u)'
      BY <1>d, <1>o, <3>3 DEF Goto
    <3>5. u = t => PlaceOf(u)'
      BY <1>d, <1>p, <3>2, <3>3 DEF Goto, PlaceOf, Loading
    <3> QED BY <3>4, <3>5
  <2>2. CASE ~ Displaces(t)
    BY <1>f, <2>2 DEF Displace, Displaces, Complete
  <2> QED BY <2>1, <2>2
<1>s. pc' = pc => pc'[u] = pc[u]
  OBVIOUS
<1> USE DEF state
<1>1. ASSUME NEW t \in Tasks, InstallTranslator(t) PROVE PlaceOf(u)'
  BY <1>1, <1>o DEF InstallTranslator
<1>2. ASSUME NEW t \in Tasks, WriteControl(t) PROVE PlaceOf(u)'
  <2>1. u # t => PlaceOf(u)'
    BY <1>2, <1>o, <1>d, <1>t, <1>j DEF WriteControl, Goto
  <2>2. u = t => PlaceOf(u)'
    BY <1>2, <1>p, <1>d, <1>t, <1>j DEF WriteControl, Goto, At, PlaceOf, Invoking, Loading
  <2> QED BY <2>1, <2>2
<1>3. ASSUME NEW t \in Tasks, ControlWritten(t) PROVE PlaceOf(u)'
  BY <1>3, <1>o, <1>f DEF ControlWritten
<1>4. ASSUME NEW t \in Tasks, Invoke(t) PROVE PlaceOf(u)'
  <2>1. u # t => PlaceOf(u)'
    BY <1>4, <1>o, <1>d, <1>t DEF Invoke, Goto
  <2>2. u = t => PlaceOf(u)'
    BY <1>4, <1>p, <1>d, <1>t DEF Invoke, Goto, At, PlaceOf, Invoking, Loading, InvokeJobs
  <2> QED BY <2>1, <2>2
<1>5. ASSUME NEW t \in Tasks, Get(t) PROVE PlaceOf(u)'
  <2>1. CASE job[t].path \in DOMAIN registry
    <3>1. registry[job[t].path] # 0
      BY <2>1 DEF Types, StateTypes
    <3>2. /\ handle' = [handle EXCEPT ![t] = registry[job[t].path]] /\ job' = job
          /\ Goto(t, "send") /\ pc[t] = "get"
      BY <1>5, <2>1 DEF Get, At
    <3>3. u # t => PlaceOf(u)'
      BY <1>d, <1>o, <3>2 DEF Goto
    <3>4. u = t => PlaceOf(u)'
      BY <1>d, <1>p, <3>1, <3>2 DEF Goto, PlaceOf, Invoking
    <3> QED BY <3>3, <3>4
  <2>2. CASE job[t].path \notin DOMAIN registry
    BY <1>5, <1>f, <2>2 DEF Get
  <2> QED BY <2>1, <2>2
<1>6. ASSUME NEW t \in Tasks, Send(t) PROVE PlaceOf(u)'
  BY <1>6, <1>o, <1>p, <1>t, <1>d DEF Send, Goto, At, PlaceOf, Invoking, Loading
<1>7. ASSUME NEW t \in Tasks, Drop(t) PROVE PlaceOf(u)'
  <2>1. CASE LastHandle(handle[t], t)
    <3>1. /\ UNCHANGED <<job, handle>>
          /\ Goto(t, "join") /\ pc[t] = "drop"
      BY <1>7, <2>1 DEF Drop, At
    <3> QED BY <1>d, <1>p, <1>o, <3>1 DEF Goto, PlaceOf, Invoking
  <2>2. CASE ~ LastHandle(handle[t], t)
    BY <1>7, <1>f, <2>2 DEF Drop
  <2> QED BY <2>1, <2>2
<1>8. ASSUME NEW t \in Tasks, SetTranslator(t) PROVE PlaceOf(u)'
  <2>1. u # t => PlaceOf(u)'
    BY <1>8, <1>o, <1>d, <1>t DEF SetTranslator, Goto
  <2>2. u = t => PlaceOf(u)'
    BY <1>8, <1>p, <1>d, <1>t DEF SetTranslator, Goto, At, PlaceOf, Invoking, Loading, SetJobs
  <2> QED BY <2>1, <2>2
<1>9. ASSUME NEW t \in Tasks, ReadStatus(t) PROVE PlaceOf(u)'
  BY <1>9, <1>o, <1>p, <1>t, <1>d DEF ReadStatus, Goto, At, PlaceOf, Invoking, Loading
<1>10. ASSUME NEW t \in Tasks, BlockOnStatus(t) PROVE PlaceOf(u)'
  BY <1>10, <1>o, <1>p, <1>t, <1>d DEF BlockOnStatus, Goto, At, PlaceOf, Invoking, Loading
<1>11. ASSUME NEW t \in Tasks, StatusRead(t) PROVE PlaceOf(u)'
  BY <1>11, <1>o, <1>f DEF StatusRead
<1>12. ASSUME NEW t \in Tasks, Unusable(t) PROVE PlaceOf(u)'
  BY <1>12, <1>o, <1>f DEF Unusable
<1>13. ASSUME NEW t \in Tasks, Spawn(t) PROVE PlaceOf(u)'
  <2>1. Len(translators') # 0 /\ Len(translators') \in Nat
    BY <1>13, SpawnEffect, Added DEF Types, StateTypes
  <2>2. /\ handle' = [handle EXCEPT ![t] = Len(translators')] /\ job' = job
        /\ Goto(t, "load") /\ pc[t] = "lookup"
    BY <1>13 DEF Spawn, Found, At
  <2>3. u # t => PlaceOf(u)'
    BY <1>d, <1>o, <2>2 DEF Goto
  <2>4. u = t => PlaceOf(u)'
    BY <1>d, <1>p, <2>1, <2>2 DEF Goto, PlaceOf, Loading
  <2> QED BY <2>3, <2>4
<1>14. ASSUME NEW t \in Tasks, Disable(t) PROVE PlaceOf(u)'
  <2>1. u # t => PlaceOf(u)'
    BY <1>14, <1>o, <1>d, <1>t, JobFacts DEF Disable, Goto, Found
  <2>2. u = t => PlaceOf(u)'
    BY <1>14, <1>p, <1>d, <1>t, JobFacts DEF Disable, Goto, At, PlaceOf, Invoking, Loading, Found
  <2> QED BY <2>1, <2>2
<1>15. ASSUME NEW t \in Tasks, Load(t) PROVE PlaceOf(u)'
  BY <1>15, <1>w DEF Load, At
<1>16. ASSUME NEW t \in Tasks, RemoveTranslator(t) PROVE PlaceOf(u)'
  BY <1>16, <1>w DEF RemoveTranslator, At
<1>17. ASSUME NEW t \in Tasks, Joined(t) PROVE PlaceOf(u)'
  BY <1>17, <1>o, <1>f DEF Joined, Complete
<1>18. CASE Receive
  <2> DEFINE h == Head(commands)
  <2>1. h \in CommandJobs
    BY <1>18 DEF Receive, Types, StateTypes
  <2>2. /\ job' = [job EXCEPT !["processor"] = h] /\ UNCHANGED handle /\ pc["processor"] = "idle"
        /\ IF h.op = "Install" THEN Goto("processor", "directory") ELSE Goto("processor", "lookup")
    BY <1>18 DEF Receive, At
  <2>3. IF h.op = "Install" THEN h \in InstallJobs ELSE h \in ControlJobs
    BY <2>1, <1>j, JobFacts
  <2> HIDE DEF h
  <2>4. u # "processor" => PlaceOf(u)'
    BY <1>d, <1>o, <1>t, <2>2 DEF Goto
  <2>5. u = "processor" => PlaceOf(u)'
    BY <1>d, <1>p, <1>t, <2>2, <2>3 DEF Goto, PlaceOf, Loading
  <2> QED BY <2>4, <2>5
<1>19. CASE InstallDirectory
  BY <1>19, <1>o, <1>p, <1>t, <1>d DEF InstallDirectory, Goto, At, PlaceOf, Invoking, Loading
<1>20. CASE InstallFile
  BY <1>20, <1>o, <1>p, <1>t, <1>d DEF InstallFile, Goto, At, PlaceOf, Invoking, Loading
<1>21. CASE InstallInfo
  BY <1>21, <1>o, <1>f, <1>t DEF InstallInfo
<1>22. ASSUME NEW i \in DOMAIN translators, Instantiate(i) PROVE PlaceOf(u)'
  <2>1. UNCHANGED <<job, handle>>
    BY <1>22 DEF Instantiate
  <2>3. Exited(i) \/ UNCHANGED pc
    BY <1>22, InstantiateEffect
  <2>2. pc'[u] = pc[u] \/ (pc[u] = "answer" /\ pc'[u] = "drop")
    BY <2>3, ExitedPlaces
  <2> QED BY <1>o, <2>1, <2>2 DEF PlaceInv, PlaceOf, Invoking
<1>23. ASSUME NEW i \in DOMAIN translators, Serve(i) PROVE PlaceOf(u)'
  <2>1. UNCHANGED <<job, handle>>
    BY <1>23 DEF Serve
  <2>3. CASE Head(translators[i].queue) = "shutdown"
    BY <1>23, <1>o, <2>1, <2>3, ServeEffect, ExitedPlaces DEF PlaceInv, PlaceOf, Invoking
  <2>4. CASE Head(translators[i].queue) # "shutdown"
    <3> DEFINE c == Head(translators[i].queue)
    <3>1. c \in Tasks /\ pc[c] = "answer"
      BY <1>23, <2>4, AnsweredPlaces DEF Tasks
    <3>2. Goto(c, "drop")
      BY <1>23, <2>4, ServeEffect
    <3> HIDE DEF c
    <3>3. u # c => PlaceOf(u)'
      BY <1>d, <1>o, <2>1, <3>1, <3>2 DEF Goto
    <3>4. u = c => PlaceOf(u)'
      BY <1>d, <1>p, <2>1, <3>1, <3>2 DEF Goto, PlaceOf, Invoking
    <3> QED BY <3>3, <3>4
  <2> QED BY <2>3, <2>4
<1>24. CASE UNCHANGED vars
  BY <1>24, <1>o DEF vars
<1> QED BY <1>1, <1>2, <1>3, <1>4, <1>5, <1>6, <1>7, <1>8, <1>9, <1>10, <1>11,
           <1>12, <1>13, <1>14, <1>15, <1>16, <1>17, <1>18, <1>19, <1>20, <1>21,
           <1>22, <1>23, <1>24
        DEF Next, Start, Step, Processor

-----------------------------------------------------------------------------------
\* Whatever t does with a lock l, nobody else loses it.
Passes(l, k, t) ==
  /\ Exclusive(k)
  /\ l.readers \ {t} \subseteq k.readers
  /\ l.writers \ {t} \subseteq k.writers

LEMMA LockMoves ==
  ASSUME NEW l, Exclusive(l), NEW t
  PROVE  /\ Passes(l, l, t) /\ Passes(l, Leave(l, t), t)
         /\ Passes(l, Request(l, t, "R"), t) /\ Passes(l, Request(l, t, "W"), t)
         /\ Passes(l, Request(Leave(l, t), t, "W"), t)
<1>1. Passes(l, l, t) /\ Passes(l, Leave(l, t), t)
  BY LeaveFacts DEF Passes
<1>2. Passes(l, Request(l, t, "R"), t)
  <2>1. /\ Exclusive(Request(l, t, "R"))
        /\ l.readers \subseteq Request(l, t, "R").readers
        /\ l.writers \subseteq Request(l, t, "R").writers
    BY RequestFacts
  <2> QED BY <2>1 DEF Passes
<1>3. Passes(l, Request(l, t, "W"), t)
  <2>1. /\ Exclusive(Request(l, t, "W"))
        /\ l.readers \subseteq Request(l, t, "W").readers
        /\ l.writers \subseteq Request(l, t, "W").writers
    BY RequestFacts
  <2> QED BY <2>1 DEF Passes
<1>4. Passes(l, Request(Leave(l, t), t, "W"), t)
  <2> DEFINE k == Leave(l, t)
  <2>1. Exclusive(k) /\ l.readers \ {t} \subseteq k.readers /\ l.writers \ {t} \subseteq k.writers
    BY LeaveFacts
  <2> HIDE DEF k
  <2>2. /\ Exclusive(Request(k, t, "W"))
        /\ k.readers \subseteq Request(k, t, "W").readers
        /\ k.writers \subseteq Request(k, t, "W").writers
    BY <2>1, RequestFacts
  <2>3. Passes(l, Request(k, t, "W"), t)
    BY <2>1, <2>2 DEF Passes
  <2> QED BY <2>3 DEF k
<1> QED BY <1>1, <1>2, <1>3, <1>4

\* What a step of t leaves to the others, and has where it goes.
Yields(t) ==
  /\ Passes(nodes_lock, nodes_lock', t)
  /\ Passes(infos_lock, infos_lock', t)
  /\ Passes(registry_lock, registry_lock', t)
  /\ "processor" \notin Wants(infos_lock', "R")
  /\ DOMAIN infos \subseteq DOMAIN infos'
  /\ \A u \in Tasks : u # t => pc'[u] = pc[u] /\ job'[u] = job[u]
  /\ LocksOfPlace(t)'

LEMMA YieldsKeeps == LockInv /\ (\E t \in Tasks : Yields(t)) => LockInv'
<1> SUFFICES ASSUME LockInv, NEW t \in Tasks, Yields(t) PROVE LockInv'
  OBVIOUS
<1>1. ASSUME NEW u \in Tasks, u # t PROVE LocksOfPlace(u)'
  BY <1>1 DEF LockInv, LocksOfPlace, Yields, Passes, HoldsInfos, Reads, Writes
<1>2. Exclusive(nodes_lock)' /\ Exclusive(infos_lock)' /\ Exclusive(registry_lock)'
  BY DEF Yields, Passes
<1>3. ("processor" \notin Wants(infos_lock, "R"))' /\ LocksOfPlace(t)'
  BY DEF Yields
<1> QED BY <1>1, <1>2, <1>3 DEF LockInv

LEMMA LockStep == Types /\ PlaceInv /\ QueueInv /\ LockInv /\ [Next]_vars => LockInv'
<1> SUFFICES ASSUME Types, PlaceInv, QueueInv, LockInv, [Next]_vars PROVE LockInv'
  OBVIOUS
<1>m. \A t : \A l \in {nodes_lock, infos_lock, registry_lock} :
        /\ Passes(l, l, t) /\ Passes(l, Leave(l, t), t)
        /\ Passes(l, Request(l, t, "R"), t) /\ Passes(l, Request(l, t, "W"), t)
        /\ Passes(l, Request(Leave(l, t), t, "W"), t)
  BY LockMoves DEF LockInv
<1>w. /\ "processor" \notin Wants(infos_lock, "R")
      /\ \A t \in Tasks :
           /\ "processor" \notin Wants(Leave(infos_lock, t), "R")
           /\ "processor" \notin Wants(Request(infos_lock, t, "W"), "R")
           /\ t \in Callers \cup Readers => "processor" \notin Wants(Request(infos_lock, t, "R"), "R")
  BY LeaveWants, RequestWants, HandlesAssumption DEF LockInv, Types, LockTypes
<1>d. /\ pc \in [Tasks -> Places] /\ job \in [Tasks -> Jobs]
      /\ handle \in [Tasks -> DOMAIN translators \cup {0}]
  BY DEF Types, TaskTypes
<1>p. \A t \in Tasks : PlaceOf(t) /\ LocksOfPlace(t)
  BY DEF PlaceInv, LockInv
<1>t. "processor" \in Tasks
  BY DEF Tasks
<1>g. \A t \in Tasks : \A x : Goto(t, x) => pc'[t] = x /\ \A u \in Tasks : u # t => pc'[u] = pc[u]
  BY <1>d DEF Goto
<1>f. \A t \in Tasks : Finish(t) =>
        /\ \A u \in Tasks : u # t => pc'[u] = pc[u] /\ job'[u] = job[u]
        /\ LocksOfPlace(t)'
  BY <1>d DEF Finish, Goto, LocksOfPlace
<1>c. \A t \in Tasks : Complete(t) /\ UNCHANGED nodes_lock => Yields(t)
  BY CompleteEffect, <1>f, <1>m, <1>w DEF Yields
<1>x. \A t \in Tasks :
        Displace(t) /\ Writes(registry_lock, t) /\ pc[t] \in {"load", "remove"} /\ UNCHANGED nodes_lock
        => Yields(t)
  <2> SUFFICES ASSUME NEW t \in Tasks, Displace(t), Writes(registry_lock, t),
                      pc[t] \in {"load", "remove"}, UNCHANGED nodes_lock
               PROVE  Yields(t)
    OBVIOUS
  <2>1. CASE Displaces(t)
    <3>1. UNCHANGED <<infos, registry_lock, infos_lock, job>> /\ Goto(t, "join")
      BY <2>1 DEF Displace, Displaces
    <3>2. LocksOfPlace(t)'
      BY <1>p, <1>g, <3>1 DEF LocksOfPlace, HoldsInfos
    <3> QED BY <1>g, <1>m, <1>w, <3>1, <3>2 DEF Yields
  <2>2. CASE ~ Displaces(t)
    BY <1>c, <2>2 DEF Displace, Displaces
  <2> QED BY <2>1, <2>2
<1>y. LockInv /\ (\E t \in Tasks : Yields(t)) => LockInv'
  BY YieldsKeeps
<1>z. /\ UNCHANGED <<nodes_lock, infos_lock, registry_lock, infos, job>>
      /\ \A u \in Tasks : pc'[u] \in {pc[u], "drop"}
      => LockInv'
  BY DEF LockInv, LocksOfPlace, HoldsInfos
<1> USE DEF state, locks
<1>1. ASSUME NEW t \in Tasks, InstallTranslator(t) PROVE LockInv'
  BY <1>1, <1>z DEF InstallTranslator
<1>2. ASSUME NEW t \in Tasks, WriteControl(t) PROVE LockInv'
  <2>1. Yields(t)
    BY <1>2, <1>g, <1>f, <1>m, <1>w, <1>p DEF WriteControl, Yields, LocksOfPlace, At
  <2> QED BY <1>y, <2>1
<1>3. ASSUME NEW t \in Tasks, ControlWritten(t) PROVE LockInv'
  <2>1. Yields(t)
    BY <1>3, <1>g, <1>f, <1>m, <1>w, <1>p DEF ControlWritten, Yields, LocksOfPlace, At
  <2> QED BY <1>y, <2>1
<1>4. ASSUME NEW t \in Tasks, Invoke(t) PROVE LockInv'
  <2>1. Yields(t)
    BY <1>4, <1>g, <1>f, <1>m, <1>w, <1>p DEF Invoke, Yields, LocksOfPlace, At
  <2> QED BY <1>y, <2>1
<1>5. ASSUME NEW t \in Tasks, Get(t) PROVE LockInv'
  <2>1. Yields(t)
    BY <1>5, <1>g, <1>f, <1>m, <1>w, <1>p DEF Get, Yields, LocksOfPlace, At
  <2> QED BY <1>y, <2>1
<1>6. ASSUME NEW t \in Tasks, Send(t) PROVE LockInv'
  <2>1. Yields(t)
    BY <1>6, <1>g, <1>f, <1>m, <1>w, <1>p DEF Send, Yields, LocksOfPlace, At
  <2> QED BY <1>y, <2>1
<1>7. ASSUME NEW t \in Tasks, Drop(t) PROVE LockInv'
  <2>1. Yields(t)
    <3>1. CASE LastHandle(handle[t], t)
      <4>1. Goto(t, "join") /\ pc[t] = "drop" /\ UNCHANGED <<infos, locks, job>>
        BY <1>7, <3>1 DEF Drop, At
      <4>2. job[t].op = "Invoke"
        BY <1>p, <4>1, JobFacts DEF PlaceOf, Invoking
      <4> QED BY <1>g, <1>m, <1>w, <4>1, <4>2 DEF Yields, LocksOfPlace
    <3>2. CASE ~ LastHandle(handle[t], t)
      BY <1>7, <1>f, <1>m, <1>w, <3>2 DEF Drop, Yields
    <3> QED BY <3>1, <3>2
  <2> QED BY <1>y, <2>1
<1>8. ASSUME NEW t \in Tasks, SetTranslator(t) PROVE LockInv'
  <2>1. Yields(t)
    BY <1>8, <1>g, <1>f, <1>m, <1>w, <1>p DEF SetTranslator, Yields, LocksOfPlace, At
  <2> QED BY <1>y, <2>1
<1>9. ASSUME NEW t \in Tasks, ReadStatus(t) PROVE LockInv'
  <2>1. Yields(t)
    BY <1>9, <1>g, <1>f, <1>m, <1>w, <1>p DEF ReadStatus, Yields, LocksOfPlace, At
  <2> QED BY <1>y, <2>1
<1>10. ASSUME NEW t \in Tasks, BlockOnStatus(t) PROVE LockInv'
  <2>1. Yields(t)
    <3>1. t \in Readers /\ Reads(nodes_lock, t)
      BY <1>10, <1>p DEF BlockOnStatus, At, PlaceOf
    <3>2. LocksOfPlace(t)'
      BY <1>10, <1>g, <3>1 DEF BlockOnStatus, LocksOfPlace
    <3> QED BY <1>10, <1>g, <1>m, <1>w, <3>1, <3>2 DEF BlockOnStatus, Yields
  <2> QED BY <1>y, <2>1
<1>11. ASSUME NEW t \in Tasks, StatusRead(t) PROVE LockInv'
  <2>1. Yields(t)
    BY <1>11, <1>g, <1>f, <1>m, <1>w, <1>p DEF StatusRead, Yields, LocksOfPlace, At
  <2> QED BY <1>y, <2>1
<1>12. ASSUME NEW t \in Tasks, Unusable(t) PROVE LockInv'
  <2>1. Yields(t)
    BY <1>12, <1>g, <1>f, <1>m, <1>w, <1>p DEF Unusable, Yields, LocksOfPlace, At
  <2> QED BY <1>y, <2>1
<1>13. ASSUME NEW t \in Tasks, Spawn(t) PROVE LockInv'
  <2>1. Yields(t)
    <3>1. HoldsInfos(t) /\ job[t].name \in DOMAIN infos
      BY <1>13 DEF Spawn, Found, HoldsInfos
    <3>2. LocksOfPlace(t)'
      BY <1>13, <1>g, <3>1 DEF Spawn, LocksOfPlace, HoldsInfos
    <3> QED BY <1>13, <1>g, <1>m, <1>w, <3>2 DEF Spawn, Yields
  <2> QED BY <1>y, <2>1
<1>14. ASSUME NEW t \in Tasks, Disable(t) PROVE LockInv'
  <2>1. Yields(t)
    <3>1. HoldsInfos(t) /\ job[t].name \in DOMAIN infos
      BY <1>14 DEF Disable, Found, HoldsInfos
    <3>2. LocksOfPlace(t)'
      BY <1>14, <1>g, <3>1 DEF Disable, LocksOfPlace, HoldsInfos
    <3> QED BY <1>14, <1>g, <1>m, <1>w, <3>2 DEF Disable, Yields
  <2> QED BY <1>y, <2>1
<1>15. ASSUME NEW t \in Tasks, Load(t) PROVE LockInv'
  BY <1>15, <1>x, <1>y DEF Load, At
<1>16. ASSUME NEW t \in Tasks, RemoveTranslator(t) PROVE LockInv'
  BY <1>16, <1>x, <1>y DEF RemoveTranslator, At
<1>17. ASSUME NEW t \in Tasks, Joined(t) PROVE LockInv'
  BY <1>17, <1>c, <1>y DEF Joined
<1>18. CASE Receive
  <2>1. Yields("processor")
    BY <1>18, <1>g, <1>f, <1>m, <1>w, <1>p, <1>t DEF Receive, Yields, LocksOfPlace, At
  <2> QED BY <1>t, <1>y, <2>1
<1>19. CASE InstallDirectory
  <2>1. Yields("processor")
    BY <1>19, <1>g, <1>f, <1>m, <1>w, <1>p, <1>t DEF InstallDirectory, Yields, LocksOfPlace, At
  <2> QED BY <1>t, <1>y, <2>1
<1>20. CASE InstallFile
  <2>1. Yields("processor")
    BY <1>20, <1>g, <1>f, <1>m, <1>w, <1>p, <1>t DEF InstallFile, Yields, LocksOfPlace, At
  <2> QED BY <1>t, <1>y, <2>1
<1>21. CASE InstallInfo
  <2>1. Yields("processor")
    <3>1. job["processor"].name \in Names /\ job["processor"].data \in Data
      BY <1>21, <1>t, JobFacts DEF InstallInfo, At, PlaceInv, PlaceOf
    <3> DEFINE s == Stored(job["processor"].name, job["processor"].data)
    <3>3. infos' = s
      BY <1>21 DEF InstallInfo
    <3>4. DOMAIN s = DOMAIN infos \cup {job["processor"].name}
      BY <3>1, StoredTyped
    <3> HIDE DEF s
    <3>2. DOMAIN infos \subseteq DOMAIN infos'
      BY <3>3, <3>4
    <3> QED BY <1>21, <1>f, <1>m, <1>w, <1>t, <3>2 DEF InstallInfo, Yields
  <2> QED BY <1>t, <1>y, <2>1
<1>22. ASSUME NEW i \in DOMAIN translators, Instantiate(i) PROVE LockInv'
  BY <1>22, <1>z, InstantiateEffect, ExitedPlaces DEF Instantiate
<1>23. ASSUME NEW i \in DOMAIN translators, Serve(i) PROVE LockInv'
  <2>1. \A u \in Tasks : pc'[u] \in {pc[u], "drop"}
    <3>1. CASE Head(translators[i].queue) = "shutdown"
      BY <1>23, <3>1, ServeEffect, ExitedPlaces
    <3>2. CASE Head(translators[i].queue) # "shutdown"
      BY <1>23, <1>d, <3>2, ServeEffect DEF Goto
    <3> QED BY <3>1, <3>2
  <2> QED BY <1>23, <1>z, <2>1 DEF Serve
<1>24. CASE UNCHANGED vars
  BY <1>24, <1>z DEF vars
<1> QED BY <1>1, <1>2, <1>3, <1>4, <1>5, <1>6, <1>7, <1>8, <1>9, <1>10, <1>11,
           <1>12, <1>13, <1>14, <1>15, <1>16, <1>17, <1>18, <1>19, <1>20, <1>21,
           <1>22, <1>23, <1>24
        DEF Next, Start, Step, Processor

-----------------------------------------------------------------------------------
\* The queue of a translator is as before, or tells it to stop, or is gone; and those
\* that wait for its answer still do.
QueueKept(i) ==
  \/ translators'[i].queue = <<>>
  \/ /\ i \in DOMAIN translators
     /\ \/ translators'[i].queue = translators[i].queue
        \/ translators'[i].queue = Append(translators[i].queue, "shutdown")
     /\ \A u \in Tasks : pc[u] = "answer" /\ handle[u] = i => pc'[u] = "answer" /\ handle'[u] = i

LEMMA QueueTyped ==
  ASSUME Types, NEW i \in DOMAIN translators
  PROVE  LET q == translators[i].queue
         IN  /\ q \in Seq(Callers \cup {"shutdown"}) /\ Len(q) \in Nat /\ DOMAIN q = 1..Len(q)
             /\ \A j \in DOMAIN q : q[j] # "shutdown" => q[j] \in Tasks
<1>1. translators[i] \in Translator
  BY DEF Types, StateTypes
<1>2. translators[i].queue \in Seq(Callers \cup {"shutdown"})
  BY <1>1 DEF Translator
<1> QED BY <1>2 DEF Tasks

LEMMA QueueGoesOn ==
  ASSUME Types, QueueInv, NEW i, QueueKept(i)
  PROVE  QueueOf(i)'
<1>1. CASE translators'[i].queue = <<>>
  BY <1>1 DEF QueueOf
<1>2. CASE translators'[i].queue # <<>>
  <2> DEFINE q == translators[i].queue
             r == translators'[i].queue
  <2>1. i \in DOMAIN translators
    BY <1>2 DEF QueueKept
  <2>2. /\ q \in Seq(Callers \cup {"shutdown"}) /\ Len(q) \in Nat /\ DOMAIN q = 1..Len(q)
        /\ \A j \in DOMAIN q : q[j] # "shutdown" => q[j] \in Tasks
    BY <2>1, QueueTyped
  <2>3. r = q \/ r = Append(q, "shutdown")
    BY <1>2 DEF QueueKept
  <2>4. \A j \in DOMAIN q : q[j] # "shutdown" =>
          /\ pc[q[j]] = "answer" /\ handle[q[j]] = i
          /\ \A k \in DOMAIN q : q[k] = q[j] => k = j
    BY <2>1 DEF QueueInv, QueueOf, WaitsIn
  <2>5. \A u \in Tasks : pc[u] = "answer" /\ handle[u] = i => pc'[u] = "answer" /\ handle'[u] = i
    BY <1>2 DEF QueueKept
  <2>6. /\ DOMAIN q \subseteq DOMAIN r
        /\ \A j \in DOMAIN q : r[j] = q[j]
        /\ \A j \in DOMAIN r : r[j] # "shutdown" => j \in DOMAIN q
    <3>1. CASE r = q
      BY <3>1
    <3>2. CASE r = Append(q, "shutdown")
      <4> HIDE DEF q, r
      <4>1. /\ DOMAIN r = 1..(Len(q) + 1) /\ r[Len(q) + 1] = "shutdown"
            /\ \A j \in 1..Len(q) : r[j] = q[j]
        BY <2>2, <3>2, AppendProperties
      <4> QED BY <2>2, <4>1
    <3> QED BY <2>3, <3>1, <3>2
  <2> HIDE DEF q, r
  <2>7. \A j \in DOMAIN r : r[j] # "shutdown" =>
          /\ pc'[r[j]] = "answer" /\ handle'[r[j]] = i
          /\ \A k \in DOMAIN r : r[k] = r[j] => k = j
    BY <2>2, <2>4, <2>5, <2>6
  <2> QED BY <2>7 DEF r, QueueOf, WaitsIn
<1> QED BY <1>1, <1>2

\* Whoever sends waits at the end of the queue.
LEMMA QueueSent ==
  ASSUME Types, PlaceInv, QueueInv, NEW t \in Callers, NEW i \in DOMAIN translators,
         pc[t] # "answer", pc' = [pc EXCEPT ![t] = "answer"], handle' = handle, handle[t] = i,
         translators'[i].queue = Append(translators[i].queue, t)
  PROVE  QueueOf(i)'
<1> DEFINE q == translators[i].queue
           r == translators'[i].queue
<1>1. /\ q \in Seq(Callers \cup {"shutdown"}) /\ Len(q) \in Nat /\ DOMAIN q = 1..Len(q)
      /\ \A j \in DOMAIN q : q[j] # "shutdown" => q[j] \in Tasks
  BY QueueTyped
<1>2. \A j \in DOMAIN q : q[j] # "shutdown" =>
        /\ pc[q[j]] = "answer" /\ handle[q[j]] = i
        /\ \A k \in DOMAIN q : q[k] = q[j] => k = j
  BY DEF QueueInv, QueueOf, WaitsIn
<1>3. /\ pc'[t] = "answer" /\ t # "shutdown"
      /\ \A u \in Tasks : pc[u] = "answer" => pc'[u] = "answer"
  BY HandlesAssumption DEF Types, TaskTypes, Tasks
<1> HIDE DEF q
<1>4. /\ DOMAIN r = 1..(Len(q) + 1) /\ r[Len(q) + 1] = t
      /\ \A j \in 1..Len(q) : r[j] = q[j]
  <2>1. r = Append(q, t)
    BY DEF q
  <2> HIDE DEF r
  <2> QED BY <1>1, <2>1, AppendProperties
<1> HIDE DEF r
<1>5. \A j \in DOMAIN r : j \in DOMAIN q \/ j = Len(q) + 1
  BY <1>1, <1>4
<1>6. \A j \in DOMAIN q : r[j] = q[j] /\ q[j] # t
  BY <1>1, <1>2, <1>3, <1>4
<1>7. \A j \in DOMAIN r : r[j] # "shutdown" =>
        /\ pc'[r[j]] = "answer" /\ handle'[r[j]] = i
        /\ \A k \in DOMAIN r : r[k] = r[j] => k = j
  BY <1>1, <1>2, <1>3, <1>4, <1>5, <1>6
<1> QED BY <1>7 DEF r, QueueOf, WaitsIn

\* Whoever is answered was at the front of the queue, and nowhere else.
LEMMA QueueAnswered ==
  ASSUME Types, QueueInv, NEW i \in DOMAIN translators, translators[i].queue # <<>>,
         Head(translators[i].queue) # "shutdown",
         pc' = [pc EXCEPT ![Head(translators[i].queue)] = "drop"], handle' = handle,
         translators'[i].queue = Tail(translators[i].queue)
  PROVE  QueueOf(i)'
<1> DEFINE q == translators[i].queue
           r == translators'[i].queue
           h == Head(q)
<1>1. /\ q \in Seq(Callers \cup {"shutdown"}) /\ Len(q) \in Nat /\ DOMAIN q = 1..Len(q)
      /\ \A j \in DOMAIN q : q[j] # "shutdown" => q[j] \in Tasks
  BY QueueTyped
<1>2. \A j \in DOMAIN q : q[j] # "shutdown" =>
        /\ pc[q[j]] = "answer" /\ handle[q[j]] = i
        /\ \A k \in DOMAIN q : q[k] = q[j] => k = j
  BY DEF QueueInv, QueueOf, WaitsIn
<1>3. q # <<>> /\ r = Tail(q) /\ pc' = [pc EXCEPT ![h] = "drop"] /\ h # "shutdown"
  OBVIOUS
<1> HIDE DEF q, r
<1>4. /\ 1 \in DOMAIN q /\ h = q[1] /\ DOMAIN r = 1..(Len(q) - 1)
      /\ \A j \in DOMAIN r : j + 1 \in DOMAIN q /\ r[j] = q[j + 1] /\ j + 1 # 1
  BY <1>1, <1>3
<1> HIDE DEF h
<1>5. \A u \in Tasks : u # h => pc'[u] = pc[u]
  BY <1>3 DEF Types, TaskTypes
<1>6. \A j \in DOMAIN r : r[j] # h
  BY <1>2, <1>3, <1>4
<1>7. \A j \in DOMAIN r : r[j] # "shutdown" => pc'[r[j]] = "answer" /\ handle'[r[j]] = i
  BY <1>1, <1>2, <1>4, <1>5, <1>6
<1>8. \A j, k \in DOMAIN r : r[j] # "shutdown" /\ r[k] = r[j] => k = j
  <2> SUFFICES ASSUME NEW j \in DOMAIN r, NEW k \in DOMAIN r, r[j] # "shutdown", r[k] = r[j]
               PROVE  k = j
    OBVIOUS
  <2>1. k + 1 = j + 1
    BY <1>2, <1>4
  <2>2. j \in Int /\ k \in Int
    BY <1>4
  <2> QED BY <2>1, <2>2
<1> QED BY <1>7, <1>8 DEF r, QueueOf, WaitsIn

LEMMA QueueStep == Types /\ PlaceInv /\ QueueInv /\ [Next]_vars => QueueInv'
<1> SUFFICES ASSUME Types, PlaceInv, QueueInv, [Next]_vars, NEW n \in DOMAIN translators'
             PROVE  QueueOf(n)'
  BY DEF QueueInv
<1>d. pc \in [Tasks -> Places] /\ handle \in [Tasks -> DOMAIN translators \cup {0}]
  BY DEF Types, TaskTypes
<1>t. "processor" \in Tasks
  BY DEF Tasks
<1> DEFINE Steady == \A u \in Tasks : pc[u] = "answer" => pc'[u] = "answer" /\ handle'[u] = handle[u]
<1>g. \A t \in Tasks : \A x : Goto(t, x) => \A u \in Tasks : u # t => pc'[u] = pc[u]
  BY <1>d DEF Goto
<1>f. \A t \in Tasks : Finish(t) /\ pc[t] # "answer" => Steady
  BY <1>d, <1>g DEF Finish
<1>h. \A t \in Tasks : \A x : Goto(t, x) /\ pc[t] # "answer" /\ UNCHANGED handle => Steady
  BY <1>g
<1>i. \A t \in Tasks : \A x, i : Goto(t, x) /\ pc[t] # "answer" /\ handle' = [handle EXCEPT ![t] = i] => Steady
  BY <1>d, <1>g
<1>u. UNCHANGED <<pc, handle>> => Steady
  OBVIOUS
<1> HIDE DEF Steady
<1>s. Steady /\ UNCHANGED translators => QueueOf(n)'
  <2> SUFFICES ASSUME Steady, UNCHANGED translators PROVE QueueOf(n)'
    OBVIOUS
  <2>1. QueueKept(n)
    BY DEF QueueKept, Steady
  <2> QED BY <2>1, QueueGoesOn
<1>a. Steady /\ (\E i \in DOMAIN translators : AfterShutdown(i)) => QueueOf(n)'
  <2> SUFFICES ASSUME Steady, NEW i \in DOMAIN translators, AfterShutdown(i) PROVE QueueOf(n)'
    OBVIOUS
  <2>1. QueueKept(n)
    BY DEF QueueKept, AfterShutdown, Alters, Steady
  <2> QED BY <2>1, QueueGoesOn
<1>e. \A i \in DOMAIN translators : Exited(i) /\ Alters(i, "exited", <<>>) /\ UNCHANGED handle => QueueOf(n)'
  <2> SUFFICES ASSUME NEW i \in DOMAIN translators, Exited(i), Alters(i, "exited", <<>>), UNCHANGED handle
               PROVE  QueueOf(n)'
    OBVIOUS
  <2>1. CASE n = i
    BY <2>1, QueueGoesOn DEF QueueKept, Alters
  <2>2. CASE n # i
    <3>1. \A u \in Tasks : pc'[u] = pc[u] \/ handle[u] = i
      BY ExitedPlaces
    <3>2. QueueKept(n)
      BY <2>2, <3>1 DEF QueueKept, Alters
    <3> QED BY <3>2, QueueGoesOn
  <2> QED BY <2>1, <2>2
<1>x. \A t \in Tasks : Displace(t) /\ pc[t] # "answer" => QueueOf(n)'
  <2> SUFFICES ASSUME NEW t \in Tasks, Displace(t), pc[t] # "answer" PROVE QueueOf(n)'
    OBVIOUS
  <2>1. CASE Displaces(t)
    <3>1. Goto(t, "join") /\ handle' = [handle EXCEPT ![t] = registry[MountPoint(t)]]
      BY <2>1 DEF Displace, Displaces
    <3> QED BY <1>a, <1>i, <2>1, <3>1, DisplaceEffect
  <2>2. CASE ~ Displaces(t)
    BY <1>f, <1>s, <2>2 DEF Displace, Displaces, Complete
  <2> QED BY <2>1, <2>2
<1> USE DEF state
<1>1. ASSUME NEW t \in Tasks, InstallTranslator(t) PROVE QueueOf(n)'
  BY <1>1, <1>u, <1>s DEF InstallTranslator
<1>2. ASSUME NEW t \in Tasks, WriteControl(t) PROVE QueueOf(n)'
  BY <1>2, <1>h, <1>s DEF WriteControl, At, Found
<1>3. ASSUME NEW t \in Tasks, ControlWritten(t) PROVE QueueOf(n)'
  BY <1>3, <1>f, <1>s DEF ControlWritten, At
<1>4. ASSUME NEW t \in Tasks, Invoke(t) PROVE QueueOf(n)'
  BY <1>4, <1>h, <1>s DEF Invoke, At, Found
<1>5. ASSUME NEW t \in Tasks, Get(t) PROVE QueueOf(n)'
  BY <1>5, <1>i, <1>f, <1>s DEF Get, At
<1>6. ASSUME NEW t \in Tasks, Send(t) PROVE QueueOf(n)'
  <2>1. pc[t] = "send" /\ handle[t] \in DOMAIN translators /\ t \in Callers /\ UNCHANGED handle
    BY <1>6, SendEffect DEF Send, At
  <2>2. CASE UNCHANGED translators
    BY <1>6, <1>h, <1>s, <2>1, <2>2 DEF Send
  <2>3. CASE ~ UNCHANGED translators
    <3>1. /\ Alters(handle[t], translators[handle[t]].thread, Append(translators[handle[t]].queue, t))
          /\ Goto(t, "answer")
      BY <1>6, <2>3, SendEffect DEF Send
    <3>2. CASE n = handle[t]
      BY <2>1, <3>1, <3>2, QueueSent DEF Alters, Goto
    <3>3. CASE n # handle[t]
      <4>1. QueueKept(n)
        BY <1>g, <2>1, <3>1, <3>3 DEF QueueKept, Alters
      <4> QED BY <4>1, QueueGoesOn
    <3> QED BY <3>2, <3>3
  <2> QED BY <2>2, <2>3
<1>7. ASSUME NEW t \in Tasks, Drop(t) PROVE QueueOf(n)'
  <2>1. pc[t] = "drop" /\ handle[t] \in DOMAIN translators
    BY <1>7, DropEffect DEF Drop, At
  <2>2. CASE LastHandle(handle[t], t)
    BY <1>7, <1>h, <1>a, <2>1, <2>2, DropEffect DEF Drop
  <2>3. CASE ~ LastHandle(handle[t], t)
    BY <1>7, <1>f, <1>s, <2>1, <2>3 DEF Drop
  <2> QED BY <2>2, <2>3
<1>8. ASSUME NEW t \in Tasks, SetTranslator(t) PROVE QueueOf(n)'
  BY <1>8, <1>h, <1>s DEF SetTranslator, At, Found
<1>9. ASSUME NEW t \in Tasks, ReadStatus(t) PROVE QueueOf(n)'
  BY <1>9, <1>h, <1>s DEF ReadStatus, At, Found
<1>10. ASSUME NEW t \in Tasks, BlockOnStatus(t) PROVE QueueOf(n)'
  BY <1>10, <1>h, <1>s DEF BlockOnStatus, At, Found
<1>11. ASSUME NEW t \in Tasks, StatusRead(t) PROVE QueueOf(n)'
  BY <1>11, <1>f, <1>s DEF StatusRead, At
<1>12. ASSUME NEW t \in Tasks, Unusable(t) PROVE QueueOf(n)'
  BY <1>12, <1>f, <1>s DEF Unusable, At
<1>13. ASSUME NEW t \in Tasks, Spawn(t) PROVE QueueOf(n)'
  <2>1. /\ pc[t] = "lookup" /\ Goto(t, "load")
        /\ handle' = [handle EXCEPT ![t] = Len(translators')]
    BY <1>13 DEF Spawn, Found, At
  <2>2. Steady
    BY <1>i, <2>1
  <2> DEFINE r == Spawned(job[t].name, infos[job[t].name].data)
  <2>3. /\ DOMAIN translators' = DOMAIN translators \cup {Len(translators')}
        /\ translators'[Len(translators')] = r
        /\ \A i \in DOMAIN translators : translators'[i] = translators[i]
    BY <1>13, SpawnEffect, Added DEF Types, StateTypes
  <2>4. r.queue = <<>>
    BY DEF Spawned
  <2> HIDE DEF r
  <2>5. QueueKept(n)
    BY <2>2, <2>3, <2>4 DEF QueueKept, Steady
  <2> QED BY <2>5, QueueGoesOn
<1>14. ASSUME NEW t \in Tasks, Disable(t) PROVE QueueOf(n)'
  BY <1>14, <1>h, <1>s DEF Disable, At, Found
<1>15. ASSUME NEW t \in Tasks, Load(t) PROVE QueueOf(n)'
  BY <1>15, <1>x DEF Load, At
<1>16. ASSUME NEW t \in Tasks, RemoveTranslator(t) PROVE QueueOf(n)'
  BY <1>16, <1>x DEF RemoveTranslator, At
<1>17. ASSUME NEW t \in Tasks, Joined(t) PROVE QueueOf(n)'
  BY <1>17, <1>f, <1>s DEF Joined, Complete
<1>18. CASE Receive
  BY <1>18, <1>t, <1>h, <1>s DEF Receive, At
<1>19. CASE InstallDirectory
  BY <1>19, <1>t, <1>h, <1>s DEF InstallDirectory, At
<1>20. CASE InstallFile
  BY <1>20, <1>t, <1>h, <1>s DEF InstallFile, At
<1>21. CASE InstallInfo
  BY <1>21, <1>t, <1>f, <1>s DEF InstallInfo, At
<1>22. ASSUME NEW i \in DOMAIN translators, Instantiate(i) PROVE QueueOf(n)'
  <2>1. CASE translators[i].data \in Failing
    BY <1>22, <1>e, <2>1, InstantiateEffect DEF Instantiate
  <2>2. CASE translators[i].data \notin Failing
    <3>1. Alters(i, "serving", translators[i].queue) /\ UNCHANGED <<pc, handle>>
      BY <1>22, <2>2, InstantiateEffect DEF Instantiate
    <3>2. QueueKept(n)
      BY <3>1 DEF QueueKept, Alters
    <3> QED BY <3>2, QueueGoesOn
  <2> QED BY <2>1, <2>2
<1>23. ASSUME NEW i \in DOMAIN translators, Serve(i) PROVE QueueOf(n)'
  <2> DEFINE q == translators[i].queue
  <2>1. q # <<>> /\ UNCHANGED handle
    BY <1>23 DEF Serve
  <2>2. CASE Head(q) = "shutdown"
    BY <1>23, <1>e, <2>1, <2>2, ServeEffect
  <2>3. CASE Head(q) # "shutdown"
    <3>1. Alters(i, translators[i].thread, Tail(q)) /\ Goto(Head(q), "drop")
      BY <1>23, <2>3, ServeEffect
    <3>2. CASE n = i
      BY <2>1, <2>3, <3>1, <3>2, QueueAnswered DEF Alters, Goto
    <3>3. CASE n # i
      <4>1. Head(q) \in Tasks /\ handle[Head(q)] = i
        BY <1>23, <2>3, AnsweredPlaces DEF Tasks
      <4> HIDE DEF q
      <4>2. QueueKept(n)
        BY <1>g, <2>1, <3>1, <3>3, <4>1 DEF QueueKept, Alters
      <4> QED BY <4>2, QueueGoesOn
    <3> QED BY <3>2, <3>3
  <2> QED BY <2>2, <2>3
<1>24. CASE UNCHANGED vars
  BY <1>24, <1>u, <1>s DEF vars
<1> QED BY <1>1, <1>2, <1>3, <1>4, <1>5, <1>6, <1>7, <1>8, <1>9, <1>10, <1>11,
           <1>12, <1>13, <1>14, <1>15, <1>16, <1>17, <1>18, <1>19, <1>20, <1>21,
           <1>22, <1>23, <1>24
        DEF Next, Start, Step, Processor

-----------------------------------------------------------------------------------
\* Nobody got hold of a translator.
Lets == \A u \in Tasks : \/ handle'[u] = 0
                         \/ handle'[u] = handle[u] /\ (pc[u] = "join" => pc'[u] = "join")

LEMMA FewerHandles ==
  ASSUME Types, Lets, UNCHANGED registry, NEW n \in DOMAIN translators
  PROVE  Handles(n)' \subseteq Handles(n)
<1>1. n # 0
  BY DEF Types, StateTypes
<1> QED BY <1>1 DEF Lets, Handles

LEMMA ServedGoesOn ==
  ASSUME ServedInv, Kept, NEW n \in DOMAIN translators,
         Handles(n)' # {} => Handles(n) # {},
         Running(n) => Running(n)'
  PROVE  ServedOf(n)'
BY DEF ServedInv, ServedOf, Kept

\* The last handle is let go of: the translator is told to stop, and it alone.
LEMMA LastLetGo ==
  ASSUME ServedInv, NEW i \in DOMAIN translators, AfterShutdown(i), Handles(i)' = {},
         \A n \in DOMAIN translators : n # i /\ Handles(n)' # {} => Handles(n) # {},
         NEW n \in DOMAIN translators'
  PROVE  ServedOf(n)'
<1>1. Kept /\ n \in DOMAIN translators
  BY DEF AfterShutdown, Alters
<1>2. CASE n = i
  BY <1>2 DEF ServedOf
<1>3. CASE n # i
  <2>1. Running(n) => Running(n)'
    BY <1>1, <1>3 DEF AfterShutdown, Alters, Running
  <2> QED BY <1>1, <1>3, <2>1, ServedGoesOn
<1> QED BY <1>2, <1>3

LEMMA ServedStep ==
  Types /\ PlaceInv /\ QueueInv /\ ServedInv /\ [Next]_vars => ServedInv'
<1> SUFFICES ASSUME Types, PlaceInv, QueueInv, ServedInv, [Next]_vars, NEW n \in DOMAIN translators'
             PROVE  ServedOf(n)'
  BY DEF ServedInv
<1>k. Kept
  BY KeptStep
<1>d. pc \in [Tasks -> Places] /\ handle \in [Tasks -> DOMAIN translators \cup {0}]
  BY DEF Types, TaskTypes
<1>p. \A t \in Tasks : PlaceOf(t)
  BY DEF PlaceInv
<1>t. "processor" \in Tasks
  BY DEF Tasks
<1>n. \A i \in DOMAIN translators : i # 0
  BY DEF Types, StateTypes
<1>o. \A t \in Tasks, p \in Paths : t # p
  BY HandlesAssumption DEF Tasks
<1>f. \A t \in Tasks : Finish(t) => Lets
  BY <1>d DEF Finish, Goto, Lets
<1>h. \A t \in Tasks : \A x : Goto(t, x) /\ pc[t] # "join" /\ UNCHANGED handle => Lets
  BY <1>d DEF Goto, Lets
<1>u. UNCHANGED <<pc, handle>> => Lets
  BY DEF Lets
<1>r. Lets /\ UNCHANGED registry => \A i \in DOMAIN translators : Handles(i)' \subseteq Handles(i)
  BY FewerHandles
<1>s. /\ UNCHANGED translators
      /\ \A i \in DOMAIN translators : Handles(i)' # {} => Handles(i) # {}
      => ServedOf(n)'
  <2> SUFFICES ASSUME UNCHANGED translators,
                      \A i \in DOMAIN translators : Handles(i)' # {} => Handles(i) # {}
               PROVE  ServedOf(n)'
    OBVIOUS
  <2>1. Running(n) => Running(n)'
    BY DEF Running
  <2> QED BY <1>k, <2>1, ServedGoesOn
<1>v. UNCHANGED <<translators, registry>> /\ Lets => ServedOf(n)'
  BY <1>r, <1>s
\* The registry loses what was at the mount point p of t, or gets what t holds there.
<1>x. \A t \in Tasks, p \in Paths :
        /\ Displace(t) /\ p = MountPoint(t) /\ pc[t] \in {"load", "remove"}
        /\ p \in DOMAIN registry' => registry'[p] = handle[t] /\ pc[t] = "load"
        /\ \A q \in DOMAIN registry' : q # p => q \in DOMAIN registry /\ registry'[q] = registry[q]
        => ServedOf(n)'
  <2> SUFFICES ASSUME NEW t \in Tasks, NEW p \in Paths,
                      Displace(t), p = MountPoint(t), pc[t] \in {"load", "remove"},
                      p \in DOMAIN registry' => registry'[p] = handle[t] /\ pc[t] = "load",
                      \A q \in DOMAIN registry' : q # p => q \in DOMAIN registry /\ registry'[q] = registry[q]
               PROVE  ServedOf(n)'
    OBVIOUS
  <2>1. CASE Displaces(t)
    <3>0. PICK i : i = registry[p]
      OBVIOUS
    <3>1. i \in DOMAIN translators /\ AfterShutdown(i) /\ Handles(i) = {p}
      BY <2>1, <3>0, DisplaceEffect DEF Displaces, LastHandle
    <3>2. Goto(t, "join") /\ handle' = [handle EXCEPT ![t] = i]
      BY <2>1, <3>0 DEF Displace, Displaces
    <3>3. /\ pc'[t] = "join" /\ handle'[t] = i
          /\ \A u \in Tasks : u # t => pc'[u] = pc[u] /\ handle'[u] = handle[u]
      BY <1>d, <3>2 DEF Goto
    <3>4. handle[t] # i
      BY <1>o, <3>1 DEF Handles
    <3>5. Handles(i)' = {}
      <4>1. \A q \in DOMAIN registry' : registry'[q] # i
        BY <3>1, <3>4 DEF Handles
      <4>2. \A u \in Tasks : ~ (handle'[u] = i /\ pc'[u] # "join")
        BY <1>o, <3>1, <3>3 DEF Handles
      <4> QED BY <4>1, <4>2 DEF Handles
    <3>6. \A m \in DOMAIN translators : m # i /\ Handles(m)' # {} => Handles(m) # {}
      BY <3>3 DEF Handles
    <3> QED BY <3>1, <3>5, <3>6, LastLetGo
  <2>2. CASE ~ Displaces(t)
    <3>1. Finish(t) /\ UNCHANGED translators
      BY <2>2 DEF Displace, Displaces, Complete
    <3>2. Lets
      BY <1>f, <3>1
    <3>3. \A m \in DOMAIN translators : Handles(m)' # {} => Handles(m) # {}
      BY <1>n, <3>2 DEF Handles, Lets
    <3> QED BY <1>s, <3>1, <3>3
  <2> QED BY <2>1, <2>2
<1>m. \A t \in Tasks : pc[t] \in {"load", "remove"} => MountPoint(t) \in Paths
  BY <1>p, JobFacts, NamesAssumption DEF PlaceOf, Loading, MountPoint
<1>e. \A i \in DOMAIN translators :
        /\ Exited(i) /\ Alters(i, "exited", <<>>) /\ UNCHANGED <<registry, handle>>
        /\ translators[i].data \notin Failing => Handles(i) = {}
        => ServedOf(n)'
  <2> SUFFICES ASSUME NEW i \in DOMAIN translators,
                      Exited(i), Alters(i, "exited", <<>>), UNCHANGED <<registry, handle>>,
                      translators[i].data \notin Failing => Handles(i) = {}
               PROVE  ServedOf(n)'
    OBVIOUS
  <2>1. n \in DOMAIN translators
    BY DEF Alters
  <2>2. Lets
    BY ExitedPlaces DEF Lets
  <2>3. Handles(n)' \subseteq Handles(n)
    BY <1>r, <2>1, <2>2
  <2>4. CASE n = i
    BY <1>k, <2>1, <2>3, <2>4 DEF ServedOf, Kept
  <2>5. CASE n # i
    <3>1. Running(n) => Running(n)'
      BY <2>1, <2>5 DEF Alters, Running
    <3> QED BY <1>k, <2>1, <2>3, <3>1, ServedGoesOn
  <2> QED BY <2>4, <2>5
<1> USE DEF state
<1>1. ASSUME NEW t \in Tasks, InstallTranslator(t) PROVE ServedOf(n)'
  BY <1>1, <1>u, <1>v DEF InstallTranslator
<1>2. ASSUME NEW t \in Tasks, WriteControl(t) PROVE ServedOf(n)'
  BY <1>2, <1>h, <1>v DEF WriteControl, At, Found
<1>3. ASSUME NEW t \in Tasks, ControlWritten(t) PROVE ServedOf(n)'
  BY <1>3, <1>f, <1>v DEF ControlWritten
<1>4. ASSUME NEW t \in Tasks, Invoke(t) PROVE ServedOf(n)'
  BY <1>4, <1>h, <1>v DEF Invoke, At, Found
<1>5. ASSUME NEW t \in Tasks, Get(t) PROVE ServedOf(n)'
  <2>1. CASE job[t].path \in DOMAIN registry
    <3>1. /\ handle' = [handle EXCEPT ![t] = registry[job[t].path]]
          /\ Goto(t, "send") /\ pc[t] = "get" /\ UNCHANGED <<registry, translators>>
      BY <1>5, <2>1 DEF Get, At
    <3>2. \A i \in DOMAIN translators : Handles(i)' # {} => Handles(i) # {}
      BY <1>d, <2>1, <3>1 DEF Handles, Goto
    <3> QED BY <1>s, <3>1, <3>2
  <2>2. CASE job[t].path \notin DOMAIN registry
    BY <1>5, <1>f, <1>v, <2>2 DEF Get
  <2> QED BY <2>1, <2>2
<1>6. ASSUME NEW t \in Tasks, Send(t) PROVE ServedOf(n)'
  <2>1. /\ handle[t] \in DOMAIN translators /\ t \in Callers /\ pc[t] = "send"
        /\ UNCHANGED <<registry, handle>>
    BY <1>6, SendEffect DEF Send, At
  <2>2. Lets
    BY <1>6, <1>h, <2>1 DEF Send
  <2>3. CASE UNCHANGED translators
    BY <1>v, <2>1, <2>2, <2>3
  <2>4. CASE ~ UNCHANGED translators
    <3> DEFINE i == handle[t]
               q == translators[i].queue
    <3>1. Alters(i, translators[i].thread, Append(q, t))
      BY <1>6, <2>4, SendEffect
    <3>2. q \in Seq(Callers \cup {"shutdown"})
      BY <2>1, QueueTyped
    <3>3. t # "shutdown"
      BY <2>1, HandlesAssumption
    <3>4. "shutdown" \notin ToSet(q) => "shutdown" \notin ToSet(Append(q, t))
      <4> HIDE DEF q
      <4>1. /\ \A j \in 1..Len(q) : Append(q, t)[j] = q[j]
            /\ Append(q, t)[Len(q) + 1] = t
            /\ DOMAIN Append(q, t) = 1..(Len(q) + 1) /\ DOMAIN q = 1..Len(q)
        BY <2>1, <3>2, AppendProperties
      <4>2. \A j \in 1..(Len(q) + 1) : j \in 1..Len(q) \/ j = Len(q) + 1
        BY <3>2
      <4> QED BY <3>3, <4>1, <4>2 DEF ToSet
    <3> HIDE DEF q
    <3>5. n \in DOMAIN translators /\ (Running(n) => Running(n)')
      BY <3>1, <3>4 DEF Alters, Running, q
    <3> QED BY <1>k, <1>r, <2>1, <2>2, <3>5, ServedGoesOn
  <2> QED BY <2>3, <2>4
<1>7. ASSUME NEW t \in Tasks, Drop(t) PROVE ServedOf(n)'
  <2>1. pc[t] = "drop" /\ handle[t] \in DOMAIN translators /\ UNCHANGED registry
    BY <1>7, DropEffect DEF Drop, At
  <2>2. CASE LastHandle(handle[t], t)
    <3>0. PICK i : i = handle[t]
      OBVIOUS
    <3>1. AfterShutdown(i) /\ Handles(i) = {t}
      BY <1>7, <2>2, <3>0, DropEffect DEF LastHandle
    <3>2. Goto(t, "join") /\ UNCHANGED handle
      BY <1>7, <2>2 DEF Drop
    <3>3. Lets
      BY <1>h, <2>1, <3>2
    <3>4. Handles(i)' = {}
      <4>1. t \notin Handles(i)'
        <5>1. pc'[t] = "join"
          BY <1>d, <3>2 DEF Goto
        <5>2. t \notin DOMAIN registry'
          BY <1>o, <2>1 DEF Types, StateTypes
        <5> QED BY <5>1, <5>2 DEF Handles
      <4>2. Handles(i)' \subseteq Handles(i)
        BY <1>r, <2>1, <3>0, <3>3
      <4> QED BY <3>1, <4>1, <4>2
    <3>5. \A m \in DOMAIN translators : m # i /\ Handles(m)' # {} => Handles(m) # {}
      BY <1>r, <2>1, <3>3
    <3>6. i \in DOMAIN translators
      BY <2>1, <3>0
    <3> QED BY <3>1, <3>4, <3>5, <3>6, LastLetGo
  <2>3. CASE ~ LastHandle(handle[t], t)
    BY <1>7, <1>f, <1>v, <2>1, <2>3 DEF Drop
  <2> QED BY <2>2, <2>3
<1>8. ASSUME NEW t \in Tasks, SetTranslator(t) PROVE ServedOf(n)'
  BY <1>8, <1>h, <1>v DEF SetTranslator, At, Found
<1>9. ASSUME NEW t \in Tasks, ReadStatus(t) PROVE ServedOf(n)'
  BY <1>9, <1>h, <1>v DEF ReadStatus, At, Found
<1>10. ASSUME NEW t \in Tasks, BlockOnStatus(t) PROVE ServedOf(n)'
  BY <1>10, <1>h, <1>v DEF BlockOnStatus, At, Found
<1>11. ASSUME NEW t \in Tasks, StatusRead(t) PROVE ServedOf(n)'
  BY <1>11, <1>f, <1>v DEF StatusRead
<1>12. ASSUME NEW t \in Tasks, Unusable(t) PROVE ServedOf(n)'
  BY <1>12, <1>f, <1>v DEF Unusable
<1>13. ASSUME NEW t \in Tasks, Spawn(t) PROVE ServedOf(n)'
  <2>1. /\ pc[t] = "lookup" /\ Goto(t, "load") /\ UNCHANGED registry
        /\ handle' = [handle EXCEPT ![t] = Len(translators')]
    BY <1>13 DEF Spawn, Found, At
  <2> DEFINE r == Spawned(job[t].name, infos[job[t].name].data)
  <2>3. /\ DOMAIN translators' = DOMAIN translators \cup {Len(translators')}
        /\ Len(translators') \notin DOMAIN translators
        /\ translators'[Len(translators')] = r
        /\ \A i \in DOMAIN translators : translators'[i] = translators[i]
    BY <1>13, SpawnEffect, Added DEF Types, StateTypes
  <2>4. r.queue = <<>> /\ r.thread = "starting"
    BY DEF Spawned
  <2> HIDE DEF r
  <2>5. CASE n = Len(translators')
    BY <2>3, <2>4, <2>5 DEF ServedOf, Running, ToSet
  <2>6. CASE n # Len(translators')
    <3>1. n \in DOMAIN translators /\ (Running(n) => Running(n)')
      BY <2>3, <2>6 DEF Running
    <3>2. Handles(n)' \subseteq Handles(n)
      BY <1>d, <2>1, <2>6 DEF Handles, Goto
    <3> QED BY <1>k, <3>1, <3>2, ServedGoesOn
  <2> QED BY <2>5, <2>6
<1>14. ASSUME NEW t \in Tasks, Disable(t) PROVE ServedOf(n)'
  BY <1>14, <1>h, <1>v DEF Disable, At, Found
<1>15. ASSUME NEW t \in Tasks, Load(t) PROVE ServedOf(n)'
  <2>1. /\ pc[t] = "load" /\ Displace(t)
        /\ registry' = [p \in DOMAIN registry \cup {MountPoint(t)} |->
                          IF p = MountPoint(t) THEN handle[t] ELSE registry[p]]
    BY <1>15 DEF Load, At
  <2>2. /\ MountPoint(t) \in DOMAIN registry' => registry'[MountPoint(t)] = handle[t]
        /\ \A q \in DOMAIN registry' : q # MountPoint(t) => q \in DOMAIN registry /\ registry'[q] = registry[q]
    BY <2>1
  <2> QED BY <1>m, <1>x, <2>1, <2>2
<1>16. ASSUME NEW t \in Tasks, RemoveTranslator(t) PROVE ServedOf(n)'
  <2>1. /\ pc[t] = "remove" /\ Displace(t)
        /\ registry' = [p \in DOMAIN registry \ {MountPoint(t)} |-> registry[p]]
    BY <1>16 DEF RemoveTranslator, At
  <2>2. /\ MountPoint(t) \notin DOMAIN registry'
        /\ \A q \in DOMAIN registry' : q # MountPoint(t) => q \in DOMAIN registry /\ registry'[q] = registry[q]
    BY <2>1
  <2> QED BY <1>m, <1>x, <2>1, <2>2
<1>17. ASSUME NEW t \in Tasks, Joined(t) PROVE ServedOf(n)'
  BY <1>17, <1>f, <1>v DEF Joined, Complete
<1>18. CASE Receive
  BY <1>18, <1>t, <1>h, <1>v DEF Receive, At
<1>19. CASE InstallDirectory
  BY <1>19, <1>t, <1>h, <1>v DEF InstallDirectory, At
<1>20. CASE InstallFile
  BY <1>20, <1>t, <1>h, <1>v DEF InstallFile, At
<1>21. CASE InstallInfo
  BY <1>21, <1>t, <1>f, <1>v DEF InstallInfo
<1>22. ASSUME NEW i \in DOMAIN translators, Instantiate(i) PROVE ServedOf(n)'
  <2>1. UNCHANGED <<registry, handle>>
    BY <1>22 DEF Instantiate
  <2>2. CASE translators[i].data \in Failing
    BY <1>22, <1>e, <2>1, <2>2, InstantiateEffect
  <2>3. CASE translators[i].data \notin Failing
    <3>1. Alters(i, "serving", translators[i].queue) /\ UNCHANGED pc
      BY <1>22, <2>3, InstantiateEffect
    <3>2. n \in DOMAIN translators /\ (Running(n) => Running(n)')
      BY <3>1 DEF Running, Alters
    <3> QED BY <1>k, <1>r, <1>u, <2>1, <3>1, <3>2, ServedGoesOn
  <2> QED BY <2>2, <2>3
<1>23. ASSUME NEW i \in DOMAIN translators, Serve(i) PROVE ServedOf(n)'
  <2> DEFINE q == translators[i].queue
  <2>1. q # <<>> /\ UNCHANGED <<registry, handle>> /\ q \in Seq(Callers \cup {"shutdown"})
    BY <1>23, QueueTyped DEF Serve
  <2>2. CASE Head(q) = "shutdown"
    <3>1. ~ Running(i)
      <4> HIDE DEF q
      <4>1. 1 \in DOMAIN q /\ q[1] = "shutdown"
        BY <2>1, <2>2
      <4> QED BY <4>1 DEF Running, ToSet, q
    <3>2. translators[i].data \notin Failing => Handles(i) = {}
      BY <3>1 DEF ServedInv, ServedOf
    <3> QED BY <1>23, <1>e, <2>1, <2>2, <3>2, ServeEffect
  <2>3. CASE Head(q) # "shutdown"
    <3>1. Alters(i, translators[i].thread, Tail(q)) /\ Goto(Head(q), "drop")
      BY <1>23, <2>3, ServeEffect
    <3>2. Head(q) \in Tasks /\ pc[Head(q)] = "answer"
      BY <1>23, <2>3, AnsweredPlaces DEF Tasks
    <3> HIDE DEF q
    <3>3. Lets
      BY <1>h, <2>1, <3>1, <3>2
    <3>4. ToSet(Tail(q)) \subseteq ToSet(q)
      <4>1. \A j \in DOMAIN Tail(q) : j + 1 \in DOMAIN q /\ Tail(q)[j] = q[j + 1]
        BY <2>1
      <4> QED BY <4>1 DEF ToSet
    <3>5. n \in DOMAIN translators /\ (Running(n) => Running(n)')
      BY <3>1, <3>4 DEF Running, Alters, q
    <3> QED BY <1>k, <1>r, <2>1, <3>3, <3>5, ServedGoesOn
  <2> QED BY <2>2, <2>3
<1>24. CASE UNCHANGED vars
  BY <1>24, <1>u, <1>v DEF vars
<1> QED BY <1>1, <1>2, <1>3, <1>4, <1>5, <1>6, <1>7, <1>8, <1>9, <1>10, <1>11,
           <1>12, <1>13, <1>14, <1>15, <1>16, <1>17, <1>18, <1>19, <1>20, <1>21,
           <1>22, <1>23, <1>24
        DEF Next, Start, Step, Processor

-----------------------------------------------------------------------------------
\* No task comes to load a translator or to enable one.
Calm(u) ==
  \/ pc'[u] = pc[u] /\ job'[u] = job[u] /\ handle'[u] = handle[u]
  \/ pc[u] # "join" /\ pc'[u] # "load" /\ (pc'[u] = "join" => job'[u].op = "Invoke")

\* No translator becomes enabled, and none is made from another module.
InfosCalm ==
  /\ DOMAIN infos' = DOMAIN infos
  /\ \A n \in DOMAIN infos :
       /\ infos'[n].data = infos[n].data
       /\ infos'[n].status = "Enabled" => infos[n].status = "Enabled"

LEMMA RightKept ==
  ASSUME Kept, NEW i \in DOMAIN translators, NEW n, infos'[n].data = infos[n].data, Right(n, i)
  PROVE  Right(n, i)'
BY DEF Kept, Right

\* What the tasks that stay where they are know of the infos stays true.
LEMMA StaysRight ==
  ASSUME Types, PlaceInv, LockInv, InfoInv, Kept,
         \A n \in DOMAIN infos : infos'[n].data = infos[n].data,
         NEW u \in Tasks, pc'[u] = pc[u], job'[u] = job[u], handle'[u] = handle[u], pc'[u] = "load"
  PROVE  /\ translators'[handle'[u]].name = job'[u].name
         /\ Right(job[u].name, handle[u])'
<1>0. PlaceOf(u) /\ LocksOfPlace(u) /\ pc[u] = "load" /\ handle[u] \in DOMAIN translators \cup {0}
  BY DEF Types, TaskTypes, PlaceInv, LockInv
<1>1. handle[u] \in DOMAIN translators /\ job[u].name \in DOMAIN infos
  BY <1>0 DEF PlaceOf, LocksOfPlace
<1>2. translators[handle[u]].name = job[u].name /\ Right(job[u].name, handle[u])
  BY DEF InfoInv
<1> QED BY <1>1, <1>2 DEF Kept, Right

LEMMA ServesKept ==
  ASSUME Types, Kept, NEW n \in DOMAIN infos, infos'[n].data = infos[n].data, ServesInfo(n),
         n \in DOMAIN registry', registry'[n] = registry[n]
  PROVE  ServesInfo(n)'
<1>1. registry[n] \in DOMAIN translators
  BY DEF ServesInfo, Types, StateTypes
<1> QED BY <1>1 DEF ServesInfo, Right, Kept

LEMMA InfoGoesOn ==
  ASSUME Types, PlaceInv, LockInv, InfoInv, Kept, UNCHANGED registry, InfosCalm,
         \A u \in Tasks : Calm(u)
  PROVE  InfoInv'
<1>t. "processor" \in Tasks
  BY DEF Tasks
<1>1. ASSUME NEW n \in DOMAIN infos', infos'[n].status = "Enabled"
      PROVE  ServesInfo(n)' \/ Removing(n)'
  <2>1. n \in DOMAIN infos /\ infos[n].status = "Enabled" /\ infos'[n].data = infos[n].data
    BY <1>1 DEF InfosCalm
  <2>2. ServesInfo(n) \/ Removing(n)
    BY <2>1 DEF InfoInv
  <2>3. CASE ServesInfo(n)
    BY <2>1, <2>3, ServesKept DEF ServesInfo
  <2>4. CASE Removing(n)
    BY <1>t, <2>4 DEF Removing, Calm
  <2> QED BY <2>2, <2>3, <2>4
<1>2. ASSUME NEW u \in Tasks, pc'[u] = "load"
      PROVE  translators'[handle'[u]].name = job'[u].name /\ Right(job[u].name, handle[u])'
  BY <1>2, StaysRight DEF Calm, InfosCalm
<1>3. ASSUME NEW u \in Tasks, pc'[u] = "join", job'[u].op = "Enable"
      PROVE  ServesInfo(job[u].name)'
  <2>1. pc[u] = "join" /\ job'[u] = job[u]
    BY <1>3 DEF Calm
  <2> DEFINE n == job[u].name
  <2>2. ServesInfo(n) /\ n \in DOMAIN infos
    BY <1>3, <2>1 DEF InfoInv, LockInv, LocksOfPlace
  <2> PICK m : m = n
    OBVIOUS
  <2>3. ServesInfo(m)'
    BY <2>2, ServesKept DEF InfosCalm, ServesInfo
  <2> QED BY <2>1, <2>3
<1> QED BY <1>1, <1>2, <1>3 DEF InfoInv

\* What a call that completes does to the infos.
LEMMA CompleteInfos ==
  ASSUME Types, NEW t \in Tasks, Complete(t)
  PROVE  /\ DOMAIN infos' = DOMAIN infos
         /\ \A n \in DOMAIN infos :
              /\ infos'[n].data = infos[n].data
              /\ infos'[n].status = "Enabled" =>
                   \/ infos[n].status = "Enabled"
                   \/ job[t].op = "Enable" /\ n = job[t].name
              /\ job[t].op = "Disable" /\ n = job[t].name => infos'[n].status # "Enabled"
<1>1. CASE job[t].op = "Enable"
  <2>1. Marked(job[t].name, "Enabled")
    BY <1>1, CompleteEffect
  <2> QED BY <1>1, <2>1 DEF Marked
<1>2. CASE job[t].op = "Disable"
  <2>1. Marked(job[t].name, "Disabled")
    BY <1>2, CompleteEffect
  <2> QED BY <1>2, <2>1 DEF Marked
<1>3. CASE job[t].op \notin {"Enable", "Disable"}
  <2>1. UNCHANGED infos
    BY <1>3, CompleteEffect
  <2> QED BY <1>3, <2>1
<1> QED BY <1>1, <1>2, <1>3

LEMMA InfoSpawned ==
  ASSUME Types, PlaceInv, LockInv, InfoInv, NEW t \in Tasks, Spawn(t)
  PROVE  InfoInv'
<1>k. Kept
  BY SpawnEffect
<1>1. PICK i : i = Len(translators')
  OBVIOUS
<1>2. /\ pc[t] = "lookup" /\ Goto(t, "load") /\ handle' = [handle EXCEPT ![t] = i]
      /\ UNCHANGED <<infos, registry, job>>
  BY <1>1 DEF Spawn, Found, At
<1>3. /\ pc'[t] = "load" /\ handle'[t] = i
      /\ \A u \in Tasks : u # t => pc'[u] = pc[u] /\ handle'[u] = handle[u]
  BY <1>2 DEF Goto, Types, TaskTypes
<1>4. translators'[i].name = job[t].name /\ translators'[i].data = infos[job[t].name].data
  <2>1. translators'[i] = Spawned(job[t].name, infos[job[t].name].data)
    BY <1>1, SpawnEffect, Added DEF Types, StateTypes
  <2> QED BY <2>1 DEF Spawned
<1>5. ASSUME NEW n \in DOMAIN infos, ServesInfo(n) PROVE ServesInfo(n)'
  BY <1>k, <1>2, <1>5, ServesKept DEF ServesInfo
<1>6. ASSUME NEW n \in DOMAIN infos', infos'[n].status = "Enabled"
      PROVE  ServesInfo(n)' \/ Removing(n)'
  <2>1. CASE ServesInfo(n)
    BY <1>2, <1>5, <2>1
  <2>2. CASE Removing(n)
    BY <1>2, <1>3, <2>2 DEF Removing, Tasks
  <2> QED BY <1>2, <1>6, <2>1, <2>2 DEF InfoInv
<1>7. ASSUME NEW u \in Tasks, pc'[u] = "load"
      PROVE  translators'[handle'[u]].name = job'[u].name /\ Right(job[u].name, handle[u])'
  <2>1. CASE u = t
    BY <1>2, <1>3, <1>4, <2>1 DEF Right
  <2>2. CASE u # t
    BY <1>k, <1>2, <1>3, <1>7, <2>2, StaysRight
  <2> QED BY <2>1, <2>2
<1>8. ASSUME NEW u \in Tasks, pc'[u] = "join", job'[u].op = "Enable"
      PROVE  ServesInfo(job[u].name)'
  <2> PICK m : m = job[u].name
    OBVIOUS
  <2>1. pc[u] = "join" /\ job'[u].name = m /\ job[u].op = "Enable"
    BY <1>2, <1>3, <1>8
  <2>2. ServesInfo(m) /\ m \in DOMAIN infos
    BY <2>1 DEF InfoInv, LockInv, LocksOfPlace
  <2> QED BY <1>5, <2>1, <2>2
<1> QED BY <1>6, <1>7, <1>8 DEF InfoInv

\* The mount point gets the translator that was made for it, or loses its own, and
\* what was there before is waited for or nobody else has a handle on it.
LEMMA DisplaceInfos ==
  ASSUME Types, NEW t \in Tasks, Displace(t)
  PROVE  /\ DOMAIN infos' = DOMAIN infos
         /\ \A n \in DOMAIN infos :
              /\ infos'[n].data = infos[n].data
              /\ infos'[n].status = "Enabled" =>
                   \/ infos[n].status = "Enabled"
                   \/ job[t].op = "Enable" /\ n = job[t].name
              /\ job[t].op = "Disable" /\ n = job[t].name =>
                   infos'[n].status # "Enabled" \/ pc'[t] = "join"
         /\ \A u \in Tasks : u # t => pc'[u] = pc[u] /\ job'[u] = job[u] /\ handle'[u] = handle[u]
         /\ pc'[t] \in {"idle", "join"} /\ (pc'[t] = "join" => job'[t] = job[t])
<1>1. CASE Displaces(t)
  <2>1. /\ Goto(t, "join") /\ handle' = [handle EXCEPT ![t] = registry[MountPoint(t)]]
        /\ UNCHANGED <<infos, job>>
    BY <1>1 DEF Displace, Displaces
  <2> QED BY <2>1 DEF Goto, Types, TaskTypes
<1>2. CASE ~ Displaces(t)
  <2>1. Complete(t)
    BY <1>2 DEF Displace, Displaces
  <2>2. Finish(t)
    BY <2>1 DEF Complete
  <2>3. /\ pc'[t] = "idle"
        /\ \A u \in Tasks : u # t => pc'[u] = pc[u] /\ job'[u] = job[u] /\ handle'[u] = handle[u]
    BY <2>2 DEF Finish, Goto, Types, TaskTypes
  <2> QED BY <2>1, <2>3, CompleteInfos
<1> QED BY <1>1, <1>2

LEMMA InfoLoaded ==
  ASSUME Types, PlaceInv, LockInv, InfoInv, Kept, NEW t \in Tasks, Load(t)
  PROVE  InfoInv'
<1> PICK p : p = MountPoint(t)
  OBVIOUS
<1>1. /\ pc[t] = "load" /\ Displace(t)
      /\ registry' = [q \in DOMAIN registry \cup {p} |-> IF q = p THEN handle[t] ELSE registry[q]]
  BY DEF Load, At
<1>2. /\ p \in DOMAIN registry' /\ registry'[p] = handle[t]
      /\ \A n \in DOMAIN registry : n # p => n \in DOMAIN registry' /\ registry'[n] = registry[n]
  BY <1>1
<1>3. PlaceOf(t) /\ LocksOfPlace(t) /\ handle[t] \in DOMAIN translators \cup {0}
  BY DEF Types, TaskTypes, PlaceInv, LockInv
<1>4. /\ handle[t] \in DOMAIN translators /\ job[t].name \in DOMAIN infos
      /\ translators[handle[t]].name = job[t].name /\ Right(job[t].name, handle[t])
  BY <1>1, <1>3 DEF PlaceOf, LocksOfPlace, InfoInv
<1>5. \A n \in DOMAIN infos : infos'[n].data = infos[n].data
  BY <1>1, DisplaceInfos
<1>6. ASSUME NEW n \in DOMAIN infos, n = p \/ ServesInfo(n) PROVE ServesInfo(n)'
  <2>1. CASE n = p
    <3>1. Right(n, handle[t])
      BY <1>4 DEF Right
    <3>2. translators'[registry'[n]].name = n => translators'[registry'[n]].data = infos'[n].data
      BY <1>2, <1>4, <1>5, <2>1, <3>1 DEF Right, Kept
    <3> QED BY <1>2, <2>1, <3>2 DEF ServesInfo, Right
  <2>2. CASE n # p
    BY <1>2, <1>5, <1>6, <2>2, ServesKept DEF ServesInfo
  <2> QED BY <2>1, <2>2
<1>7. job[t].op = "Enable" => job[t].name = p
  BY DEF MountPoint
<1>8. /\ DOMAIN infos' = DOMAIN infos
      /\ \A n \in DOMAIN infos : infos'[n].status = "Enabled" => infos[n].status = "Enabled" \/ n = p
      /\ \A u \in Tasks : u # t => pc'[u] = pc[u] /\ job'[u] = job[u] /\ handle'[u] = handle[u]
      /\ pc'[t] \in {"idle", "join"} /\ (pc'[t] = "join" => job'[t] = job[t])
  BY <1>1, <1>7, DisplaceInfos
<1>9. ASSUME NEW n \in DOMAIN infos', infos'[n].status = "Enabled"
      PROVE  ServesInfo(n)' \/ Removing(n)'
  <2>1. CASE n = p \/ ServesInfo(n)
    BY <1>6, <1>8, <2>1
  <2>2. CASE Removing(n)
    BY <1>1, <1>8, <2>2 DEF Removing, Tasks
  <2> QED BY <1>8, <1>9, <2>1, <2>2 DEF InfoInv
<1>10. ASSUME NEW u \in Tasks, pc'[u] = "load"
       PROVE  translators'[handle'[u]].name = job'[u].name /\ Right(job[u].name, handle[u])'
  BY <1>5, <1>8, <1>10, StaysRight
<1>11. ASSUME NEW u \in Tasks, pc'[u] = "join", job'[u].op = "Enable"
       PROVE  ServesInfo(job[u].name)'
  <2> PICK m : m = job[u].name
    OBVIOUS
  <2>1. CASE u = t
    BY <1>4, <1>6, <1>7, <1>8, <1>11, <2>1
  <2>2. CASE u # t
    <3>1. pc[u] = "join" /\ job'[u].name = m /\ job[u].op = "Enable"
      BY <1>8, <1>11, <2>2
    <3>2. ServesInfo(m) /\ m \in DOMAIN infos
      BY <3>1 DEF InfoInv, LockInv, LocksOfPlace
    <3> QED BY <1>6, <3>1, <3>2
  <2> QED BY <2>1, <2>2
<1> QED BY <1>9, <1>10, <1>11 DEF InfoInv

LEMMA Enablers ==
  ASSUME PlaceInv, NEW u \in Tasks, pc[u] \in {"lookup", "load", "remove", "join"},
         job[u].op \in {"Enable", "Disable"}
  PROVE  u = "processor"
BY JobFacts DEF PlaceInv, PlaceOf, Loading, Invoking

LEMMA InfoRemoved ==
  ASSUME Types, PlaceInv, LockInv, InfoInv, Kept, NEW t \in Tasks, RemoveTranslator(t)
  PROVE  InfoInv'
<1> PICK p : p = MountPoint(t)
  OBVIOUS
<1>1. /\ pc[t] = "remove" /\ Displace(t)
      /\ registry' = [q \in DOMAIN registry \ {p} |-> registry[q]]
  BY DEF RemoveTranslator, At
<1>2. \A n \in DOMAIN registry : n # p => n \in DOMAIN registry' /\ registry'[n] = registry[n]
  BY <1>1
<1>3. PlaceOf(t) /\ LocksOfPlace(t)
  BY DEF PlaceInv, LockInv
<1>4. job[t].op = "Disable" /\ t = "processor" /\ p = job[t].name
  <2>1. job[t].op = "Disable"
    BY <1>1, <1>3 DEF PlaceOf
  <2>2. t = "processor"
    BY <1>1, <2>1, Enablers
  <2> QED BY <2>1, <2>2 DEF MountPoint
<1>5. \A n \in DOMAIN infos : infos'[n].data = infos[n].data
  BY <1>1, DisplaceInfos
<1>6. ASSUME NEW n \in DOMAIN infos, n # p, ServesInfo(n) PROVE ServesInfo(n)'
  BY <1>2, <1>5, <1>6, ServesKept DEF ServesInfo
<1>8. /\ DOMAIN infos' = DOMAIN infos
      /\ \A n \in DOMAIN infos :
           infos'[n].status = "Enabled" => infos[n].status = "Enabled" /\ (n = p => pc'[t] = "join")
      /\ \A u \in Tasks : u # t => pc'[u] = pc[u] /\ job'[u] = job[u] /\ handle'[u] = handle[u]
      /\ pc'[t] \in {"idle", "join"} /\ (pc'[t] = "join" => job'[t] = job[t])
  BY <1>1, <1>4, DisplaceInfos
<1>9. ASSUME NEW n \in DOMAIN infos', infos'[n].status = "Enabled"
      PROVE  ServesInfo(n)' \/ Removing(n)'
  <2>1. CASE n = p
    BY <1>4, <1>8, <1>9, <2>1 DEF Removing
  <2>2. CASE n # p
    <3>1. ~ Removing(n)
      BY <1>1, <1>4 DEF Removing
    <3>2. ServesInfo(n)
      BY <1>8, <1>9, <3>1 DEF InfoInv
    <3> QED BY <1>6, <1>8, <2>2, <3>2
  <2> QED BY <2>1, <2>2
<1>10. ASSUME NEW u \in Tasks, pc'[u] = "load"
       PROVE  translators'[handle'[u]].name = job'[u].name /\ Right(job[u].name, handle[u])'
  BY <1>5, <1>8, <1>10, StaysRight
<1>11. ASSUME NEW u \in Tasks, pc'[u] = "join", job'[u].op = "Enable"
       PROVE  FALSE
  <2>1. CASE u = t
    BY <1>4, <1>8, <1>11, <2>1
  <2>2. CASE u # t
    BY <1>4, <1>8, <1>11, <2>2, Enablers
  <2> QED BY <2>1, <2>2
<1> QED BY <1>9, <1>10, <1>11 DEF InfoInv

LEMMA InfoJoined ==
  ASSUME Types, PlaceInv, LockInv, InfoInv, NEW t \in Tasks, Joined(t)
  PROVE  InfoInv'
<1>1. /\ pc[t] = "join" /\ Complete(t) /\ Finish(t) /\ UNCHANGED <<registry, translators>>
  BY DEF Joined, Complete
<1>k. Kept
  BY <1>1 DEF Kept, Types, StateTypes
<1>2. /\ pc'[t] = "idle"
      /\ \A u \in Tasks : u # t => pc'[u] = pc[u] /\ job'[u] = job[u] /\ handle'[u] = handle[u]
  BY <1>1 DEF Finish, Goto, Types, TaskTypes
<1>3. \A n \in DOMAIN infos : infos'[n].data = infos[n].data
  BY <1>1, CompleteInfos
<1>4. ASSUME NEW n \in DOMAIN infos, ServesInfo(n) PROVE ServesInfo(n)'
  BY <1>k, <1>1, <1>3, <1>4, ServesKept DEF ServesInfo
<1>5. /\ DOMAIN infos' = DOMAIN infos
      /\ \A n \in DOMAIN infos :
           infos'[n].status = "Enabled" =>
             \/ infos[n].status = "Enabled" /\ ~ (job[t].op = "Disable" /\ n = job[t].name)
             \/ job[t].op = "Enable" /\ n = job[t].name
  BY <1>1, CompleteInfos
<1>6. job[t].op = "Enable" => ServesInfo(job[t].name)
  BY <1>1 DEF InfoInv
<1>7. ASSUME NEW n \in DOMAIN infos', infos'[n].status = "Enabled"
      PROVE  ServesInfo(n)' \/ Removing(n)'
  <2>1. CASE ServesInfo(n)
    BY <1>4, <1>5, <2>1
  <2>2. CASE Removing(n) /\ ~ ServesInfo(n)
    <3>1. ~ (job[t].op = "Disable" /\ n = job[t].name)
      BY <1>5, <1>6, <1>7, <2>2
    <3>2. t # "processor"
      BY <2>2, <3>1 DEF Removing
    <3> QED BY <1>2, <2>2, <3>2 DEF Removing, Tasks
  <2> QED BY <1>5, <1>6, <1>7, <2>1, <2>2 DEF InfoInv
<1>8. ASSUME NEW u \in Tasks, pc'[u] = "load"
      PROVE  translators'[handle'[u]].name = job'[u].name /\ Right(job[u].name, handle[u])'
  BY <1>k, <1>2, <1>3, <1>8, StaysRight
<1>9. ASSUME NEW u \in Tasks, pc'[u] = "join", job'[u].op = "Enable"
      PROVE  ServesInfo(job[u].name)'
  <2> PICK m : m = job[u].name
    OBVIOUS
  <2>1. pc[u] = "join" /\ job'[u].name = m /\ job[u].op = "Enable"
    BY <1>2, <1>9
  <2>2. ServesInfo(m) /\ m \in DOMAIN infos
    BY <2>1 DEF InfoInv, LockInv, LocksOfPlace
  <2> QED BY <1>4, <2>1, <2>2
<1> QED BY <1>7, <1>8, <1>9 DEF InfoInv

\* Nobody is between the lookup of a translator and its loading when the infos change.
LEMMA InfoStored ==
  ASSUME Types, PlaceInv, LockInv, InfoInv, InstallInfo
  PROVE  InfoInv'
<1>t. "processor" \in Tasks
  BY DEF Tasks
<1> PICK n : n = job["processor"].name
  OBVIOUS
<1>1. /\ pc["processor"] = "store" /\ Writes(infos_lock, "processor")
      /\ Finish("processor") /\ UNCHANGED <<registry, translators>>
  BY DEF InstallInfo, At
<1>k. Kept
  BY <1>1 DEF Kept, Types, StateTypes
<1>2. /\ pc'["processor"] = "idle"
      /\ \A u \in Tasks : u # "processor" =>
           pc'[u] = pc[u] /\ job'[u] = job[u] /\ handle'[u] = handle[u]
  BY <1>1, <1>t DEF Finish, Goto, Types, TaskTypes
<1>3. /\ DOMAIN infos' = DOMAIN infos \cup {n} /\ infos'[n].status = "Available"
      /\ \A m \in DOMAIN infos : m # n => infos'[m] = infos[m]
  <2>1. n \in Names /\ job["processor"].data \in Data
    BY <1>1, <1>t, JobFacts DEF PlaceInv, PlaceOf
  <2> DEFINE s == Stored(n, job["processor"].data)
  <2>2. infos' = s
    BY DEF InstallInfo
  <2>3. /\ DOMAIN s = DOMAIN infos \cup {n} /\ s[n].status = "Available"
        /\ \A m \in DOMAIN infos : m # n => s[m] = infos[m]
    BY <2>1, StoredTyped
  <2> HIDE DEF s
  <2> QED BY <2>2, <2>3
<1>4. \A u \in Tasks : HoldsInfos(u) => u = "processor"
  BY <1>1 DEF LockInv, Exclusive, HoldsInfos, Reads, Writes
<1>5. \A u \in Tasks : pc'[u] # "load" /\ (pc'[u] = "join" => job'[u].op # "Enable")
  <2>1. ASSUME NEW u \in Tasks, u # "processor"
        PROVE  pc[u] # "load" /\ (pc[u] = "join" => job[u].op # "Enable")
    BY <1>4, <2>1 DEF LockInv, LocksOfPlace
  <2> QED BY <1>2, <2>1
<1>6. ASSUME NEW m \in DOMAIN infos', infos'[m].status = "Enabled"
      PROVE  ServesInfo(m)'
  <2>1. m \in DOMAIN infos /\ m # n /\ infos'[m] = infos[m]
    BY <1>3, <1>6
  <2>2. ServesInfo(m)
    BY <1>1, <1>6, <2>1 DEF InfoInv, Removing
  <2> QED BY <1>k, <1>1, <2>1, <2>2, ServesKept DEF ServesInfo
<1> QED BY <1>5, <1>6 DEF InfoInv

LEMMA InfoStep == Types /\ PlaceInv /\ QueueInv /\ LockInv /\ InfoInv /\ [Next]_vars => InfoInv'
<1> SUFFICES ASSUME Types, PlaceInv, QueueInv, LockInv, InfoInv, [Next]_vars PROVE InfoInv'
  OBVIOUS
<1>k. Kept
  BY KeptStep
<1>d. /\ pc \in [Tasks -> Places] /\ job \in [Tasks -> Jobs]
      /\ handle \in [Tasks -> DOMAIN translators \cup {0}]
  BY DEF Types, TaskTypes
<1>p. \A t \in Tasks : PlaceOf(t)
  BY DEF PlaceInv
<1>t. "processor" \in Tasks
  BY DEF Tasks
<1> DEFINE AllCalm == \A u \in Tasks : Calm(u)
<1>f. \A t \in Tasks : Finish(t) /\ pc[t] # "join" => AllCalm
  BY <1>d DEF Finish, Goto, Calm
<1>h. \A t \in Tasks, x \in Places \ {"load", "join"} : \A j :
        /\ Goto(t, x) /\ pc[t] # "join" /\ job' \in {job, [job EXCEPT ![t] = j]}
        /\ \/ UNCHANGED handle
           \/ \E i : handle' = [handle EXCEPT ![t] = i]
        => AllCalm
  BY <1>d DEF Goto, Calm
<1>u. UNCHANGED <<pc, job, handle>> => AllCalm
  BY DEF Calm
<1> HIDE DEF AllCalm
<1>i. UNCHANGED infos => InfosCalm
  BY DEF InfosCalm
<1>g. UNCHANGED registry /\ InfosCalm /\ AllCalm => InfoInv'
  BY <1>k, InfoGoesOn DEF AllCalm
<1> USE DEF state, Places
<1>1. ASSUME NEW t \in Tasks, InstallTranslator(t) PROVE InfoInv'
  BY <1>1, <1>u, <1>g, <1>i DEF InstallTranslator
<1>2. ASSUME NEW t \in Tasks, WriteControl(t) PROVE InfoInv'
  BY <1>2, <1>h, <1>g, <1>i DEF WriteControl, At, Found
<1>3. ASSUME NEW t \in Tasks, ControlWritten(t) PROVE InfoInv'
  BY <1>3, <1>f, <1>g, <1>i DEF ControlWritten, At
<1>4. ASSUME NEW t \in Tasks, Invoke(t) PROVE InfoInv'
  BY <1>4, <1>h, <1>g, <1>i DEF Invoke, At, Found
<1>5. ASSUME NEW t \in Tasks, Get(t) PROVE InfoInv'
  <2>1. CASE job[t].path \in DOMAIN registry
    BY <1>5, <1>h, <1>g, <1>i, <2>1 DEF Get, At
  <2>2. CASE job[t].path \notin DOMAIN registry
    BY <1>5, <1>f, <1>g, <1>i, <2>2 DEF Get, At
  <2> QED BY <2>1, <2>2
<1>6. ASSUME NEW t \in Tasks, Send(t) PROVE InfoInv'
  BY <1>6, <1>h, <1>g, <1>i DEF Send, At
<1>7. ASSUME NEW t \in Tasks, Drop(t) PROVE InfoInv'
  <2>1. pc[t] = "drop" /\ UNCHANGED <<infos, registry>>
    BY <1>7 DEF Drop, At
  <2>2. CASE LastHandle(handle[t], t)
    <3>1. Goto(t, "join") /\ UNCHANGED <<job, handle>>
      BY <1>7, <2>2 DEF Drop
    <3>2. job[t].op = "Invoke"
      BY <1>p, <2>1, JobFacts DEF PlaceOf, Invoking
    <3>3. AllCalm
      BY <1>d, <2>1, <3>1, <3>2 DEF Goto, Calm, AllCalm
    <3> QED BY <1>g, <1>i, <2>1, <3>3
  <2>3. CASE ~ LastHandle(handle[t], t)
    BY <1>7, <1>f, <1>g, <1>i, <2>1, <2>3 DEF Drop
  <2> QED BY <2>2, <2>3
<1>8. ASSUME NEW t \in Tasks, SetTranslator(t) PROVE InfoInv'
  BY <1>8, <1>h, <1>g, <1>i DEF SetTranslator, At, Found
<1>9. ASSUME NEW t \in Tasks, ReadStatus(t) PROVE InfoInv'
  BY <1>9, <1>h, <1>g, <1>i DEF ReadStatus, At, Found
<1>10. ASSUME NEW t \in Tasks, BlockOnStatus(t) PROVE InfoInv'
  BY <1>10, <1>h, <1>g, <1>i DEF BlockOnStatus, At, Found
<1>11. ASSUME NEW t \in Tasks, StatusRead(t) PROVE InfoInv'
  BY <1>11, <1>f, <1>g, <1>i DEF StatusRead, At
<1>12. ASSUME NEW t \in Tasks, Unusable(t) PROVE InfoInv'
  <2>1. pc[t] = "lookup" /\ Finish(t) /\ UNCHANGED registry
    BY <1>12 DEF Unusable, At
  <2>2. InfosCalm
    <3>1. CASE UNCHANGED infos
      BY <1>i, <3>1
    <3>2. CASE infos' = [infos EXCEPT ![job[t].name].status = "Error"]
      <4>1. Marked(job[t].name, "Error")
        BY <3>2, Marking DEF Types, StateTypes, Statuses
      <4> QED BY <4>1 DEF Marked, InfosCalm
    <3> QED BY <1>12, <3>1, <3>2 DEF Unusable
  <2> QED BY <1>f, <1>g, <2>1, <2>2
<1>13. ASSUME NEW t \in Tasks, Spawn(t) PROVE InfoInv'
  BY <1>13, InfoSpawned
<1>14. ASSUME NEW t \in Tasks, Disable(t) PROVE InfoInv'
  BY <1>14, <1>h, <1>g, <1>i DEF Disable, At, Found
<1>15. ASSUME NEW t \in Tasks, Load(t) PROVE InfoInv'
  BY <1>15, <1>k, InfoLoaded
<1>16. ASSUME NEW t \in Tasks, RemoveTranslator(t) PROVE InfoInv'
  BY <1>16, <1>k, InfoRemoved
<1>17. ASSUME NEW t \in Tasks, Joined(t) PROVE InfoInv'
  BY <1>17, InfoJoined
<1>18. CASE Receive
  BY <1>18, <1>t, <1>h, <1>g, <1>i DEF Receive, At
<1>19. CASE InstallDirectory
  BY <1>19, <1>t, <1>h, <1>g, <1>i DEF InstallDirectory, At
<1>20. CASE InstallFile
  BY <1>20, <1>t, <1>h, <1>g, <1>i DEF InstallFile, At
<1>21. CASE InstallInfo
  BY <1>21, InfoStored
<1>22. ASSUME NEW i \in DOMAIN translators, Instantiate(i) PROVE InfoInv'
  <2>1. \A u \in Tasks : pc'[u] = pc[u] \/ (pc[u] = "answer" /\ pc'[u] = "drop")
    BY <1>22, InstantiateEffect, ExitedPlaces
  <2>2. AllCalm
    BY <1>22, <2>1 DEF Instantiate, Calm, AllCalm
  <2> QED BY <1>22, <1>g, <1>i, <2>2 DEF Instantiate
<1>23. ASSUME NEW i \in DOMAIN translators, Serve(i) PROVE InfoInv'
  <2>1. \A u \in Tasks : pc'[u] = pc[u] \/ (pc[u] = "answer" /\ pc'[u] = "drop")
    <3> DEFINE c == Head(translators[i].queue)
    <3>1. CASE c = "shutdown"
      BY <1>23, <3>1, ServeEffect, ExitedPlaces
    <3>2. CASE c # "shutdown"
      <4>1. pc[c] = "answer" /\ Goto(c, "drop")
        BY <1>23, <3>2, ServeEffect, AnsweredPlaces
      <4> HIDE DEF c
      <4> QED BY <1>d, <4>1 DEF Goto
    <3> QED BY <3>1, <3>2
  <2>2. AllCalm
    BY <1>23, <2>1 DEF Serve, Calm, AllCalm
  <2> QED BY <1>23, <1>g, <1>i, <2>2 DEF Serve
<1>24. CASE UNCHANGED vars
  BY <1>24, <1>u, <1>g, <1>i DEF vars
<1> QED BY <1>1, <1>2, <1>3, <1>4, <1>5, <1>6, <1>7, <1>8, <1>9, <1>10, <1>11,
           <1>12, <1>13, <1>14, <1>15, <1>16, <1>17, <1>18, <1>19, <1>20, <1>21,
           <1>22, <1>23, <1>24
        DEF Next, Start, Step, Processor

-----------------------------------------------------------------------------------
\* The inductive invariant.
IInv == Types /\ PlaceInv /\ LockInv /\ QueueInv /\ ServedInv /\ InfoInv

LEMMA UnlockedTyped == Unlocked \in LocksOf(Tasks) /\ Exclusive(Unlocked) /\ Wants(Unlocked, "R") = {}
<1>1. /\ Unlocked.readers = {} /\ Unlocked.writers = {} /\ Unlocked.queue = <<>>
      /\ <<>> \in Waiters(Tasks) /\ Len(<<>>) = 0
  BY EmptySeq DEF Unlocked, Lock, Waiters
<1>2. Unlocked \in LocksOf(Tasks)
  BY <1>1 DEF Unlocked, Lock, LocksOf
<1>3. 1..Len(Unlocked.queue) = {}
  BY <1>1
<1> QED BY <1>1, <1>2, <1>3 DEF Exclusive, Wants, Asking

LEMMA Started == Init => IInv
<1> SUFFICES ASSUME Init PROVE IInv
  OBVIOUS
<1>1. \/ registry = <<>> /\ translators = <<>>
      \/ \E n \in Names, d \in Data \ Invalid :
           registry = [p \in {n} |-> 1] /\ translators = <<Spawned(n, d)>>
  BY DEF Init
<1> DEFINE Loaded ==
             /\ translators \in Seq(Translator)
             /\ registry \in [DOMAIN registry -> DOMAIN translators] /\ DOMAIN registry \subseteq Paths
             /\ \A i \in DOMAIN translators :
                  translators[i].queue = <<>> /\ translators[i].thread = "starting"
<1>2. Loaded
  <2>1. CASE registry = <<>> /\ translators = <<>>
    BY <2>1, EmptySeq
  <2>2. ASSUME NEW n \in Names, NEW d \in Data \ Invalid,
               registry = [p \in {n} |-> 1], translators = <<Spawned(n, d)>>
        PROVE  Loaded
    <3>1. Spawned(n, d) \in Translator /\ Spawned(n, d).queue = <<>> /\ Spawned(n, d).thread = "starting"
      BY SpawnedTyped DEF Spawned
    <3> DEFINE r == Spawned(n, d)
    <3>2. translators = <<r>> /\ DOMAIN translators = {1} /\ translators[1] = r
      BY <2>2
    <3> HIDE DEF r
    <3>3. translators \in Seq(Translator)
      BY <3>1, <3>2 DEF r
    <3> QED BY <2>2, <3>1, <3>2, <3>3, NamesAssumption DEF r
  <2> QED BY <1>1, <2>1, <2>2
<1>3. infos = <<>> /\ commands = <<>> /\ DOMAIN infos = {}
  BY DEF Init
<1>4. /\ pc = [t \in Tasks |-> "idle"] /\ job = [t \in Tasks |-> NoJob]
      /\ handle = [t \in Tasks |-> 0]
  BY DEF Init
<1>5. StateTypes
  BY <1>2, <1>3, EmptySeq DEF StateTypes
<1>6. TaskTypes
  BY <1>4 DEF TaskTypes, Places, Jobs
<1>7. LockTypes
  BY UnlockedTyped DEF Init, LockTypes
<1>8. PlaceInv
  BY <1>4 DEF PlaceInv, PlaceOf
<1>9. LockInv
  BY <1>4, UnlockedTyped DEF Init, LockInv, LocksOfPlace
<1>10. QueueInv
  BY <1>2 DEF QueueInv, QueueOf
<1>11. ServedInv
  BY <1>2 DEF ServedInv, ServedOf, Running, ToSet
<1>12. InfoInv
  BY <1>3, <1>4 DEF InfoInv
<1> QED BY <1>5, <1>6, <1>7, <1>8, <1>9, <1>10, <1>11, <1>12 DEF IInv, Types

LEMMA Invariant == Spec => []IInv
<1>1. IInv /\ [Next]_vars => IInv'
  <2> SUFFICES ASSUME IInv, [Next]_vars PROVE IInv'
    OBVIOUS
  <2>1. Types'
    BY StateTypesStep, TaskTypesStep, LockTypesStep DEF IInv, Types
  <2> QED BY <2>1, PlaceStep, LockStep, QueueStep, ServedStep, InfoStep DEF IInv
<1> QED BY Started, <1>1, PTL DEF Spec

\* Every variable has its type, the locks exclude each other, and whoever loads or removes
\* a translator, waits for its thread or for the status has the locks for it: those that
\* the code of settrans.rs and wasm/threadsafe.rs takes before.
THEOREM TypeCorrect == Spec => []TypeOK
<1>1. IInv => TypeOK
  <2> SUFFICES ASSUME IInv PROVE TypeOK
    OBVIOUS
  <2>1. ASSUME NEW i \in DOMAIN translators
        PROVE  /\ translators[i].name \in Names /\ translators[i].data \in Data \ Invalid
               /\ translators[i].thread \in {"starting", "serving", "exited"}
               /\ translators[i].queue \in Seq(Callers \cup {"shutdown"})
    <3>1. translators[i] \in Translator
      BY DEF IInv, Types, StateTypes
    <3> QED BY <3>1 DEF Translator
  <2>2. infos \in [DOMAIN infos -> [data : Data, status : Statuses]] /\ DOMAIN infos \subseteq Names
    BY DEF IInv, Types, StateTypes, Info
  <2>3. /\ commands \in Seq(CommandJobs)
        /\ registry \in [DOMAIN registry -> DOMAIN translators] /\ DOMAIN registry \subseteq Paths
        /\ pc \in [Tasks -> Places]
        /\ job \in [Tasks -> CommandJobs \cup CallJobs \cup {NoJob}]
        /\ handle \in [Tasks -> DOMAIN translators \cup {0}]
    BY DEF IInv, Types, StateTypes, TaskTypes, Jobs
  <2>4. Exclusive(nodes_lock) /\ Exclusive(infos_lock) /\ Exclusive(registry_lock)
    BY DEF IInv, LockInv
  <2>5. \A t \in Tasks :
          /\ pc[t] = "status" => Reads(nodes_lock, t)
          /\ pc[t] \in {"load", "remove"} => Reads(infos_lock, t) \/ Writes(infos_lock, t)
          /\ pc[t] = "join" /\ job[t].op # "Invoke" => Writes(registry_lock, t)
    BY DEF IInv, LockInv, LocksOfPlace, HoldsInfos
  <2> QED BY <2>1, <2>2, <2>3, <2>4, <2>5 DEF TypeOK
<1> QED BY Invariant, <1>1, PTL

\* When nobody is changing the infos, a translator shown as enabled is loaded, from the
\* module installed last: handle_enable and handle_disable keep the infos locked from the
\* lookup until the registry has changed, and handle_install cannot come between.
THEOREM EnabledAreServed == Spec => []EnabledServesInstalled
<1>1. IInv => EnabledServesInstalled
  <2> SUFFICES ASSUME IInv, NEW n \in DOMAIN infos, infos[n].status = "Enabled", infos_lock.writers = {}
               PROVE  ServesInfo(n)
    BY DEF EnabledServesInstalled, ServesInfo, Right
  <2>1. ~ Removing(n)
    <3>1. ~ HoldsInfos("processor")
      BY DEF IInv, LockInv, Wants, HoldsInfos, Reads, Writes
    <3>2. "processor" \in Tasks
      BY DEF Tasks
    <3> QED BY <3>1, <3>2 DEF IInv, LockInv, LocksOfPlace, Removing
  <2> QED BY <2>1 DEF IInv, InfoInv
<1> QED BY Invariant, <1>1, PTL

\* A caller that got a translator from the registry holds a handle on it, and the drop of
\* ThreadSafeTranslator tells the thread to stop only when the last one goes.
THEOREM CallersAreServed == Spec => []InvocationsServed
<1>1. IInv => InvocationsServed
  <2> SUFFICES ASSUME IInv, NEW t \in Callers, pc[t] \in {"send", "answer"}
               PROVE  translators[handle[t]].data \in Failing \/ Running(handle[t])
    BY DEF InvocationsServed, Running
  <2>1. t \in Tasks
    BY DEF Tasks
  <2>2. PlaceOf(t) /\ handle[t] \in DOMAIN translators \cup {0}
    BY <2>1 DEF IInv, PlaceInv, Types, TaskTypes
  <2>3. handle[t] \in DOMAIN translators
    BY <2>2 DEF PlaceOf
  <2>4. t \in Handles(handle[t])
    BY <2>1 DEF Handles
  <2> QED BY <2>3, <2>4 DEF IInv, ServedInv, ServedOf
<1> QED BY Invariant, <1>1, PTL
====================================================================================
