-------------------------------- MODULE Translators --------------------------------
(***********************************************************************************)
(* The translators of the server: VirtualSettransSystem (settrans.rs), which      *)
(* queues the commands written to its control files and carries them out one by   *)
(* one; ThreadSafeTranslatorRegistry (wasm/threadsafe.rs), the translators loaded *)
(* at each path; and the translators themselves, each a thread that serves a      *)
(* channel of commands until the last handle on it is dropped.                    *)
(*                                                                                 *)
(* Callers invoke a translator, set one on a path, or give commands; readers read *)
(* the status file.  The runtime polls them on Workers threads.  Reading the      *)
(* status file and dropping a translator block the thread they run on.            *)
(*                                                                                 *)
(* A name stands for itself and for its mount point /srv/<name>.                   *)
(***********************************************************************************)
EXTENDS FairRwLock

CONSTANTS
  Names,               \* translator names
  Paths,               \* paths a translator can be set on; /srv/<name> among them
  Data,                \* WASM modules
  Invalid,             \* those that validation refuses
  Failing,             \* those that validate but cannot be instantiated
  Callers, Readers,
  Workers,             \* threads of the runtime
  MaxCalls             \* bound: calls in a behaviour

ASSUME NamesAssumption == Names \subseteq Paths
ASSUME DataAssumption == Invalid \subseteq Data /\ Failing \subseteq Data \ Invalid
ASSUME WorkersAssumption == Workers \in Nat \ {0} /\ MaxCalls \in Nat

\* A handle on a translator is the registry's, named by its path, or a task's.
ASSUME HandlesAssumption ==
  /\ Paths \cap (Callers \cup Readers \cup {"processor"}) = {}
  /\ "processor" \notin Callers \cup Readers
  /\ "shutdown" \notin Callers \cup Readers

VARIABLES
  infos,               \* settrans: the installed translators and their status
  commands,            \* settrans: the channel of its commands
  registry,            \* path -> the translator loaded there
  translators,         \* every translator made so far: its module, thread and channel
  nodes_lock, infos_lock, registry_lock,
  pc,                  \* where each task is
  job,                 \* what it is doing
  handle,              \* the translator it holds a handle on, or 0
  calls

locks == <<nodes_lock, infos_lock, registry_lock>>
state == <<infos, commands, registry, translators>>
vars == <<state, locks, pc, job, handle, calls>>

Tasks == Callers \cup Readers \cup {"processor"}

Statuses == {"Available", "Enabled", "Disabled", "Error"}

NoJob == [op |-> "none"]

CommandJobs ==
  [op : {"Install"}, name : Names, data : Data] \cup [op : {"Enable", "Disable"}, name : Names]

CallJobs == [op : {"Invoke"}, path : Paths] \cup [op : {"Set"}, path : Paths, name : Names]

-----------------------------------------------------------------------------------
\* Tasks that block their thread: in the status handler's block_on, and in the drop of
\* a translator.  The others need a free thread for every step.
StatusBlocked == {t \in Tasks : pc[t] = "status"}

Joining == {t \in Tasks : pc[t] = "join"}

FreeWorker == Cardinality(StatusBlocked \cup Joining) < Workers

Goto(t, place) == pc' = [pc EXCEPT ![t] = place]

At(t, place) == pc[t] = place /\ FreeWorker

-----------------------------------------------------------------------------------
\* ThreadSafeTranslator::new past its validation: the thread is spawned.
Spawned(n, d) == [name |-> n, data |-> d, thread |-> "starting", queue |-> <<>>]

\* scan_and_load at start-up: what lies in the install directory, unknown to settrans.
Init ==
  /\ infos = <<>> /\ commands = <<>>
  /\ \/ registry = <<>> /\ translators = <<>>
     \/ \E n \in Names, d \in Data \ Invalid :
          registry = [p \in {n} |-> 1] /\ translators = <<Spawned(n, d)>>
  /\ nodes_lock = Unlocked /\ infos_lock = Unlocked /\ registry_lock = Unlocked
  /\ pc = [t \in Tasks |-> "idle"]
  /\ job = [t \in Tasks |-> NoJob]
  /\ handle = [t \in Tasks |-> 0]
  /\ calls = 0

\* Arc<ThreadSafeTranslator>: the registry's handles and those of the tasks.
Handles(i) ==
  {p \in DOMAIN registry : registry[p] = i} \cup {t \in Tasks : handle[t] = i /\ pc[t] # "join"}

\* Mutation: whoever lets go of a translator shuts it down, other handles or not.
LastHandle_Any(i, h) == TRUE

\* Letting go of h runs the drop of the translator.
LastHandle(i, h) == Handles(i) = {h}

Finish(t) ==
  /\ Goto(t, "idle")
  /\ job' = [job EXCEPT ![t] = NoJob]
  /\ handle' = [handle EXCEPT ![t] = 0]

\* Mutation: dropping a translator does not tell its thread.
Shutdown_Unsent(i) == translators

\* Drop for ThreadSafeTranslator: Shutdown is queued (and lost when the thread is gone).
Shutdown(i) ==
  IF translators[i].thread = "exited" THEN translators
  ELSE [translators EXCEPT ![i].queue = Append(@, "shutdown")]

-----------------------------------------------------------------------------------
(***********************************************************************************)
(* Callers.                                                                        *)
(***********************************************************************************)
\* install_translator only queues a command.
InstallTranslator(t) ==
  /\ At(t, "idle") /\ t \in Callers /\ calls < MaxCalls
  /\ \E c \in {d \in CommandJobs : d.op = "Install"} : commands' = Append(commands, c)
  /\ calls' = calls + 1
  /\ UNCHANGED <<infos, registry, translators, locks, pc, job, handle>>

\* The control files enable and disable do so under the write lock of the tree
\* (enable_translator and disable_translator, which nothing calls, without it).
WriteControl(t) ==
  /\ At(t, "idle") /\ t \in Callers /\ calls < MaxCalls
  /\ \E c \in {d \in CommandJobs : d.op # "Install"} : job' = [job EXCEPT ![t] = c]
  /\ nodes_lock' = Request(nodes_lock, t, "W")
  /\ Goto(t, "write")
  /\ calls' = calls + 1
  /\ UNCHANGED <<state, infos_lock, registry_lock, handle>>

ControlWritten(t) ==
  /\ At(t, "write") /\ Writes(nodes_lock, t)
  /\ commands' = Append(commands, job[t])
  /\ nodes_lock' = Leave(nodes_lock, t)
  /\ Finish(t)
  /\ UNCHANGED <<infos, registry, translators, infos_lock, registry_lock, calls>>

\* handle_wasm_invoke: get_translator ...
Invoke(t) ==
  /\ At(t, "idle") /\ t \in Callers /\ calls < MaxCalls
  /\ \E p \in Paths : job' = [job EXCEPT ![t] = [op |-> "Invoke", path |-> p]]
  /\ registry_lock' = Request(registry_lock, t, "R")
  /\ Goto(t, "get")
  /\ calls' = calls + 1
  /\ UNCHANGED <<state, nodes_lock, infos_lock, handle>>

Get(t) ==
  /\ At(t, "get") /\ Reads(registry_lock, t)
  /\ registry_lock' = Leave(registry_lock, t)
  /\ IF job[t].path \in DOMAIN registry
     THEN /\ handle' = [handle EXCEPT ![t] = registry[job[t].path]]
          /\ Goto(t, "send")
          /\ UNCHANGED job
     ELSE Finish(t)
  /\ UNCHANGED <<state, nodes_lock, infos_lock, calls>>

\* ... then invoke_function: a send on the channel, which fails when the thread is gone.
Send(t) ==
  /\ At(t, "send")
  /\ IF translators[handle[t]].thread = "exited"
     THEN Goto(t, "drop") /\ UNCHANGED translators
     ELSE /\ translators' = [translators EXCEPT ![handle[t]].queue = Append(@, t)]
          /\ Goto(t, "answer")
  /\ UNCHANGED <<infos, commands, registry, locks, job, handle, calls>>

\* The answer has come, or the error: the handle is dropped.
Drop(t) ==
  /\ At(t, "drop")
  /\ IF LastHandle(handle[t], t)
     THEN translators' = Shutdown(handle[t]) /\ Goto(t, "join") /\ UNCHANGED <<job, handle>>
     ELSE Finish(t) /\ UNCHANGED translators
  /\ UNCHANGED <<infos, commands, registry, locks, calls>>

\* set_translator reads the infos until the translator is loaded.
SetTranslator(t) ==
  /\ At(t, "idle") /\ t \in Callers /\ calls < MaxCalls
  /\ \E p \in Paths, n \in Names : job' = [job EXCEPT ![t] = [op |-> "Set", path |-> p, name |-> n]]
  /\ infos_lock' = Request(infos_lock, t, "R")
  /\ Goto(t, "lookup")
  /\ calls' = calls + 1
  /\ UNCHANGED <<state, nodes_lock, registry_lock, handle>>

\* read_file of the status file, under the read lock of the tree ...
ReadStatus(t) ==
  /\ At(t, "idle") /\ t \in Readers /\ calls < MaxCalls
  /\ nodes_lock' = Request(nodes_lock, t, "R")
  /\ Goto(t, "read")
  /\ calls' = calls + 1
  /\ UNCHANGED <<state, infos_lock, registry_lock, job, handle>>

\* ... whose handler waits for the infos without giving its thread back.
BlockOnStatus(t) ==
  /\ At(t, "read") /\ Reads(nodes_lock, t)
  /\ infos_lock' = Request(infos_lock, t, "R")
  /\ Goto(t, "status")
  /\ UNCHANGED <<state, nodes_lock, registry_lock, job, handle, calls>>

StatusRead(t) ==
  /\ pc[t] = "status" /\ Reads(infos_lock, t)
  /\ infos_lock' = Leave(infos_lock, t)
  /\ nodes_lock' = Leave(nodes_lock, t)
  /\ Finish(t)
  /\ UNCHANGED <<state, registry_lock, calls>>

-----------------------------------------------------------------------------------
(***********************************************************************************)
(* The command processor.                                                          *)
(***********************************************************************************)
\* Uninstall, Refresh and Status are taken from the channel and ignored; nothing sends them.
Receive ==
  /\ At("processor", "idle") /\ commands # <<>>
  /\ commands' = Tail(commands)
  /\ job' = [job EXCEPT !["processor"] = Head(commands)]
  /\ IF Head(commands).op = "Install"
     THEN /\ nodes_lock' = Request(nodes_lock, "processor", "W")
          /\ Goto("processor", "directory")
          /\ UNCHANGED infos_lock
     ELSE /\ infos_lock' = Request(infos_lock, "processor", "W")
          /\ Goto("processor", "lookup")
          /\ UNCHANGED nodes_lock
  /\ UNCHANGED <<infos, registry, translators, registry_lock, handle, calls>>

\* handle_install: create_file looks after the directory, then inserts the file, under
\* the lock of the tree each time; then the infos are replaced.
InstallDirectory ==
  /\ At("processor", "directory") /\ Writes(nodes_lock, "processor")
  /\ nodes_lock' = Request(Leave(nodes_lock, "processor"), "processor", "W")
  /\ Goto("processor", "file")
  /\ UNCHANGED <<state, infos_lock, registry_lock, job, handle, calls>>

InstallFile ==
  /\ At("processor", "file") /\ Writes(nodes_lock, "processor")
  /\ nodes_lock' = Leave(nodes_lock, "processor")
  /\ infos_lock' = Request(infos_lock, "processor", "W")
  /\ Goto("processor", "store")
  /\ UNCHANGED <<state, registry_lock, job, handle, calls>>

WithInfo(n, d, status) ==
  [m \in DOMAIN infos \cup {n} |-> IF m = n THEN [data |-> d, status |-> status] ELSE infos[m]]

\* Mutation: installing again keeps the status.
Stored_StatusKept(n, d) ==
  WithInfo(n, d, IF n \in DOMAIN infos THEN infos[n].status ELSE "Available")

Stored(n, d) == WithInfo(n, d, "Available")

InstallInfo ==
  /\ At("processor", "store") /\ Writes(infos_lock, "processor")
  /\ infos' = Stored(job["processor"].name, job["processor"].data)
  /\ infos_lock' = Leave(infos_lock, "processor")
  /\ Finish("processor")
  /\ UNCHANGED <<commands, registry, translators, nodes_lock, registry_lock, calls>>

\* Where handle_enable, handle_disable and set_translator find the translator.
MountPoint(t) == IF job[t].op = "Set" THEN job[t].path ELSE job[t].name

Found(t) ==
  /\ At(t, "lookup")
  /\ Reads(infos_lock, t) \/ Writes(infos_lock, t)
  /\ job[t].name \in DOMAIN infos

\* Nothing of that name, or a module that does not validate: no thread is spawned.
Unusable(t) ==
  /\ At(t, "lookup")
  /\ Reads(infos_lock, t) \/ Writes(infos_lock, t)
  /\ \/ job[t].name \notin DOMAIN infos /\ UNCHANGED infos
     \/ /\ Found(t) /\ job[t].op # "Disable"
        /\ infos[job[t].name].data \in Invalid
        /\ infos' = IF job[t].op = "Enable" THEN [infos EXCEPT ![job[t].name].status = "Error"]
                    ELSE infos
  /\ infos_lock' = Leave(infos_lock, t)
  /\ Finish(t)
  /\ UNCHANGED <<commands, registry, translators, nodes_lock, registry_lock, calls>>

\* Mutation: the infos are unlocked while the registry is waited for.
Spawn_InfosUnlocked(t) ==
  /\ Found(t) /\ job[t].op # "Disable"
  /\ infos[job[t].name].data \notin Invalid
  /\ translators' = Append(translators, Spawned(job[t].name, infos[job[t].name].data))
  /\ handle' = [handle EXCEPT ![t] = Len(translators')]
  /\ registry_lock' = Request(registry_lock, t, "W")
  /\ infos_lock' = Leave(infos_lock, t)
  /\ Goto(t, "load")
  /\ UNCHANGED <<infos, commands, registry, nodes_lock, job, calls>>

\* load_translator: the new translator is made before the registry is locked.
Spawn(t) ==
  /\ Found(t) /\ job[t].op # "Disable"
  /\ infos[job[t].name].data \notin Invalid
  /\ translators' = Append(translators, Spawned(job[t].name, infos[job[t].name].data))
  /\ handle' = [handle EXCEPT ![t] = Len(translators')]
  /\ registry_lock' = Request(registry_lock, t, "W")
  /\ Goto(t, "load")
  /\ UNCHANGED <<infos, commands, registry, nodes_lock, infos_lock, job, calls>>

Disable(t) ==
  /\ Found(t) /\ job[t].op = "Disable"
  /\ registry_lock' = Request(registry_lock, t, "W")
  /\ Goto(t, "remove")
  /\ UNCHANGED <<state, nodes_lock, infos_lock, job, handle, calls>>

\* The rest of the call runs without waiting.
Complete(t) ==
  /\ infos' = CASE job[t].op = "Enable"  -> [infos EXCEPT ![job[t].name].status = "Enabled"]
                [] job[t].op = "Disable" -> [infos EXCEPT ![job[t].name].status = "Disabled"]
                [] OTHER                 -> infos
  /\ registry_lock' = Leave(registry_lock, t)
  /\ infos_lock' = Leave(infos_lock, t)
  /\ Finish(t)

\* The translator that was at the mount point is dropped, under the registry's lock.
Displace(t) ==
  LET p == MountPoint(t)
  IN  IF p \in DOMAIN registry /\ LastHandle(registry[p], p)
      THEN /\ translators' = Shutdown(registry[p])
           /\ handle' = [handle EXCEPT ![t] = registry[p]]
           /\ Goto(t, "join")
           /\ UNCHANGED <<infos, registry_lock, infos_lock, job>>
      ELSE Complete(t) /\ UNCHANGED translators

Load(t) ==
  /\ At(t, "load") /\ Writes(registry_lock, t)
  /\ registry' = [p \in DOMAIN registry \cup {MountPoint(t)} |->
                    IF p = MountPoint(t) THEN handle[t] ELSE registry[p]]
  /\ Displace(t)
  /\ UNCHANGED <<commands, nodes_lock, calls>>

RemoveTranslator(t) ==
  /\ At(t, "remove") /\ Writes(registry_lock, t)
  /\ registry' = [p \in DOMAIN registry \ {MountPoint(t)} |-> registry[p]]
  /\ Displace(t)
  /\ UNCHANGED <<commands, nodes_lock, calls>>

\* The thread of the dropped translator has ended.
Joined(t) ==
  /\ pc[t] = "join" /\ translators[handle[t]].thread = "exited"
  /\ Complete(t)
  /\ UNCHANGED <<commands, registry, translators, nodes_lock, calls>>

-----------------------------------------------------------------------------------
(***********************************************************************************)
(* The threads of the translators.                                                 *)
(***********************************************************************************)
\* Mutation: the receiver outlives the thread, and whoever is queued waits on.
Exited_QueueKept(i) ==
  translators' = [translators EXCEPT ![i].thread = "exited"] /\ UNCHANGED pc

\* The thread ends and its receiver with it: whoever is still queued gets an error.
Exited(i) ==
  /\ translators' = [translators EXCEPT ![i].thread = "exited", ![i].queue = <<>>]
  /\ pc' = [t \in Tasks |-> IF t \in ToSet(translators[i].queue) THEN "drop" ELSE pc[t]]

Instantiate(i) ==
  /\ translators[i].thread = "starting"
  /\ IF translators[i].data \in Failing THEN Exited(i)
     ELSE translators' = [translators EXCEPT ![i].thread = "serving"] /\ UNCHANGED pc
  /\ UNCHANGED <<infos, commands, registry, locks, job, handle, calls>>

\* One turn of the loop in run_translator_thread; the answer wakes the caller.
Serve(i) ==
  /\ translators[i].thread = "serving" /\ translators[i].queue # <<>>
  /\ LET c == Head(translators[i].queue)
     IN  IF c = "shutdown" THEN Exited(i)
         ELSE /\ translators' = [translators EXCEPT ![i].queue = Tail(@)]
              /\ Goto(c, "drop")
  /\ UNCHANGED <<infos, commands, registry, locks, job, handle, calls>>

-----------------------------------------------------------------------------------
Start(t) == InstallTranslator(t) \/ WriteControl(t) \/ Invoke(t) \/ SetTranslator(t) \/ ReadStatus(t)

Step(t) ==
  \/ ControlWritten(t) \/ Get(t) \/ Send(t) \/ Drop(t)
  \/ BlockOnStatus(t) \/ StatusRead(t)
  \/ Unusable(t) \/ Spawn(t) \/ Disable(t) \/ Load(t) \/ RemoveTranslator(t) \/ Joined(t)

Processor == Receive \/ InstallDirectory \/ InstallFile \/ InstallInfo

Thread(i) == i \in DOMAIN translators /\ (Instantiate(i) \/ Serve(i))

Next ==
  \/ \E t \in Tasks : Start(t) \/ Step(t)
  \/ Processor
  \/ \E i \in DOMAIN translators : Instantiate(i) \/ Serve(i)

\* The runtime polls what is ready, and a translator's function returns.
Spec ==
  /\ Init /\ [][Next]_vars
  /\ \A t \in Tasks : WF_vars(Step(t))
  /\ WF_vars(Processor)
  /\ \A i \in 1..MaxCalls + 1 : WF_vars(Thread(i))

-----------------------------------------------------------------------------------
(***********************************************************************************)
(* Properties.                                                                     *)
(***********************************************************************************)
Places == {"idle", "write", "get", "send", "answer", "drop", "join", "lookup", "load",
           "remove", "read", "status", "directory", "file", "store"}

\* Type invariant, with the lock discipline: who is where, and what it has locked there.
TypeOK ==
  /\ infos \in [DOMAIN infos -> [data : Data, status : Statuses]] /\ DOMAIN infos \subseteq Names
  /\ commands \in Seq(CommandJobs)
  /\ registry \in [DOMAIN registry -> DOMAIN translators] /\ DOMAIN registry \subseteq Paths
  /\ \A i \in DOMAIN translators :
       /\ translators[i].name \in Names /\ translators[i].data \in Data \ Invalid
       /\ translators[i].thread \in {"starting", "serving", "exited"}
       /\ translators[i].queue \in Seq(Callers \cup {"shutdown"})
  /\ pc \in [Tasks -> Places]
  /\ job \in [Tasks -> CommandJobs \cup CallJobs \cup {NoJob}]
  /\ handle \in [Tasks -> DOMAIN translators \cup {0}]
  /\ Exclusive(nodes_lock) /\ Exclusive(infos_lock) /\ Exclusive(registry_lock)
  /\ \A t \in Tasks :
       /\ pc[t] = "status" => Reads(nodes_lock, t)
       /\ pc[t] \in {"load", "remove"} => Reads(infos_lock, t) \/ Writes(infos_lock, t)
       /\ pc[t] = "join" /\ job[t].op # "Invoke" => Writes(registry_lock, t)

\* A translator that is shown as enabled is loaded, and from the module that was
\* installed last, unless set_translator put another one in its place.
EnabledServesInstalled ==
  \A n \in DOMAIN infos : infos[n].status = "Enabled" /\ infos_lock.writers = {} =>
    /\ n \in DOMAIN registry
    /\ translators[registry[n]].name = n => translators[registry[n]].data = infos[n].data

\* Whoever got a translator from the registry is served by it although it is disabled or
\* replaced in between: the thread has not been told to stop, unless it never started.
InvocationsServed ==
  \A t \in Callers : pc[t] \in {"send", "answer"} =>
    LET tr == translators[handle[t]]
    IN  tr.data \in Failing \/ (tr.thread # "exited" /\ "shutdown" \notin ToSet(tr.queue))

\* Every thread of the runtime is blocked in the status handler.
Exhausted == Cardinality(StatusBlocked) = Workers

\* Every call returns and every command taken is carried out, although translators are
\* dropped under the lock of the registry; only readers of the status file can prevent
\* it, when they occupy all threads of the runtime for ever.
CallsReturn == \A t \in Tasks : pc[t] # "idle" ~> (pc[t] = "idle" \/ []Exhausted)

\* The thread of a translator that nothing refers to any more ends: whatever the calls
\* do, again and again no thread serves a channel that nobody can send on.
Abandoned == {i \in DOMAIN translators : Handles(i) = {} /\ translators[i].thread # "exited"}

RemovedTranslatorsEnd == []<>(Abandoned = {})
===================================================================================
