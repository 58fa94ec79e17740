--------------------------------- MODULE AutoMount --------------------------------
(***********************************************************************************)
(* AutoMountDaemon: a discovery task that mounts the servers of a fixed list that  *)
(* answer, a health task that unmounts the servers not seen for two minutes,      *)
(* and the owner's stop() and status().  They share two maps, each behind its own *)
(* tokio RwLock, and take both locks in opposite orders.  Each action is what a   *)
(* task does between two of its awaits.                                           *)
(*                                                                                 *)
(* The servers are numbered in the order get_local_servers lists them.            *)
(***********************************************************************************)
EXTENDS FairRwLock

CONSTANT N                     \* how many servers the list has

ASSUME NAssumption == N \in Nat

Servers == 1..N

Tasks == {"discovery", "health", "owner"}

VARIABLES
  discovered_servers,          \* server -> "fresh" or "stale" (last_seen over 120 s ago)
  mounted_servers,
  D, M,                        \* the RwLocks of the two maps
  pc,
  current,                     \* the server discover_and_mount_servers is at
  to_unmount,                  \* what the health check decided to unmount
  shutdown                     \* stop() has sent on shutdown_tx

maps == <<discovered_servers, mounted_servers>>
locks == <<D, M>>
vars == <<maps, locks, pc, current, to_unmount, shutdown>>

Places == [discovery : {"idle", "visit", "check", "connect", "record", "exited"},
           health    : {"idle", "mounted", "discovered", "unmount", "aborted"},
           owner     : {"idle", "status", "status2", "drain", "stopped"}]

-----------------------------------------------------------------------------------
\* start(): both tasks are spawned and wait for their timers.
Init ==
  /\ discovered_servers = <<>> /\ mounted_servers = {}
  /\ D = Unlocked /\ M = Unlocked
  /\ pc = [discovery |-> "idle", health |-> "idle", owner |-> "idle"]
  /\ current = 1 /\ to_unmount = {}
  /\ shutdown = FALSE

Goto(task, place) == pc' = [pc EXCEPT ![task] = place]

-----------------------------------------------------------------------------------
\* The select! loop of the discovery task: a tick starts a cycle, which begins by
\* locking the discovered servers for writing until its end.
DiscoveryTick ==
  /\ pc.discovery = "idle"
  /\ D' = Request(D, "discovery", "W")
  /\ current' = 1
  /\ Goto("discovery", "visit")
  /\ UNCHANGED <<maps, M, to_unmount, shutdown>>

\* shutdown_rx.recv(); when the timer is due as well, select! may take either branch.
DiscoveryExit ==
  /\ pc.discovery = "idle"
  /\ shutdown
  /\ Goto("discovery", "exited")
  /\ UNCHANGED <<maps, locks, current, to_unmount, shutdown>>

\* The next server of the list is seen now, whether or not it can be reached.
Visit ==
  /\ pc.discovery = "visit" /\ Writes(D, "discovery")
  /\ current \in Servers
  /\ discovered_servers' =
       [s \in DOMAIN discovered_servers \cup {current} |->
          IF s = current THEN "fresh" ELSE discovered_servers[s]]
  /\ M' = Request(M, "discovery", "R")
  /\ Goto("discovery", "check")
  /\ UNCHANGED <<mounted_servers, D, current, to_unmount, shutdown>>

\* Mutation: every server of the list is mounted again in every cycle.
CheckMounted_Always ==
  /\ pc.discovery = "check" /\ Reads(M, "discovery")
  /\ M' = Leave(M, "discovery")
  /\ Goto("discovery", "connect")
  /\ UNCHANGED <<maps, D, current, to_unmount, shutdown>>

\* Mutation: a server is mounted under the read guard of the check.
CheckMounted_GuardKept ==
  /\ pc.discovery = "check" /\ Reads(M, "discovery")
  /\ \/ /\ current \in mounted_servers
        /\ M' = Leave(M, "discovery")
        /\ current' = current + 1
        /\ Goto("discovery", "visit")
     \/ /\ current \notin mounted_servers
        /\ Goto("discovery", "connect")
        /\ UNCHANGED <<M, current>>
  /\ UNCHANGED <<maps, D, to_unmount, shutdown>>

CheckMounted ==
  /\ pc.discovery = "check" /\ Reads(M, "discovery")
  /\ M' = Leave(M, "discovery")
  /\ \/ /\ current \in mounted_servers
        /\ current' = current + 1
        /\ Goto("discovery", "visit")
     \/ /\ current \notin mounted_servers
        /\ Goto("discovery", "connect")
        /\ UNCHANGED current
  /\ UNCHANGED <<maps, D, to_unmount, shutdown>>

\* mount_server: create_connection succeeds and the mount is to be recorded, or it fails.
Connect ==
  /\ pc.discovery = "connect"
  /\ \/ /\ M' = Request(M, "discovery", "W")
        /\ Goto("discovery", "record")
        /\ UNCHANGED current
     \/ /\ current' = current + 1
        /\ Goto("discovery", "visit")
        /\ UNCHANGED M
  /\ UNCHANGED <<maps, D, to_unmount, shutdown>>

RecordMount ==
  /\ pc.discovery = "record" /\ Writes(M, "discovery")
  /\ mounted_servers' = mounted_servers \cup {current}
  /\ M' = Leave(M, "discovery")
  /\ current' = current + 1
  /\ Goto("discovery", "visit")
  /\ UNCHANGED <<discovered_servers, D, to_unmount, shutdown>>

EndCycle ==
  /\ pc.discovery = "visit" /\ Writes(D, "discovery")
  /\ current \notin Servers
  /\ D' = Leave(D, "discovery")
  /\ Goto("discovery", "idle")
  /\ UNCHANGED <<maps, M, current, to_unmount, shutdown>>

DiscoveryStep == Visit \/ CheckMounted \/ Connect \/ RecordMount \/ EndCycle

-----------------------------------------------------------------------------------
\* health_check_mounted_servers locks in the other order: mounted, then discovered.
HealthTick ==
  /\ pc.health = "idle"
  /\ M' = Request(M, "health", "R")
  /\ Goto("health", "mounted")
  /\ UNCHANGED <<maps, D, current, to_unmount, shutdown>>

\* Mutation: the mounted servers are unlocked before the discovered ones are locked.
ReadMounted_Unlocked ==
  /\ pc.health = "mounted" /\ Reads(M, "health")
  /\ M' = Leave(M, "health")
  /\ D' = Request(D, "health", "R")
  /\ Goto("health", "discovered")
  /\ UNCHANGED <<maps, current, to_unmount, shutdown>>

ReadMounted ==
  /\ pc.health = "mounted" /\ Reads(M, "health")
  /\ D' = Request(D, "health", "R")
  /\ Goto("health", "discovered")
  /\ UNCHANGED <<maps, M, current, to_unmount, shutdown>>

\* A mounted server nobody discovered, or one not seen for two minutes.
Dead(s) == s \notin DOMAIN discovered_servers \/ discovered_servers[s] = "stale"

\* Both read guards are released before the unmounting.
ChooseDead ==
  /\ pc.health = "discovered" /\ Reads(D, "health")
  /\ to_unmount' = {s \in mounted_servers : Dead(s)}
  /\ D' = Leave(D, "health")
  /\ \/ /\ to_unmount' = {}
        /\ M' = Leave(M, "health")
        /\ Goto("health", "idle")
     \/ /\ to_unmount' # {}
        /\ M' = Request(Leave(M, "health"), "health", "W")
        /\ Goto("health", "unmount")
  /\ UNCHANGED <<maps, current, shutdown>>

UnmountDead ==
  /\ pc.health = "unmount" /\ Writes(M, "health")
  /\ mounted_servers' = mounted_servers \ to_unmount
  /\ to_unmount' = {}
  /\ M' = Leave(M, "health")
  /\ Goto("health", "idle")
  /\ UNCHANGED <<discovered_servers, D, current, shutdown>>

HealthStep == ReadMounted \/ ChooseDead \/ UnmountDead

-----------------------------------------------------------------------------------
\* status(): discovered, then mounted.
Status ==
  /\ pc.owner = "idle"
  /\ D' = Request(D, "owner", "R")
  /\ Goto("owner", "status")
  /\ UNCHANGED <<maps, M, current, to_unmount, shutdown>>

StatusMounted ==
  /\ pc.owner = "status" /\ Reads(D, "owner")
  /\ M' = Request(M, "owner", "R")
  /\ Goto("owner", "status2")
  /\ UNCHANGED <<maps, D, current, to_unmount, shutdown>>

StatusReturns ==
  /\ pc.owner = "status2" /\ Reads(M, "owner")
  /\ D' = Leave(D, "owner") /\ M' = Leave(M, "owner")
  /\ Goto("owner", "idle")
  /\ UNCHANGED <<maps, current, to_unmount, shutdown>>

\* Mutation: the health task is left running.
Stop_HealthKept ==
  /\ pc.owner = "idle"
  /\ shutdown' = TRUE
  /\ Goto("owner", "drain")
  /\ M' = Request(M, "owner", "W")
  /\ UNCHANGED <<maps, D, current, to_unmount>>

\* stop(): signal the discovery task, abort the health task wherever it waits (its
\* guards are dropped), and ask for the mounted servers.  It takes &mut self, so no
\* status() is under way.
Stop ==
  /\ pc.owner = "idle"
  /\ shutdown' = TRUE
  /\ pc' = [pc EXCEPT !.owner = "drain", !.health = "aborted"]
  /\ to_unmount' = {}
  /\ D' = Leave(D, "health")
  /\ M' = Request(Leave(M, "health"), "owner", "W")
  /\ UNCHANGED <<maps, current>>

DrainMounted ==
  /\ pc.owner = "drain" /\ Writes(M, "owner")
  /\ mounted_servers' = {}
  /\ M' = Leave(M, "owner")
  /\ Goto("owner", "stopped")
  /\ UNCHANGED <<discovered_servers, D, current, to_unmount, shutdown>>

OwnerStep == StatusMounted \/ StatusReturns \/ DrainMounted

-----------------------------------------------------------------------------------
\* More than two minutes of wall-clock time pass since the servers were last seen:
\* last_seen is a SystemTime, so a slow connection attempt, a suspended machine or a
\* clock that is set does it.
Age ==
  /\ discovered_servers' = [s \in DOMAIN discovered_servers |-> "stale"]
  /\ UNCHANGED <<mounted_servers, locks, pc, current, to_unmount, shutdown>>

-----------------------------------------------------------------------------------
Next ==
  \/ DiscoveryTick \/ DiscoveryExit \/ DiscoveryStep
  \/ HealthTick \/ HealthStep
  \/ Status \/ Stop \/ OwnerStep
  \/ Age

\* Timers fire and a task whose lock is granted or whose connection attempt has ended
\* goes on.  select! picks at random among ready branches, so a pending shutdown is
\* not passed over for ever.  Nobody has to call status() or stop().
Fairness ==
  /\ WF_vars(DiscoveryTick) /\ SF_vars(DiscoveryExit) /\ WF_vars(DiscoveryStep)
  /\ WF_vars(HealthTick) /\ WF_vars(HealthStep)
  /\ WF_vars(OwnerStep)

Spec == Init /\ [][Next]_vars /\ Fairness

-----------------------------------------------------------------------------------
(***********************************************************************************)
(* Properties.                                                                     *)
(***********************************************************************************)
Locks == [readers : SUBSET Tasks, writers : SUBSET Tasks,
          queue : Seq([task : Tasks, mode : {"R", "W"}])]

\* The places at which a task has the lock of a map, or waits for it, by mode.
DPlaces == [R |-> {"discovered", "status", "status2"}, W |-> {"visit", "check", "connect", "record"}]
MPlaces == [R |-> {"check", "mounted", "discovered", "status2"}, W |-> {"record", "unmount", "drain"}]

LockedAt(l, places) ==
  /\ \A t \in l.readers : pc[t] \in places.R
  /\ \A t \in l.writers : pc[t] \in places.W
  /\ \A i \in DOMAIN l.queue : pc[l.queue[i].task] \in places[l.queue[i].mode]

\* Type invariant, with the discipline of the locks: who has one or waits for one is where
\* the code asked for it and has not let it go.  A cycle writes the discovered servers from
\* its first server to its end, a health check that reads these still reads the mounted
\* ones, and nobody reads the mounted ones while it connects.
TypeOK ==
  /\ DOMAIN discovered_servers \subseteq Servers
  /\ \A s \in DOMAIN discovered_servers : discovered_servers[s] \in {"fresh", "stale"}
  /\ mounted_servers \subseteq Servers
  /\ pc \in Places
  /\ D \in Locks /\ Exclusive(D) /\ LockedAt(D, DPlaces)
  /\ M \in Locks /\ Exclusive(M) /\ LockedAt(M, MPlaces)
  /\ pc.discovery \in {"check", "connect", "record"} => Writes(D, "discovery")
  /\ pc.health = "discovered" => Reads(M, "health")
  /\ current \in 1..(N + 1)
  /\ to_unmount \subseteq Servers
  /\ shutdown \in BOOLEAN

\* The check "already mounted?" stays true up to the insertion although the lock of
\* the mounted servers is released for the connection attempt in between: a mount is
\* never recorded over another one.
NeverMountedTwice ==
  [][pc.discovery = "record" /\ pc'.discovery = "visit" => current \notin mounted_servers]_vars

\* The health check decides on one view: from its first look at the mounts none is added
\* or removed, and once it reads the discovered servers none it calls dead is seen again,
\* whatever discovery and stop() do.
ConsistentHealthCheck ==
  [][pc.health = "discovered" =>
       /\ UNCHANGED mounted_servers
       /\ Reads(D, "health") => \A s \in Servers : Dead(s) => Dead(s)']_vars

\* stop() returns and the discovery task ends its cycle and exits, even when discovery
\* and health check are waiting for each other: aborting the health check frees what
\* the discovery task and stop() wait for.
StopReturns == shutdown ~> pc.owner = "stopped" /\ pc.discovery = "exited"

\* Discovery wants to record a mount while it holds the discovered servers; the health
\* check waits for these while it holds the mounts.
LocksCrossed ==
  /\ pc.discovery = "record" /\ ~ Writes(M, "discovery")
  /\ pc.health = "discovered" /\ ~ Reads(D, "health")

\* Taking the two locks in opposite orders has that one bad outcome and no other: until
\* stop(), cycles end again and again, or discovery and health check are crossed at
\* exactly these two places.  No status() starves them or completes another cycle of waits.
CyclesRecur == []<>(pc.discovery = "idle" \/ shutdown \/ LocksCrossed)

\* "Check every 30 seconds" (auto_mount.rs:57): discovery cycles recur until stop().  The
\* code does not keep this, because of LocksCrossed; no run checks it.
DiscoveryRecurs == []<>(pc.discovery = "idle" \/ shutdown)

\* "Unmount all mounted servers" (auto_mount.rs:233): once stop() has returned and the
\* discovery task has exited nothing is mounted.  The code does not keep this: a cycle
\* that is under way mounts after the drain; no run checks it.
NothingMountedAfterStop ==
  pc.owner = "stopped" /\ pc.discovery = "exited" => mounted_servers = {}
===================================================================================
