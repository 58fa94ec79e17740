-------------------------------- MODULE FairRwLock --------------------------------
(***********************************************************************************)
(* tokio::sync::RwLock as the server relies on it: readers share, a writer is     *)
(* alone, and waiters are served strictly in the order they asked, so a reader    *)
(* queues behind a waiting writer even while other readers hold the lock.  A lock *)
(* is a record; the operators return the lock after the call.                     *)
(***********************************************************************************)
EXTENDS Naturals, FiniteSets, SequencesExt

Lock(readers, writers, queue) == [readers |-> readers, writers |-> writers, queue |-> queue]

Unlocked == Lock({}, {}, <<>>)

LeadingReaders(l) == {i \in 1..Len(l.queue) : \A j \in 1..i : l.queue[j].mode = "R"}

\* The places in the queue that are served now: all readers in front of the first
\* writer, or that writer.
Served(l) ==
  IF l.writers # {} \/ l.queue = <<>> THEN {}
  ELSE IF l.queue[1].mode = "R" THEN LeadingReaders(l)
  ELSE IF l.readers = {} THEN {1} ELSE {}

Entering(l, mode) == {l.queue[i].task : i \in {j \in Served(l) : l.queue[j].mode = mode}}

Settle(l) ==
  Lock(l.readers \cup Entering(l, "R"),
       l.writers \cup Entering(l, "W"),
       SubSeq(l.queue, Cardinality(Served(l)) + 1, Len(l.queue)))

\* read().await or write().await, up to the first poll.
Request(l, task, mode) ==
  Settle(Lock(l.readers, l.writers, Append(l.queue, [task |-> task, mode |-> mode])))

\* The guard is dropped; a task that is cancelled also leaves the queue, in which it
\* waits once: it asks again only after it was served or has left.
Leave(l, task) ==
  Settle(Lock(l.readers \ {task}, l.writers \ {task},
              RemoveFirstMatch(l.queue, LAMBDA w : w.task = task)))

Reads(l, task) == task \in l.readers

Writes(l, task) == task \in l.writers

Exclusive(l) == \A w \in l.writers : l.writers = {w} /\ l.readers = {}
===================================================================================
