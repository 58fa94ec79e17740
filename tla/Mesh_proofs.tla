------------------------------- MODULE Mesh_proofs -------------------------------
(***********************************************************************************)
(* Proofs about Mesh for any nodes, links and bounds.                              *)
(***********************************************************************************)
EXTENDS Mesh, Lemmas, SequenceTheorems

-----------------------------------------------------------------------------------
\* The kinds of tasks are apart, and a task stays where it is and about whom it is.
LEMMA TaskFacts ==
  /\ \A c \in 1..MaxConns :
       /\ Handler(c) \in Handlers /\ Handler(c) \in Tasks
       /\ Here(Handler(c)) = conns[c].to /\ There(Handler(c)) = conns[c].from
       /\ \A d \in 1..MaxConns : Handler(c) = Handler(d) => c = d
  /\ \A l \in Links :
       /\ Dialler(l) \in Tasks /\ Dialler(l) \notin Handlers
       /\ Here(Dialler(l)) = l[1] /\ There(Dialler(l)) = l[2]
       /\ l[1] \in Nodes /\ l[2] \in Nodes
  /\ \A n \in Nodes : Refresher(n) \in Tasks /\ Refresher(n) \notin Handlers \cup Dialers
  /\ \A t \in Tasks : t \in Handlers \/ t \in Dialers \/ t \in Refreshers
<1>1. \A l \in Links : Dialler(l) \notin Handlers
  BY DEF Dialler, Handler, Handlers
<1>2. \A n \in Nodes : Refresher(n) \notin Handlers \cup Dialers
  BY DEF Refresher, Dialler, Handler, Handlers, Dialers
<1>3. \A c \in 1..MaxConns : Handler(c)[2] = c
  BY DEF Handler
<1>4. \A l \in Links : Dialler(l)[2] = l /\ l[1] \in Nodes /\ l[2] \in Nodes
  BY LinksAssumption DEF Dialler
<1>5. \A c \in 1..MaxConns : Handler(c) \in Handlers /\ Handler(c) \in Tasks
  BY DEF Handlers, Tasks
<1>6. \A l \in Links : Dialler(l) \in Tasks
  BY DEF Dialers, Tasks
<1>7. \A n \in Nodes : Refresher(n) \in Tasks
  BY DEF Refreshers, Tasks
<1> QED BY <1>1, <1>2, <1>3, <1>4, <1>5, <1>6, <1>7 DEF Here, There, Tasks

PerNode(f) == f = [n \in Nodes |-> f[n]]

Typed ==
  /\ conns \in Seq([from : Nodes, to : Nodes, open : BOOLEAN]) /\ Len(conns) <= MaxConns
  /\ pc \in [Tasks -> Places]
  /\ PerNode(peers) /\ PerNode(connections) /\ PerNode(peers_lock)
  /\ \A n \in Nodes : Exclusive(peers_lock[n])
  /\ \A c \in 1..MaxConns : c \notin DOMAIN conns => pc[Handler(c)] = "idle"

\* While the connection of a peer is waited for, to be removed, the peer is not listed, and
\* whoever waits keeps the list locked.
Cleared ==
  \A c \in DOMAIN conns : pc[Handler(c)] = "remove_connection" =>
    Writes(peers_lock[conns[c].to], Handler(c)) /\ conns[c].from \notin DOMAIN peers[conns[c].to]

IInv == Typed /\ Cleared /\ ListedHaveEntries

LEMMA InvInit == Init => IInv
<1> SUFFICES ASSUME Init PROVE IInv
  OBVIOUS
<1>1. \A c \in 1..MaxConns : Handler(c) \in Tasks
  BY TaskFacts
<1>2. Len(conns) = 0 /\ DOMAIN conns = {} /\ conns \in Seq([from : Nodes, to : Nodes, open : BOOLEAN])
  BY DEF Init
<1>3. Typed
  BY <1>1, <1>2, BoundsAssumption DEF Init, Typed, PerNode, Places, Unlocked, Lock, Exclusive
<1>4. Cleared /\ ListedHaveEntries
  BY <1>2 DEF Init, Cleared, ListedHaveEntries
<1> QED BY <1>3, <1>4 DEF IInv

-----------------------------------------------------------------------------------
\* The ends of a connection do not change.
SameEnds ==
  /\ DOMAIN conns \subseteq DOMAIN conns'
  /\ \A c \in DOMAIN conns : conns'[c].from = conns[c].from /\ conns'[c].to = conns[c].to

LEMMA DomainFacts ==
  ASSUME Typed
  PROVE  /\ DOMAIN conns = 1..Len(conns) /\ Len(conns) \in Nat /\ DOMAIN conns \subseteq 1..MaxConns
         /\ \A c \in DOMAIN conns : conns[c].to \in Nodes /\ conns[c].from \in Nodes
                                    /\ conns[c] \in [from : Nodes, to : Nodes, open : BOOLEAN]
<1> DEFINE R == [from : Nodes, to : Nodes, open : BOOLEAN]
<1>1. conns \in Seq(R) /\ Len(conns) <= MaxConns
  BY DEF Typed
<1>2. conns \in [1..Len(conns) -> R] /\ Len(conns) \in Nat
  BY <1>1, LenProperties
<1>3. \A c \in 1..Len(conns) : conns[c] \in R
  BY <1>2
<1> QED BY <1>1, <1>2, <1>3, BoundsAssumption

LEMMA ClosingFacts ==
  ASSUME Typed, NEW S, conns' = Closing(S)
  PROVE  /\ conns' \in Seq([from : Nodes, to : Nodes, open : BOOLEAN])
         /\ Len(conns') = Len(conns) /\ DOMAIN conns' = DOMAIN conns /\ SameEnds
<1> DEFINE R == [from : Nodes, to : Nodes, open : BOOLEAN]
<1>1. DOMAIN conns = 1..Len(conns) /\ Len(conns) \in Nat /\ \A c \in DOMAIN conns : conns[c] \in R
  <2>1. conns \in Seq(R)
    BY DEF Typed
  <2>2. conns \in [1..Len(conns) -> R] /\ Len(conns) \in Nat
    BY <2>1, LenProperties
  <2> QED BY <2>2
<1>2. /\ conns' = [c \in 1..Len(conns) |-> IF c \in S THEN [conns[c] EXCEPT !.open = FALSE] ELSE conns[c]]
  BY <1>1 DEF Closing
<1>3. \A c \in 1..Len(conns) : conns'[c] \in R
  BY <1>1, <1>2
<1>4. conns' \in Seq(R) /\ Len(conns') = Len(conns)
  BY <1>1, <1>2, <1>3
<1> QED BY <1>1, <1>2, <1>4 DEF SameEnds

LEMMA SamePlace ==
  ASSUME Typed, SameEnds, NEW t \in Tasks, pc[t] # "idle"
  PROVE  Here(t)' = Here(t) /\ There(t)' = There(t)
<1>1. CASE t \in Handlers
  <2>1. PICK c \in 1..MaxConns : t = Handler(c)
    BY <1>1 DEF Handlers
  <2>2. c \in DOMAIN conns
    BY <2>1 DEF Typed
  <2>3. t[2] = c
    BY <2>1 DEF Handler
  <2> QED BY <1>1, <2>2, <2>3 DEF SameEnds, Here, There
<1>2. CASE t \notin Handlers
  BY <1>2 DEF Here, There
<1> QED BY <1>1, <1>2

\* A step keeps the listed peers connected if it lists no peer, forgets no connection, and
\* interrupts nobody who enters one.
LEMMA ListedFrame ==
  ASSUME IInv, SameEnds,
         \A n \in Nodes : DOMAIN peers'[n] \subseteq DOMAIN peers[n],
         \A n \in Nodes : DOMAIN connections[n] \subseteq DOMAIN connections'[n],
         \A t \in Tasks : pc[t] \in {"next", "insert_connection"} => pc'[t] \in {"next", "insert_connection"}
  PROVE  ListedHaveEntries'
<1> SUFFICES ASSUME NEW n \in Nodes, NEW m \in DOMAIN peers'[n], m \notin DOMAIN connections'[n]
             PROVE  \E t \in Tasks : pc'[t] \in {"next", "insert_connection"} /\ Here(t)' = n /\ There(t)' = m
  BY DEF ListedHaveEntries
<1>1. PICK t \in Tasks : pc[t] \in {"next", "insert_connection"} /\ Here(t) = n /\ There(t) = m
  BY DEF IInv, ListedHaveEntries
<1>2. Here(t)' = Here(t) /\ There(t)' = There(t)
  BY <1>1, SamePlace DEF IInv
<1> QED BY <1>1, <1>2

\* A step leaves the cleared peers cleared if it lists no peer, and nobody who waits for a
\* connection to remove loses the lock or is new.
LEMMA ClearedFrame ==
  ASSUME IInv, SameEnds,
         \A n \in Nodes : DOMAIN peers'[n] \subseteq DOMAIN peers[n],
         \A c \in DOMAIN conns' : pc'[Handler(c)] = "remove_connection" =>
           /\ c \in DOMAIN conns /\ pc[Handler(c)] = "remove_connection"
           /\ \A n \in Nodes : Handler(c) \in peers_lock[n].writers => Handler(c) \in peers_lock'[n].writers
  PROVE  Cleared'
<1> SUFFICES ASSUME NEW c \in DOMAIN conns', pc'[Handler(c)] = "remove_connection"
             PROVE  /\ Handler(c) \in peers_lock'[conns'[c].to].writers
                    /\ conns'[c].from \notin DOMAIN peers'[conns'[c].to]
  BY DEF Cleared, Writes
<1>1. c \in DOMAIN conns /\ pc[Handler(c)] = "remove_connection"
  OBVIOUS
<1>2. conns[c].to \in Nodes /\ conns'[c].to = conns[c].to /\ conns'[c].from = conns[c].from
  <2>1. conns[c] \in [from : Nodes, to : Nodes, open : BOOLEAN]
    BY <1>1, ElementOfSeq, LenProperties DEF IInv, Typed
  <2> QED BY <1>1, <2>1 DEF SameEnds
<1>3. /\ Handler(c) \in peers_lock[conns[c].to].writers
      /\ conns[c].from \notin DOMAIN peers[conns[c].to]
  BY <1>1 DEF IInv, Cleared, Writes
<1> QED BY <1>1, <1>2, <1>3

LockMoves(t) ==
  \/ \E n \in Nodes : \E mode \in {"R", "W"} : AskPeers(t, n, mode)
  \/ \E n \in Nodes : LeavePeers(t, n)
  \/ UNCHANGED peers_lock

LEMMA PeersLockFacts ==
  ASSUME Typed, NEW t, LockMoves(t)
  PROVE  /\ PerNode(peers_lock)'
         /\ \A n \in Nodes : Exclusive(peers_lock'[n])
         /\ \A n \in Nodes : \A u \in peers_lock[n].writers : u # t => u \in peers_lock'[n].writers
<1>1. CASE UNCHANGED peers_lock
  BY <1>1 DEF Typed, PerNode
<1>2. ASSUME NEW n \in Nodes, NEW mode \in {"R", "W"}, AskPeers(t, n, mode)
      PROVE  /\ PerNode(peers_lock)'
             /\ \A m \in Nodes : Exclusive(peers_lock'[m])
             /\ \A m \in Nodes : \A u \in peers_lock[m].writers : u # t => u \in peers_lock'[m].writers
  <2>1. /\ Exclusive(Request(peers_lock[n], t, mode))
        /\ peers_lock[n].writers \subseteq Request(peers_lock[n], t, mode).writers
    BY RequestFacts DEF Typed
  <2>2. peers_lock' = [m \in Nodes |-> IF m = n THEN Request(peers_lock[n], t, mode) ELSE peers_lock[m]]
    BY <1>2 DEF AskPeers, Typed, PerNode
  <2> QED BY <2>1, <2>2 DEF Typed, PerNode
<1>3. ASSUME NEW n \in Nodes, LeavePeers(t, n)
      PROVE  /\ PerNode(peers_lock)'
             /\ \A m \in Nodes : Exclusive(peers_lock'[m])
             /\ \A m \in Nodes : \A u \in peers_lock[m].writers : u # t => u \in peers_lock'[m].writers
  <2>1. /\ Exclusive(Leave(peers_lock[n], t))
        /\ peers_lock[n].writers \ {t} \subseteq Leave(peers_lock[n], t).writers
    BY LeaveFacts DEF Typed
  <2>2. peers_lock' = [m \in Nodes |-> IF m = n THEN Leave(peers_lock[n], t) ELSE peers_lock[m]]
    BY <1>3 DEF LeavePeers, Typed, PerNode
  <2> QED BY <2>1, <2>2 DEF Typed, PerNode
<1> QED BY <1>1, <1>2, <1>3 DEF LockMoves

-----------------------------------------------------------------------------------
\* A task that only moves on and locks or unlocks.
LEMMA Quiet ==
  ASSUME IInv, NEW t \in Tasks, NEW place \in Places, Goto(t, place), LockMoves(t),
         UNCHANGED <<conns, peers, connections>>,
         pc[t] \in {"next", "insert_connection"} => place \in {"next", "insert_connection"},
         place # "remove_connection",
         t \in Handlers => t[2] \in DOMAIN conns
  PROVE  IInv'
<1>1. SameEnds
  BY DEF SameEnds
<1>2. /\ pc' \in [Tasks -> Places] /\ pc'[t] = place
      /\ \A u \in Tasks : u # t => pc'[u] = pc[u]
  BY DEF Goto, IInv, Typed
<1>3. ASSUME NEW c \in 1..MaxConns, Handler(c) = t PROVE c \in DOMAIN conns
  <2>1. t \in Handlers
    BY <1>3 DEF Handlers
  <2>2. t[2] = c
    BY <1>3 DEF Handler
  <2> QED BY <2>1, <2>2
<1>4. Typed'
  <2>1. \A c \in 1..MaxConns : c \notin DOMAIN conns' => pc'[Handler(c)] = "idle"
    BY <1>2, <1>3, TaskFacts DEF IInv, Typed
  <2>2. PerNode(peers_lock)' /\ \A n \in Nodes : Exclusive(peers_lock'[n])
    BY PeersLockFacts DEF IInv
  <2>3. PerNode(peers)' /\ PerNode(connections)'
    BY DEF IInv, Typed, PerNode
  <2> QED BY <1>2, <2>1, <2>2, <2>3 DEF IInv, Typed
<1>5. Cleared'
  <2>1. \A c \in DOMAIN conns : c \in 1..MaxConns
    BY DomainFacts DEF IInv
  <2>2. ASSUME NEW c \in DOMAIN conns', pc'[Handler(c)] = "remove_connection"
        PROVE  /\ c \in DOMAIN conns /\ pc[Handler(c)] = "remove_connection"
               /\ \A n \in Nodes : Handler(c) \in peers_lock[n].writers => Handler(c) \in peers_lock'[n].writers
    <3>1. c \in DOMAIN conns /\ c \in 1..MaxConns
      BY <2>1
    <3>3. Handler(c) \in Tasks
      BY <3>1, TaskFacts
    <3>2. Handler(c) # t /\ pc[Handler(c)] = "remove_connection"
      BY <1>2, <2>2, <3>3
    <3> QED BY <3>1, <3>2, PeersLockFacts DEF IInv
  <2> QED BY <1>1, <2>2, ClearedFrame
<1>6. ListedHaveEntries'
  BY <1>1, <1>2, ListedFrame
<1> QED BY <1>4, <1>5, <1>6 DEF IInv

\* The tasks that enter a peer and its connection: dialers, and the handlers of connections.
Enters(t) == t \in Dialers \/ \E c \in DOMAIN conns : t = Handler(c)

LEMMA EntersFacts ==
  ASSUME Typed, NEW t, Enters(t)
  PROVE  t \in Tasks /\ Here(t) \in Nodes /\ (t \in Handlers => t[2] \in DOMAIN conns)
<1>1. CASE t \in Dialers
  BY <1>1, TaskFacts DEF Dialers
<1>2. ASSUME NEW c \in DOMAIN conns, t = Handler(c)
      PROVE  t \in Tasks /\ Here(t) \in Nodes /\ (t \in Handlers => t[2] \in DOMAIN conns)
  BY <1>2, TaskFacts, DomainFacts DEF Handler
<1> QED BY <1>1, <1>2 DEF Enters

LEMMA QuietSteps ==
  ASSUME IInv
  PROVE  /\ \A l \in Links : HandshakeFailed(l) \/ Acknowledged(l) => IInv'
         /\ \A t : Enters(t) /\ NextMap(t) => IInv'
         /\ \A c \in DOMAIN conns : Accept(c) \/ Closed(c) => IInv'
         /\ \A n \in Nodes : Discover(n) => IInv'
<1> USE DEF Places, maps, locks
<1>1. ASSUME NEW l \in Links, HandshakeFailed(l) \/ Acknowledged(l) PROVE IInv'
  <2>1. Dialler(l) \in Tasks /\ Dialler(l) \notin Handlers /\ l[1] \in Nodes
    BY TaskFacts
  <2>2. CASE HandshakeFailed(l)
    BY <2>1, <2>2, Quiet DEF HandshakeFailed, LockMoves
  <2>3. CASE Acknowledged(l)
    <3>1. LockMoves(Dialler(l)) /\ Goto(Dialler(l), "insert_peer")
      BY <2>1, <2>3 DEF Acknowledged, LockMoves
    <3> QED BY <2>1, <2>3, <3>1, Quiet DEF Acknowledged
  <2> QED BY <1>1, <2>2, <2>3
<1>2. ASSUME NEW t, Enters(t), NextMap(t) PROVE IInv'
  BY <1>2, EntersFacts, Quiet DEF NextMap, LockMoves, IInv
<1>3. ASSUME NEW c \in DOMAIN conns, Accept(c) \/ Closed(c) PROVE IInv'
  <2>1. Handler(c) \in Tasks /\ Handler(c)[2] = c /\ conns[c].to \in Nodes
    BY TaskFacts, DomainFacts DEF IInv, Handler
  <2>2. CASE Accept(c)
    <3>1. LockMoves(Handler(c)) /\ (Goto(Handler(c), "insert_peer") \/ Goto(Handler(c), "failed"))
          /\ pc[Handler(c)] = "accept" /\ UNCHANGED <<conns, peers, connections>>
      BY <2>1, <2>2 DEF Accept, LockMoves
    <3> QED BY <2>1, <3>1, Quiet
  <2>3. CASE Closed(c)
    <3>1. LockMoves(Handler(c)) /\ Goto(Handler(c), "remove_peer")
          /\ pc[Handler(c)] = "serve" /\ UNCHANGED <<conns, peers, connections>>
      BY <2>1, <2>3 DEF Closed, LockMoves
    <3> QED BY <2>1, <3>1, Quiet
  <2> QED BY <1>3, <2>2, <2>3
<1>4. ASSUME NEW n \in Nodes, Discover(n) PROVE IInv'
  <2>1. Refresher(n) \in Tasks /\ Refresher(n) \notin Handlers
    BY TaskFacts
  <2>2. /\ LockMoves(Refresher(n)) /\ UNCHANGED <<conns, peers, connections>>
        /\ \E place \in {"idle", "find", "found", "send", "sending"} : Goto(Refresher(n), place)
        /\ pc[Refresher(n)] \in {"idle", "find", "found", "send", "sending"}
    BY <1>4 DEF Discover, Refresh, Find, Found, SendMessage, Sent, LockMoves
  <2> QED BY <2>1, <2>2, Quiet
<1> QED BY <1>1, <1>2, <1>3, <1>4

-----------------------------------------------------------------------------------
LEMMA ConnectStep ==
  ASSUME IInv, NEW l \in Links, Connect(l)
  PROVE  IInv'
<1> DEFINE k == Len(conns) + 1
<1> DEFINE R == [from : Nodes, to : Nodes, open : BOOLEAN]
<1>1. /\ DOMAIN conns = 1..Len(conns) /\ Len(conns) \in Nat /\ k \in 1..MaxConns
      /\ l[1] \in Nodes /\ l[2] \in Nodes
  BY DomainFacts, TaskFacts, BoundsAssumption DEF IInv, Connect
<1>2. /\ conns' = Append(conns, [from |-> l[1], to |-> l[2], open |-> TRUE])
      /\ conns \in Seq(R) /\ [from |-> l[1], to |-> l[2], open |-> TRUE] \in R
  BY <1>1 DEF Connect, IInv, Typed
<1>3. /\ conns' \in Seq(R) /\ Len(conns') = k /\ DOMAIN conns' = 1..k /\ SameEnds
  BY <1>1, <1>2 DEF SameEnds
<1>4. /\ pc' = [pc EXCEPT ![Dialler(l)] = "handshake", ![Handler(k)] = "accept"]
      /\ pc[Dialler(l)] = "idle"
  BY <1>3 DEF Connect
<1>5. pc[Handler(k)] = "idle" /\ Handler(k) \in Tasks /\ Dialler(l) \in Tasks
  BY <1>1, TaskFacts DEF IInv, Typed
<1>6. /\ pc' \in [Tasks -> Places]
      /\ \A t \in Tasks : pc[t] # "idle" => pc'[t] = pc[t]
      /\ \A t \in Tasks : pc'[t] = pc[t] \/ pc'[t] \in {"handshake", "accept"}
      /\ \A c \in 1..MaxConns : c # k => pc'[Handler(c)] = pc[Handler(c)]
  <2>1. \A c \in 1..MaxConns : c # k => Handler(c) # Handler(k) /\ Handler(c) # Dialler(l)
    BY <1>1, TaskFacts
  <2> QED BY <1>4, <1>5, <2>1, TaskFacts DEF IInv, Typed, Places
<1>7. Typed'
  <2>1. \A c \in 1..MaxConns : c \notin DOMAIN conns' => pc'[Handler(c)] = "idle"
    BY <1>1, <1>3, <1>6 DEF IInv, Typed
  <2>2. UNCHANGED <<peers, connections, peers_lock>>
    BY DEF Connect, maps, locks
  <2> QED BY <1>1, <1>3, <1>6, <2>1, <2>2 DEF IInv, Typed, PerNode
<1>8. Cleared'
  <2>1. ASSUME NEW c \in DOMAIN conns', pc'[Handler(c)] = "remove_connection"
        PROVE  c \in DOMAIN conns /\ pc[Handler(c)] = "remove_connection"
    <3>1. c \in 1..MaxConns
      <4>1. c \in 1..k
        BY <1>3
      <4> QED BY <1>1, <4>1, BoundsAssumption
    <3>2. Handler(c) \in Tasks
      BY <3>1, TaskFacts
    <3>3. pc[Handler(c)] = "remove_connection"
      BY <1>6, <2>1, <3>2
    <3> QED BY <3>1, <3>3 DEF IInv, Typed
  <2>2. UNCHANGED <<peers, peers_lock>>
    BY DEF Connect, maps, locks
  <2> QED BY <1>3, <2>1, <2>2, ClearedFrame
<1>9. ListedHaveEntries'
  <2>1. UNCHANGED <<peers, connections>>
    BY DEF Connect, maps
  <2> QED BY <1>3, <1>6, <2>1, ListedFrame
<1> QED BY <1>7, <1>8, <1>9 DEF IInv

\* A step that leaves the tasks where they are, and lists no peer.
LEMMA StillStep ==
  ASSUME IInv, UNCHANGED <<pc, connections, peers_lock>>, PerNode(peers)',
         conns' = conns \/ \E S : conns' = Closing(S),
         \A n \in Nodes : DOMAIN peers'[n] \subseteq DOMAIN peers[n]
  PROVE  IInv'
<1>1. /\ SameEnds /\ DOMAIN conns' = DOMAIN conns /\ Len(conns') = Len(conns)
      /\ conns' \in Seq([from : Nodes, to : Nodes, open : BOOLEAN])
  <2>1. CASE conns' = conns
    BY <2>1 DEF SameEnds, IInv, Typed
  <2>2. CASE \E S : conns' = Closing(S)
    BY <2>2, ClosingFacts DEF IInv
  <2> QED BY <2>1, <2>2
<1>2. Typed'
  BY <1>1 DEF IInv, Typed, PerNode
<1>3. Cleared'
  BY <1>1, ClearedFrame
<1>4. ListedHaveEntries'
  BY <1>1, ListedFrame
<1> QED BY <1>2, <1>3, <1>4 DEF IInv

LEMMA StillSteps ==
  ASSUME IInv
  PROVE  /\ \A c \in DOMAIN conns : Learn(c) \/ Fail(c) => IInv'
         /\ \A n, m \in Nodes : Disconnect(n, m) => IInv'
         /\ UNCHANGED vars => IInv'
<1> USE DEF maps, locks
<1>1. ASSUME NEW c \in DOMAIN conns, Learn(c) PROVE IInv'
  BY <1>1, StillStep DEF Learn, IInv, Typed, PerNode
<1>2. ASSUME NEW c \in DOMAIN conns, Fail(c) PROVE IInv'
  BY <1>2, StillStep DEF Fail, IInv, Typed, PerNode
<1>3. ASSUME NEW n \in Nodes, NEW m \in Nodes, Disconnect(n, m) PROVE IInv'
  <2>1. PerNode(peers)' /\ \A k \in Nodes : DOMAIN peers'[k] \subseteq DOMAIN peers[k]
    BY <1>3 DEF Disconnect, Without, Restrict, IInv, Typed, PerNode
  <2> QED BY <1>3, <2>1, StillStep DEF Disconnect
<1>4. UNCHANGED vars => IInv'
  BY StillStep DEF vars, IInv, Typed, PerNode
<1> QED BY <1>1, <1>2, <1>3, <1>4

-----------------------------------------------------------------------------------
LEMMA InsertPeerStep ==
  ASSUME IInv, NEW t, Enters(t), InsertPeer(t)
  PROVE  IInv'
<1>1. t \in Tasks /\ Here(t) \in Nodes /\ (t \in Handlers => t[2] \in DOMAIN conns)
  BY EntersFacts DEF IInv
<1>2. /\ pc[t] = "insert_peer" /\ t \in peers_lock[Here(t)].writers
      /\ pc' = [pc EXCEPT ![t] = "next"] /\ UNCHANGED <<conns, connections>>
      /\ peers' = [peers EXCEPT ![Here(t)] = Put(@, There(t), Conn(t))]
      /\ LockMoves(t)
  BY <1>1 DEF InsertPeer, Writes, Goto, LockMoves
<1>3. SameEnds
  BY <1>2 DEF SameEnds
<1>4. /\ pc' \in [Tasks -> Places] /\ pc'[t] = "next" /\ \A u \in Tasks : u # t => pc'[u] = pc[u]
  BY <1>1, <1>2 DEF IInv, Typed, Places
<1>5. /\ PerNode(peers)'
      /\ \A n \in Nodes : DOMAIN peers'[n] = IF n = Here(t) THEN DOMAIN peers[n] \cup {There(t)}
                                               ELSE DOMAIN peers[n]
  BY <1>1, <1>2 DEF IInv, Typed, PerNode, Put
<1>6. /\ PerNode(peers_lock)' /\ \A n \in Nodes : Exclusive(peers_lock'[n])
      /\ \A n \in Nodes : \A u \in peers_lock[n].writers : u # t => u \in peers_lock'[n].writers
  BY <1>2, PeersLockFacts DEF IInv
<1>7. \A c \in DOMAIN conns : c \in 1..MaxConns /\ Handler(c) \in Tasks /\ conns[c].to \in Nodes
  BY DomainFacts, TaskFacts DEF IInv
<1>8. Typed'
  <2>1. \A c \in 1..MaxConns : c \notin DOMAIN conns' => pc'[Handler(c)] = "idle"
    <3> SUFFICES ASSUME NEW c \in 1..MaxConns, c \notin DOMAIN conns PROVE pc'[Handler(c)] = "idle"
      BY <1>2
    <3>1. pc[Handler(c)] = "idle" /\ Handler(c) \in Tasks
      BY TaskFacts DEF IInv, Typed
    <3> QED BY <1>2, <1>4, <3>1
  <2> QED BY <1>2, <1>4, <1>5, <1>6, <2>1 DEF IInv, Typed, PerNode
<1>9. Cleared'
  <2> SUFFICES ASSUME NEW c \in DOMAIN conns, pc'[Handler(c)] = "remove_connection"
               PROVE  /\ Handler(c) \in peers_lock'[conns[c].to].writers
                      /\ conns[c].from \notin DOMAIN peers'[conns[c].to]
    BY <1>2 DEF Cleared, Writes
  <2>1. Handler(c) # t /\ pc[Handler(c)] = "remove_connection"
    BY <1>4, <1>7
  <2>2. /\ Handler(c) \in peers_lock[conns[c].to].writers
        /\ conns[c].from \notin DOMAIN peers[conns[c].to]
    BY <2>1 DEF IInv, Cleared, Writes
  <2>3. conns[c].to # Here(t)
    <3>1. Exclusive(peers_lock[Here(t)])
      BY <1>1 DEF IInv, Typed
    <3> QED BY <1>2, <2>1, <2>2, <3>1 DEF Exclusive
  <2> QED BY <1>5, <1>6, <1>7, <2>1, <2>2, <2>3
<1>10. ListedHaveEntries'
  <2> SUFFICES ASSUME NEW n \in Nodes, NEW m \in DOMAIN peers'[n], m \notin DOMAIN connections[n]
               PROVE  \E u \in Tasks : pc'[u] \in {"next", "insert_connection"} /\ Here(u)' = n /\ There(u)' = m
    BY <1>2 DEF ListedHaveEntries
  <2>1. CASE n = Here(t) /\ m = There(t)
    <3>1. Here(t)' = Here(t) /\ There(t)' = There(t)
      BY <1>1, <1>2, <1>3, SamePlace DEF IInv
    <3> QED BY <1>1, <1>4, <2>1, <3>1
  <2>2. CASE ~ (n = Here(t) /\ m = There(t))
    <3>1. m \in DOMAIN peers[n]
      BY <1>5, <2>2
    <3>2. PICK u \in Tasks : pc[u] \in {"next", "insert_connection"} /\ Here(u) = n /\ There(u) = m
      BY <3>1 DEF IInv, ListedHaveEntries
    <3>3. u # t /\ Here(u)' = Here(u) /\ There(u)' = There(u)
      BY <1>2, <1>3, <3>2, SamePlace DEF IInv
    <3> QED BY <1>4, <3>2, <3>3
  <2> QED BY <2>1, <2>2
<1> QED BY <1>8, <1>9, <1>10 DEF IInv

LEMMA InsertConnectionStep ==
  ASSUME IInv, NEW t, Enters(t), InsertConnection(t)
  PROVE  IInv'
<1> DEFINE place == IF t \in Handlers THEN "serve" ELSE "idle"
<1>1. t \in Tasks /\ Here(t) \in Nodes /\ (t \in Handlers => t[2] \in DOMAIN conns)
  BY EntersFacts DEF IInv
<1>2. /\ pc[t] = "insert_connection" /\ pc' = [pc EXCEPT ![t] = place]
      /\ conns' = Closing(Forgotten(Here(t), There(t))) /\ UNCHANGED <<peers, peers_lock>>
      /\ connections' = [connections EXCEPT ![Here(t)] = Put(@, There(t), Conn(t))]
  BY DEF InsertConnection, Goto
<1>3. /\ SameEnds /\ DOMAIN conns' = DOMAIN conns /\ Len(conns') = Len(conns)
      /\ conns' \in Seq([from : Nodes, to : Nodes, open : BOOLEAN])
  BY <1>2, ClosingFacts DEF IInv
<1>4. /\ pc' \in [Tasks -> Places] /\ pc'[t] \in {"serve", "idle"}
      /\ \A u \in Tasks : u # t => pc'[u] = pc[u]
  BY <1>1, <1>2 DEF IInv, Typed, Places
<1>5. /\ PerNode(connections)'
      /\ \A n \in Nodes : DOMAIN connections'[n] =
           IF n = Here(t) THEN DOMAIN connections[n] \cup {There(t)} ELSE DOMAIN connections[n]
  BY <1>1, <1>2 DEF IInv, Typed, PerNode, Put
<1>6. Typed'
  <2>1. \A c \in 1..MaxConns : c \notin DOMAIN conns' => pc'[Handler(c)] = "idle"
    <3> SUFFICES ASSUME NEW c \in 1..MaxConns, c \notin DOMAIN conns PROVE pc'[Handler(c)] = "idle"
      BY <1>3
    <3>1. pc[Handler(c)] = "idle" /\ Handler(c) \in Tasks
      BY TaskFacts DEF IInv, Typed
    <3> QED BY <1>2, <1>4, <3>1
  <2> QED BY <1>2, <1>3, <1>4, <1>5, <2>1 DEF IInv, Typed, PerNode
<1>7. Cleared'
  <2>1. ASSUME NEW c \in DOMAIN conns', pc'[Handler(c)] = "remove_connection"
        PROVE  c \in DOMAIN conns /\ pc[Handler(c)] = "remove_connection"
    <3>1. c \in DOMAIN conns /\ Handler(c) \in Tasks
      BY <1>3, DomainFacts, TaskFacts DEF IInv
    <3> QED BY <1>4, <2>1, <3>1
  <2> QED BY <1>2, <1>3, <2>1, ClearedFrame
<1>8. ListedHaveEntries'
  <2> SUFFICES ASSUME NEW n \in Nodes, NEW m \in DOMAIN peers[n], m \notin DOMAIN connections'[n]
               PROVE  \E u \in Tasks : pc'[u] \in {"next", "insert_connection"} /\ Here(u)' = n /\ There(u)' = m
    BY <1>2 DEF ListedHaveEntries
  <2>1. m \notin DOMAIN connections[n] /\ ~ (n = Here(t) /\ m = There(t))
    BY <1>5
  <2>2. PICK u \in Tasks : pc[u] \in {"next", "insert_connection"} /\ Here(u) = n /\ There(u) = m
    BY <2>1 DEF IInv, ListedHaveEntries
  <2>3. u # t /\ Here(u)' = Here(u) /\ There(u)' = There(u)
    BY <1>3, <2>1, <2>2, SamePlace DEF IInv
  <2> QED BY <1>4, <2>2, <2>3
<1> QED BY <1>6, <1>7, <1>8 DEF IInv

LEMMA RemovePeerStep ==
  ASSUME IInv, NEW d \in DOMAIN conns, RemovePeer(d)
  PROVE  IInv'
<1> DEFINE t == Handler(d)
<1>1. /\ d \in 1..MaxConns /\ t \in Tasks /\ Here(t) = conns[d].to /\ There(t) = conns[d].from
      /\ conns[d].to \in Nodes
  BY DomainFacts, TaskFacts DEF IInv
<1>2. /\ pc[t] = "remove_peer" /\ t \in peers_lock[conns[d].to].writers
      /\ pc' = [pc EXCEPT ![t] = "remove_connection"] /\ UNCHANGED <<conns, connections, peers_lock>>
      /\ peers' = [peers EXCEPT ![conns[d].to] = Without(@, conns[d].from)]
  BY <1>1 DEF RemovePeer, Writes, Goto
<1>3. SameEnds
  BY <1>2 DEF SameEnds
<1>4. /\ pc' \in [Tasks -> Places] /\ pc'[t] = "remove_connection"
      /\ \A u \in Tasks : u # t => pc'[u] = pc[u]
  BY <1>1, <1>2 DEF IInv, Typed, Places
<1>5. /\ PerNode(peers)'
      /\ \A n \in Nodes : DOMAIN peers'[n] = IF n = conns[d].to THEN DOMAIN peers[n] \ {conns[d].from}
                                               ELSE DOMAIN peers[n]
  BY <1>1, <1>2 DEF IInv, Typed, PerNode, Without, Restrict
<1>6. \A c \in DOMAIN conns : c \in 1..MaxConns /\ Handler(c) \in Tasks /\ conns[c].to \in Nodes
  BY DomainFacts, TaskFacts DEF IInv
<1>7. Typed'
  <2>1. \A c \in 1..MaxConns : c \notin DOMAIN conns' => pc'[Handler(c)] = "idle"
    <3> SUFFICES ASSUME NEW c \in 1..MaxConns, c \notin DOMAIN conns PROVE pc'[Handler(c)] = "idle"
      BY <1>2
    <3>1. pc[Handler(c)] = "idle" /\ Handler(c) \in Tasks
      BY TaskFacts DEF IInv, Typed
    <3> QED BY <1>2, <1>4, <3>1
  <2> QED BY <1>2, <1>4, <1>5, <2>1 DEF IInv, Typed, PerNode
<1>8. Cleared'
  <2> SUFFICES ASSUME NEW c \in DOMAIN conns, pc'[Handler(c)] = "remove_connection"
               PROVE  /\ Handler(c) \in peers_lock[conns[c].to].writers
                      /\ conns[c].from \notin DOMAIN peers'[conns[c].to]
    BY <1>2 DEF Cleared, Writes
  <2>1. CASE c = d
    BY <1>1, <1>2, <1>5, <2>1
  <2>2. CASE c # d
    <3>1. pc[Handler(c)] = "remove_connection"
      BY <1>1, <1>4, <1>6, <2>2, TaskFacts
    <3>2. /\ Handler(c) \in peers_lock[conns[c].to].writers
          /\ conns[c].from \notin DOMAIN peers[conns[c].to]
      BY <3>1 DEF IInv, Cleared, Writes
    <3> QED BY <1>5, <1>6, <3>2
  <2> QED BY <2>1, <2>2
<1>9. ListedHaveEntries'
  BY <1>2, <1>3, <1>4, <1>5, ListedFrame
<1> QED BY <1>7, <1>8, <1>9 DEF IInv

LEMMA RemoveConnectionStep ==
  ASSUME IInv, NEW d \in DOMAIN conns, RemoveConnection(d)
  PROVE  IInv'
<1> DEFINE t == Handler(d)
<1>1. /\ d \in 1..MaxConns /\ t \in Tasks /\ Here(t) = conns[d].to /\ There(t) = conns[d].from
      /\ conns[d].to \in Nodes
  BY DomainFacts, TaskFacts DEF IInv
<1>2. /\ pc[t] = "remove_connection" /\ pc' = [pc EXCEPT ![t] = "ended"] /\ UNCHANGED peers
      /\ conns' = Closing(Forgotten(Here(t), There(t)))
      /\ connections' = [connections EXCEPT ![conns[d].to] = Without(@, conns[d].from)]
      /\ LockMoves(t)
  BY <1>1 DEF RemoveConnection, Goto, LockMoves
<1>3. /\ SameEnds /\ DOMAIN conns' = DOMAIN conns /\ Len(conns') = Len(conns)
      /\ conns' \in Seq([from : Nodes, to : Nodes, open : BOOLEAN])
  BY <1>2, ClosingFacts DEF IInv
<1>4. /\ pc' \in [Tasks -> Places] /\ pc'[t] = "ended" /\ \A u \in Tasks : u # t => pc'[u] = pc[u]
  BY <1>1, <1>2 DEF IInv, Typed, Places
<1>5. /\ PerNode(connections)'
      /\ \A n \in Nodes : DOMAIN connections'[n] =
           IF n = conns[d].to THEN DOMAIN connections[n] \ {conns[d].from} ELSE DOMAIN connections[n]
  BY <1>1, <1>2 DEF IInv, Typed, PerNode, Without, Restrict
<1>6. /\ PerNode(peers_lock)' /\ \A n \in Nodes : Exclusive(peers_lock'[n])
      /\ \A n \in Nodes : \A u \in peers_lock[n].writers : u # t => u \in peers_lock'[n].writers
  BY <1>2, PeersLockFacts DEF IInv
<1>7. Typed'
  <2>1. \A c \in 1..MaxConns : c \notin DOMAIN conns' => pc'[Handler(c)] = "idle"
    <3> SUFFICES ASSUME NEW c \in 1..MaxConns, c \notin DOMAIN conns PROVE pc'[Handler(c)] = "idle"
      BY <1>3
    <3>1. pc[Handler(c)] = "idle" /\ Handler(c) \in Tasks
      BY TaskFacts DEF IInv, Typed
    <3> QED BY <1>2, <1>4, <3>1
  <2> QED BY <1>2, <1>3, <1>4, <1>5, <1>6, <2>1 DEF IInv, Typed, PerNode
<1>8. Cleared'
  <2>1. ASSUME NEW c \in DOMAIN conns', pc'[Handler(c)] = "remove_connection"
        PROVE  /\ c \in DOMAIN conns /\ pc[Handler(c)] = "remove_connection"
               /\ \A n \in Nodes : Handler(c) \in peers_lock[n].writers => Handler(c) \in peers_lock'[n].writers
    <3>1. c \in DOMAIN conns /\ Handler(c) \in Tasks
      BY <1>3, DomainFacts, TaskFacts DEF IInv
    <3>2. Handler(c) # t /\ pc[Handler(c)] = "remove_connection"
      BY <1>4, <2>1, <3>1
    <3> QED BY <1>6, <3>1, <3>2
  <2> QED BY <1>2, <1>3, <2>1, ClearedFrame
<1>9. ListedHaveEntries'
  <2> SUFFICES ASSUME NEW n \in Nodes, NEW m \in DOMAIN peers[n], m \notin DOMAIN connections'[n]
               PROVE  \E u \in Tasks : pc'[u] \in {"next", "insert_connection"} /\ Here(u)' = n /\ There(u)' = m
    BY <1>2 DEF ListedHaveEntries
  <2>1. conns[d].from \notin DOMAIN peers[conns[d].to]
    BY <1>2 DEF IInv, Cleared
  <2>2. m \notin DOMAIN connections[n]
    BY <1>5, <2>1
  <2>3. PICK u \in Tasks : pc[u] \in {"next", "insert_connection"} /\ Here(u) = n /\ There(u) = m
    BY <2>2 DEF IInv, ListedHaveEntries
  <2>4. u # t /\ Here(u)' = Here(u) /\ There(u)' = There(u)
    BY <1>2, <1>3, <2>3, SamePlace DEF IInv
  <2> QED BY <1>4, <2>3, <2>4
<1> QED BY <1>7, <1>8, <1>9 DEF IInv

-----------------------------------------------------------------------------------
LEMMA InvStep == IInv /\ [Next]_vars => IInv'
<1> SUFFICES ASSUME IInv, [Next]_vars PROVE IInv'
  OBVIOUS
<1>1. ASSUME NEW t, Enters(t), Insert(t) PROVE IInv'
  BY <1>1, InsertPeerStep, QuietSteps, InsertConnectionStep DEF Insert
<1>2. ASSUME NEW l \in Links, Connect(l) \/ Dial(l) PROVE IInv'
  <2>1. Enters(Dialler(l))
    BY DEF Enters, Dialers
  <2> QED BY <1>1, <1>2, <2>1, ConnectStep, QuietSteps DEF Dial
<1>3. ASSUME NEW c \in DOMAIN conns, Serve(c) \/ Learn(c) \/ Fail(c) PROVE IInv'
  <2>1. Enters(Handler(c))
    BY DEF Enters
  <2> QED BY <1>1, <1>3, <2>1, QuietSteps, StillSteps, RemovePeerStep, RemoveConnectionStep DEF Serve
<1>4. ASSUME NEW n \in Nodes, Discover(n) PROVE IInv'
  BY <1>4, QuietSteps
<1>5. ASSUME NEW n \in Nodes, NEW m \in Nodes, Disconnect(n, m) PROVE IInv'
  BY <1>5, StillSteps
<1>6. CASE UNCHANGED vars
  BY <1>6, StillSteps
<1> QED BY <1>2, <1>3, <1>4, <1>5, <1>6 DEF Next

\* However connections are entered, cleaned up and disconnected at once, whoever finds a
\* peer in the list finds an entry for it, or one that a task is about to make.
THEOREM ListedAreEntered == Spec => []ListedHaveEntries
<1>1. IInv => ListedHaveEntries
  BY DEF IInv
<1> QED BY <1>1, InvInit, InvStep, PTL DEF Spec

-----------------------------------------------------------------------------------
(***********************************************************************************)
(* Type correctness: what the maps name, and who may name it.                      *)
(***********************************************************************************)
Dialling == {"handshake", "insert_peer", "next", "insert_connection"}

Serving == {"serve", "remove_peer", "remove_connection"}

\* A dialler at work has a connection of its own link.
Dialled ==
  /\ using = [t \in Tasks |-> using[t]]
  /\ \A l \in Links : pc[Dialler(l)] \in Dialling =>
       /\ using[Dialler(l)] \in DOMAIN conns
       /\ conns[using[Dialler(l)]].from = l[1] /\ conns[using[Dialler(l)]].to = l[2]

\* k may stand for m among the connections of n.
Joins(k, n, m) ==
  /\ k \in DOMAIN conns /\ n \in Nodes /\ m \in Nodes
  /\ {conns[k].from, conns[k].to} = {n, m}
  /\ conns[k].to = n => pc[Handler(k)] \in Serving

Entries ==
  \A n \in Nodes :
    /\ peers[n] \in [DOMAIN peers[n] -> DOMAIN conns] /\ DOMAIN peers[n] \subseteq Nodes
    /\ connections[n] = [m \in DOMAIN connections[n] |-> connections[n][m]]
    /\ \A m \in DOMAIN connections[n] : Joins(connections[n][m], n, m)

\* A refresh that waits for the peers has the connections locked.
Refreshing ==
  /\ PerNode(connections_lock)
  /\ \A n \in Nodes :
       /\ Exclusive(connections_lock[n])
       /\ pc[Refresher(n)] = "found" => Refresher(n) \in connections_lock[n].readers

Learned == PerNode(dht) /\ \A n \in Nodes : dht[n] \subseteq Nodes

DataInv == Dialled /\ Entries /\ Refreshing /\ Learned

LEMMA DataInit == Init => DataInv
<1> SUFFICES ASSUME Init PROVE DataInv
  OBVIOUS
<1>1. \A t \in Tasks : pc[t] = "idle"
  BY DEF Init
<1>2. Dialled
  <2>1. \A l \in Links : Dialler(l) \in Tasks
    BY TaskFacts
  <2> QED BY <1>1, <2>1 DEF Init, Dialled, Dialling
<1>3. Entries
  BY DEF Init, Entries
<1>4. Refreshing
  <2>1. \A n \in Nodes : Refresher(n) \in Tasks
    BY TaskFacts
  <2> QED BY <1>1, <2>1 DEF Init, Refreshing, PerNode, Unlocked, Lock, Exclusive
<1>5. Learned
  BY DEF Init, Learned, PerNode
<1> QED BY <1>2, <1>3, <1>4, <1>5 DEF DataInv

LEMMA TypeFollows == IInv /\ DataInv => TypeOK
<1> SUFFICES ASSUME IInv, DataInv PROVE TypeOK
  OBVIOUS
<1>1. \A n \in Nodes : connections[n] \in [DOMAIN connections[n] -> DOMAIN conns]
                       /\ DOMAIN connections[n] \subseteq Nodes
  BY DEF DataInv, Entries, Joins
<1>2. \A n \in Nodes : \A m \in DOMAIN connections[n] :
        /\ {conns[connections[n][m]].from, conns[connections[n][m]].to} = {n, m}
        /\ conns[connections[n][m]].to = n =>
             pc[Handler(connections[n][m])] \in {"serve", "remove_peer", "remove_connection"}
  BY DEF DataInv, Entries, Joins, Serving
<1>3. \A n \in Nodes : peers[n] \in [DOMAIN peers[n] -> DOMAIN conns] /\ DOMAIN peers[n] \subseteq Nodes
  BY DEF DataInv, Entries
<1>4. \A n \in Nodes : Exclusive(peers_lock[n]) /\ Exclusive(connections_lock[n]) /\ dht[n] \subseteq Nodes
  BY DEF IInv, Typed, DataInv, Refreshing, Learned
<1>5. \A n \in Nodes : pc[Refresher(n)] = "found" => Reads(connections_lock[n], Refresher(n))
  BY DEF DataInv, Refreshing, Reads
<1>6. conns \in Seq([from : Nodes, to : Nodes, open : BOOLEAN]) /\ pc \in [Tasks -> Places]
  BY DEF IInv, Typed
<1>7. \A c \in DOMAIN conns : pc[Handler(c)] = "remove_connection" =>
        Writes(peers_lock[conns[c].to], Handler(c))
  BY DEF IInv, Cleared
<1> QED BY <1>1, <1>2, <1>3, <1>4, <1>5, <1>6, <1>7 DEF TypeOK

-----------------------------------------------------------------------------------
\* A step of one task leaves what the others use.
LEMMA DialledFrame ==
  ASSUME IInv, Dialled, SameEnds, NEW t \in Tasks, NEW place, Goto(t, place),
         UNCHANGED using \/ \E v : using' = [using EXCEPT ![t] = v],
         t \in Dialers /\ place \in Dialling => pc[t] \in Dialling /\ UNCHANGED using
  PROVE  Dialled'
<1>1. using' = [u \in Tasks |-> using'[u]] /\ \A u \in Tasks : u # t => using'[u] = using[u]
  BY DEF Dialled
<1>2. pc'[t] = place /\ \A u \in Tasks : u # t => pc'[u] = pc[u]
  BY DEF Goto, IInv, Typed
<1>3. ASSUME NEW l \in Links, pc'[Dialler(l)] \in Dialling
      PROVE  /\ using'[Dialler(l)] \in DOMAIN conns'
             /\ conns'[using'[Dialler(l)]].from = l[1] /\ conns'[using'[Dialler(l)]].to = l[2]
  <2>1. Dialler(l) \in Tasks /\ Dialler(l) \in Dialers
    BY TaskFacts DEF Dialers
  <2>2. pc[Dialler(l)] \in Dialling /\ using'[Dialler(l)] = using[Dialler(l)]
    BY <1>1, <1>2, <1>3, <2>1
  <2>3. /\ using[Dialler(l)] \in DOMAIN conns
        /\ conns[using[Dialler(l)]].from = l[1] /\ conns[using[Dialler(l)]].to = l[2]
    BY <2>2 DEF Dialled
  <2> QED BY <2>2, <2>3 DEF SameEnds
<1> QED BY <1>1, <1>3 DEF Dialled

\* An entry stays good while its task serves.
LEMMA JoinsFrame ==
  ASSUME IInv, SameEnds, NEW k, NEW n, NEW m, Joins(k, n, m),
         pc[Handler(k)] \in Serving => pc'[Handler(k)] \in Serving
  PROVE  Joins(k, n, m)'
BY DEF Joins, SameEnds

LEMMA EntriesFrame ==
  ASSUME IInv, Entries, SameEnds,
         \A n \in Nodes : \/ peers'[n] = peers[n]
                          \/ \E m : peers'[n] = Without(peers[n], m),
         UNCHANGED connections,
         \A k \in DOMAIN conns : pc[Handler(k)] \in Serving => pc'[Handler(k)] \in Serving
  PROVE  Entries'
<1> SUFFICES ASSUME NEW n \in Nodes
             PROVE  /\ peers'[n] \in [DOMAIN peers'[n] -> DOMAIN conns'] /\ DOMAIN peers'[n] \subseteq Nodes
                    /\ connections'[n] = [m \in DOMAIN connections'[n] |-> connections'[n][m]]
                    /\ \A m \in DOMAIN connections'[n] : Joins(connections[n][m], n, m)'
  BY DEF Entries
<1>1. peers[n] \in [DOMAIN peers[n] -> DOMAIN conns] /\ DOMAIN peers[n] \subseteq Nodes
  BY DEF Entries
<1>2. peers'[n] \in [DOMAIN peers'[n] -> DOMAIN conns'] /\ DOMAIN peers'[n] \subseteq Nodes
  BY <1>1 DEF Without, Restrict, SameEnds
<1>3. connections'[n] = [m \in DOMAIN connections'[n] |-> connections'[n][m]]
  BY DEF Entries
<1>4. ASSUME NEW m \in DOMAIN connections'[n] PROVE Joins(connections[n][m], n, m)'
  <2>1. Joins(connections[n][m], n, m)
    BY <1>4 DEF Entries
  <2>2. connections[n][m] \in DOMAIN conns
    BY <2>1 DEF Joins
  <2>4. /\ connections[n][m] \in DOMAIN conns'
        /\ conns'[connections[n][m]].from = conns[connections[n][m]].from
        /\ conns'[connections[n][m]].to = conns[connections[n][m]].to
    BY <2>2 DEF SameEnds
  <2> QED BY <2>1, <2>2, <2>4 DEF Joins
<1> QED BY <1>2, <1>3, <1>4

ConnectionsLockMoves(t) ==
  \/ \E n \in Nodes : \E mode \in {"R", "W"} : AskConnections(t, n, mode)
  \/ \E n \in Nodes : LeaveConnections(t, n)
  \/ UNCHANGED connections_lock

LEMMA ConnectionsLockFacts ==
  ASSUME Refreshing, NEW t, ConnectionsLockMoves(t)
  PROVE  /\ PerNode(connections_lock)'
         /\ \A n \in Nodes : Exclusive(connections_lock'[n])
         /\ \A n \in Nodes : \A u \in connections_lock[n].readers : u # t => u \in connections_lock'[n].readers
<1>1. CASE UNCHANGED connections_lock
  BY <1>1 DEF Refreshing, PerNode
<1>2. ASSUME NEW n \in Nodes, NEW mode \in {"R", "W"}, AskConnections(t, n, mode)
      PROVE  /\ PerNode(connections_lock)'
             /\ \A m \in Nodes : Exclusive(connections_lock'[m])
             /\ \A m \in Nodes : \A u \in connections_lock[m].readers : u # t => u \in connections_lock'[m].readers
  <2>1. /\ Exclusive(Request(connections_lock[n], t, mode))
        /\ connections_lock[n].readers \subseteq Request(connections_lock[n], t, mode).readers
    BY RequestFacts DEF Refreshing
  <2>2. connections_lock' =
          [m \in Nodes |-> IF m = n THEN Request(connections_lock[n], t, mode) ELSE connections_lock[m]]
    BY <1>2 DEF AskConnections, Refreshing, PerNode
  <2> QED BY <2>1, <2>2 DEF Refreshing, PerNode
<1>3. ASSUME NEW n \in Nodes, LeaveConnections(t, n)
      PROVE  /\ PerNode(connections_lock)'
             /\ \A m \in Nodes : Exclusive(connections_lock'[m])
             /\ \A m \in Nodes : \A u \in connections_lock[m].readers : u # t => u \in connections_lock'[m].readers
  <2>1. /\ Exclusive(Leave(connections_lock[n], t))
        /\ connections_lock[n].readers \ {t} \subseteq Leave(connections_lock[n], t).readers
    BY LeaveFacts DEF Refreshing
  <2>2. connections_lock' =
          [m \in Nodes |-> IF m = n THEN Leave(connections_lock[n], t) ELSE connections_lock[m]]
    BY <1>3 DEF LeaveConnections, Refreshing, PerNode
  <2> QED BY <2>1, <2>2 DEF Refreshing, PerNode
<1> QED BY <1>1, <1>2, <1>3 DEF ConnectionsLockMoves

LEMMA RefreshingFrame ==
  ASSUME IInv, Refreshing, NEW t \in Tasks, NEW place, Goto(t, place), ConnectionsLockMoves(t),
         place = "found" => \A n \in Nodes : t = Refresher(n) =>
                              t \in connections_lock[n].readers /\ UNCHANGED connections_lock
  PROVE  Refreshing'
<1>1. /\ PerNode(connections_lock)' /\ \A n \in Nodes : Exclusive(connections_lock'[n])
      /\ \A n \in Nodes : \A u \in connections_lock[n].readers : u # t => u \in connections_lock'[n].readers
  BY ConnectionsLockFacts
<1>2. pc'[t] = place /\ \A u \in Tasks : u # t => pc'[u] = pc[u]
  BY DEF Goto, IInv, Typed
<1>3. ASSUME NEW n \in Nodes, pc'[Refresher(n)] = "found"
      PROVE  Refresher(n) \in connections_lock'[n].readers
  <2>1. CASE Refresher(n) = t
    BY <1>2, <1>3, <2>1
  <2>2. CASE Refresher(n) # t
    <3>1. pc[Refresher(n)] = "found"
      BY <1>2, <1>3, <2>2, TaskFacts
    <3> QED BY <1>1, <2>2, <3>1 DEF Refreshing
  <2> QED BY <2>1, <2>2
<1> QED BY <1>1, <1>3 DEF Refreshing

-----------------------------------------------------------------------------------
\* A step of one task that enters and removes no connection.
LEMMA PlainStep ==
  ASSUME IInv, DataInv, SameEnds, NEW t \in Tasks, NEW place, Goto(t, place),
         UNCHANGED using \/ \E v : using' = [using EXCEPT ![t] = v],
         t \in Dialers /\ place \in Dialling => pc[t] \in Dialling /\ UNCHANGED using,
         UNCHANGED connections,
         \A n \in Nodes : \/ peers'[n] = peers[n]
                          \/ \E m : peers'[n] = Without(peers[n], m),
         pc[t] \in Serving => place \in Serving,
         ConnectionsLockMoves(t),
         place = "found" => \A n \in Nodes : t = Refresher(n) =>
                              t \in connections_lock[n].readers /\ UNCHANGED connections_lock,
         UNCHANGED dht
  PROVE  DataInv'
<1>1. Dialled'
  BY DialledFrame DEF DataInv
<1>2. \A k \in DOMAIN conns : pc[Handler(k)] \in Serving => pc'[Handler(k)] \in Serving
  <2>1. \A k \in DOMAIN conns : Handler(k) \in Tasks
    BY DomainFacts, TaskFacts DEF IInv
  <2> QED BY <2>1 DEF Goto, IInv, Typed
<1>3. Entries'
  BY <1>2, EntriesFrame DEF DataInv
<1>4. Refreshing'
  BY RefreshingFrame DEF DataInv
<1>5. Learned'
  BY DEF DataInv, Learned, PerNode
<1> QED BY <1>1, <1>3, <1>4, <1>5 DEF DataInv

LEMMA DialPlain ==
  ASSUME IInv, DataInv, NEW l \in Links, HandshakeFailed(l) \/ Acknowledged(l)
  PROVE  DataInv'
<1> DEFINE t == Dialler(l)
<1> USE DEF maps, locks
<1>1. t \in Tasks /\ \A n \in Nodes : t # Refresher(n)
  BY TaskFacts DEF Dialers
<1>2. SameEnds /\ UNCHANGED <<connections, peers, connections_lock, dht>>
  BY DEF HandshakeFailed, Acknowledged, SameEnds
<1>3. pc[t] = "handshake"
  BY DEF HandshakeFailed, Acknowledged
<1>4. CASE HandshakeFailed(l)
  <2>1. Goto(t, "idle") /\ using' = [using EXCEPT ![t] = 0]
    BY <1>4 DEF HandshakeFailed
  <2> QED BY <1>1, <1>2, <1>3, <2>1, PlainStep DEF Dialling, Serving, ConnectionsLockMoves
<1>5. CASE Acknowledged(l)
  <2>1. Goto(t, "insert_peer") /\ UNCHANGED using
    BY <1>5 DEF Acknowledged
  <2> QED BY <1>1, <1>2, <1>3, <2>1, PlainStep DEF Dialling, Serving, ConnectionsLockMoves
<1> QED BY <1>4, <1>5

LEMMA ServePlain ==
  ASSUME IInv, DataInv, NEW c \in DOMAIN conns, Accept(c) \/ Closed(c) \/ RemovePeer(c)
  PROVE  DataInv'
<1> DEFINE t == Handler(c)
<1> USE DEF maps, locks
<1>1. /\ c \in 1..MaxConns /\ t \in Tasks /\ t \notin Dialers /\ \A n \in Nodes : t # Refresher(n)
      /\ conns[c].to \in Nodes /\ Here(t) = conns[c].to
  BY TaskFacts, DomainFacts DEF Dialers, IInv
<1>2. SameEnds /\ UNCHANGED <<connections, using, dht>>
  BY DEF Accept, Closed, RemovePeer, SameEnds
<1>3. ConnectionsLockMoves(t)
  BY <1>1 DEF Accept, Closed, RemovePeer, ConnectionsLockMoves
<1>4. CASE Accept(c)
  <2>1. pc[t] = "accept" /\ (Goto(t, "insert_peer") \/ Goto(t, "failed")) /\ UNCHANGED peers
    BY <1>4 DEF Accept
  <2> QED BY <1>1, <1>2, <1>3, <2>1, PlainStep DEF Serving
<1>5. CASE Closed(c)
  <2>1. pc[t] = "serve" /\ Goto(t, "remove_peer") /\ UNCHANGED peers
    BY <1>5 DEF Closed
  <2> QED BY <1>1, <1>2, <1>3, <2>1, PlainStep DEF Serving
<1>6. CASE RemovePeer(c)
  <2>1. pc[t] = "remove_peer" /\ Goto(t, "remove_connection")
    BY <1>6 DEF RemovePeer
  <2>2. \A n \in Nodes : peers'[n] = peers[n] \/ \E m : peers'[n] = Without(peers[n], m)
    BY <1>6 DEF RemovePeer, IInv, Typed, PerNode
  <2> QED BY <1>1, <1>2, <1>3, <2>1, <2>2, PlainStep DEF Serving
<1> QED BY <1>4, <1>5, <1>6

LEMMA DiscoverPlain ==
  ASSUME IInv, DataInv, NEW n \in Nodes, Discover(n)
  PROVE  DataInv'
<1> DEFINE t == Refresher(n)
<1> USE DEF maps, locks
<1>1. t \in Tasks /\ t \notin Dialers
  BY TaskFacts
<1>2. SameEnds /\ UNCHANGED <<connections, peers, dht>>
  BY DEF Discover, Refresh, Find, Found, SendMessage, Sent, SameEnds
<1>3. UNCHANGED using \/ \E v : using' = [using EXCEPT ![t] = v]
  BY DEF Discover, Refresh, Find, Found, SendMessage, Sent
<1>4. pc[t] \notin Serving
  BY DEF Discover, Refresh, Find, Found, SendMessage, Sent, Serving
<1>5. ConnectionsLockMoves(t)
  BY DEF Discover, Refresh, Find, Found, SendMessage, Sent, ConnectionsLockMoves
<1>6. CASE Find(n)
  <2>1. Goto(t, "found") /\ t \in connections_lock[n].readers /\ UNCHANGED connections_lock
    BY <1>6 DEF Find, Reads
  <2>2. \A m \in Nodes : t = Refresher(m) => m = n
    BY DEF Refresher
  <2> QED BY <1>1, <1>2, <1>3, <1>4, <1>5, <2>1, <2>2, PlainStep
<1>7. CASE Refresh(n) \/ Found(n) \/ SendMessage(n) \/ Sent(n)
  <2>1. PICK place \in {"find", "idle", "send", "sending"} : Goto(t, place)
    BY <1>7 DEF Refresh, Found, SendMessage, Sent
  <2> QED BY <1>1, <1>2, <1>3, <1>4, <1>5, <2>1, PlainStep
<1> QED BY <1>6, <1>7 DEF Discover

\* The connection of a task that enters it has the task's node and peer as its ends.
LEMMA EntersConn ==
  ASSUME IInv, DataInv, NEW t, Enters(t), pc[t] \in Dialling
  PROVE  /\ Conn(t) \in DOMAIN conns /\ Here(t) \in Nodes /\ There(t) \in Nodes
         /\ {conns[Conn(t)].from, conns[Conn(t)].to} = {Here(t), There(t)}
         /\ conns[Conn(t)].to = Here(t) => t = Handler(Conn(t))
<1>1. ASSUME NEW c \in DOMAIN conns, t = Handler(c)
      PROVE  /\ Conn(t) \in DOMAIN conns /\ Here(t) \in Nodes /\ There(t) \in Nodes
             /\ {conns[Conn(t)].from, conns[Conn(t)].to} = {Here(t), There(t)}
             /\ conns[Conn(t)].to = Here(t) => t = Handler(Conn(t))
  <2>1. Conn(t) = c
    BY <1>1, TaskFacts, DomainFacts DEF Conn, Handler, IInv
  <2> QED BY <1>1, <2>1, TaskFacts, DomainFacts DEF IInv
<1>2. ASSUME NEW l \in Links, t = Dialler(l)
      PROVE  /\ Conn(t) \in DOMAIN conns /\ Here(t) \in Nodes /\ There(t) \in Nodes
             /\ {conns[Conn(t)].from, conns[Conn(t)].to} = {Here(t), There(t)}
             /\ conns[Conn(t)].to = Here(t) => t = Handler(Conn(t))
  <2>1. /\ t \notin Handlers /\ Here(t) = l[1] /\ There(t) = l[2] /\ l[1] \in Nodes /\ l[2] \in Nodes
    BY <1>2, TaskFacts
  <2>2. Conn(t) = using[t]
    BY <2>1 DEF Conn
  <2>3. using[t] \in DOMAIN conns /\ conns[using[t]].from = l[1] /\ conns[using[t]].to = l[2]
    BY <1>2 DEF DataInv, Dialled
  <2>4. l[1] # l[2]
    BY LinksAssumption
  <2> QED BY <2>1, <2>2, <2>3, <2>4
<1> QED BY <1>1, <1>2 DEF Enters, Dialers

LEMMA EnterPlaces ==
  ASSUME IInv, NEW t, Enters(t), NEW place, Goto(t, place), pc[t] \notin Serving
  PROVE  /\ t \in Tasks /\ \A n \in Nodes : t # Refresher(n)
         /\ \A k \in DOMAIN conns : pc[Handler(k)] \in Serving => pc'[Handler(k)] \in Serving
         /\ pc'[t] = place
<1>1. t \in Tasks
  BY EntersFacts DEF IInv
<1>2. \A n \in Nodes : t # Refresher(n)
  <2>1. \A c \in DOMAIN conns : \A n \in Nodes : Handler(c) # Refresher(n)
    BY DEF Handler, Refresher
  <2>2. \A l \in Links : \A n \in Nodes : Dialler(l) # Refresher(n)
    BY DEF Dialler, Refresher
  <2> QED BY <2>1, <2>2 DEF Enters, Dialers
<1>3. \A k \in DOMAIN conns : Handler(k) \in Tasks
  BY DomainFacts, TaskFacts DEF IInv
<1> QED BY <1>1, <1>2, <1>3 DEF Goto, IInv, Typed

LEMMA InsertPeerData ==
  ASSUME IInv, DataInv, NEW t, Enters(t), InsertPeer(t)
  PROVE  DataInv'
<1> USE DEF maps, locks
<1>1. /\ pc[t] = "insert_peer" /\ Goto(t, "next") /\ UNCHANGED <<conns, connections, connections_lock, dht, using>>
      /\ peers' = [peers EXCEPT ![Here(t)] = Put(@, There(t), Conn(t))]
  BY DEF InsertPeer
<1>2. pc[t] \in Dialling /\ pc[t] \notin Serving /\ SameEnds
  BY <1>1 DEF Dialling, Serving, SameEnds
<1>3. /\ t \in Tasks /\ \A n \in Nodes : t # Refresher(n)
      /\ \A k \in DOMAIN conns : pc[Handler(k)] \in Serving => pc'[Handler(k)] \in Serving
  BY <1>1, <1>2, EnterPlaces
<1>4. Conn(t) \in DOMAIN conns /\ Here(t) \in Nodes /\ There(t) \in Nodes
  BY <1>2, EntersConn
<1>5. Dialled'
  BY <1>1, <1>2, <1>3, DialledFrame DEF DataInv
<1>6. Entries'
  <2> SUFFICES ASSUME NEW n \in Nodes
               PROVE  /\ peers'[n] \in [DOMAIN peers'[n] -> DOMAIN conns] /\ DOMAIN peers'[n] \subseteq Nodes
                      /\ connections[n] = [m \in DOMAIN connections[n] |-> connections[n][m]]
                      /\ \A m \in DOMAIN connections[n] : Joins(connections[n][m], n, m)'
    BY <1>1 DEF Entries, Joins
  <2>1. peers[n] \in [DOMAIN peers[n] -> DOMAIN conns] /\ DOMAIN peers[n] \subseteq Nodes
        /\ connections[n] = [m \in DOMAIN connections[n] |-> connections[n][m]]
        /\ \A m \in DOMAIN connections[n] : Joins(connections[n][m], n, m)
    BY DEF DataInv, Entries
  <2>2. peers'[n] = IF n = Here(t) THEN Put(peers[n], There(t), Conn(t)) ELSE peers[n]
    BY <1>1 DEF IInv, Typed, PerNode
  <2>3. peers'[n] \in [DOMAIN peers'[n] -> DOMAIN conns] /\ DOMAIN peers'[n] \subseteq Nodes
    BY <1>4, <2>1, <2>2 DEF Put
  <2>4. ASSUME NEW m \in DOMAIN connections[n] PROVE Joins(connections[n][m], n, m)'
    BY <1>1, <1>3, <2>1, <2>4 DEF Joins
  <2> QED BY <2>1, <2>3, <2>4
<1>7. Refreshing'
  BY <1>1, <1>3, RefreshingFrame DEF DataInv, ConnectionsLockMoves
<1>8. Learned'
  BY <1>1 DEF DataInv, Learned, PerNode
<1> QED BY <1>5, <1>6, <1>7, <1>8 DEF DataInv

LEMMA NextMapData ==
  ASSUME IInv, DataInv, NEW t, Enters(t), NextMap(t)
  PROVE  DataInv'
<1> USE DEF maps, locks
<1>1. /\ pc[t] = "next" /\ Goto(t, "insert_connection") /\ UNCHANGED <<conns, peers, connections, dht, using>>
      /\ AskConnections(t, Here(t), "W")
  BY DEF NextMap
<1>2. pc[t] \in Dialling /\ pc[t] \notin Serving /\ SameEnds
  BY <1>1 DEF Dialling, Serving, SameEnds
<1>3. t \in Tasks /\ \A n \in Nodes : t # Refresher(n)
  BY <1>1, <1>2, EnterPlaces
<1>4. ConnectionsLockMoves(t)
  BY <1>1, EntersFacts DEF ConnectionsLockMoves, IInv
<1> QED BY <1>1, <1>2, <1>3, <1>4, PlainStep

\* A task changes the connections of its node.
LEMMA InsertConnectionData ==
  ASSUME IInv, DataInv, NEW t, Enters(t), InsertConnection(t)
  PROVE  DataInv'
<1> DEFINE place == IF t \in Handlers THEN "serve" ELSE "idle"
<1> USE DEF maps, locks
<1>1. /\ pc[t] = "insert_connection" /\ Goto(t, place) /\ UNCHANGED <<peers, dht>>
      /\ conns' = Closing(Forgotten(Here(t), There(t)))
      /\ connections' = [connections EXCEPT ![Here(t)] = Put(@, There(t), Conn(t))]
      /\ LeaveConnections(t, Here(t)) /\ using' = [using EXCEPT ![t] = 0]
  BY DEF InsertConnection
<1>2. SameEnds /\ DOMAIN conns' = DOMAIN conns
  BY <1>1, ClosingFacts DEF IInv
<1>3. pc[t] \in Dialling /\ pc[t] \notin Serving
  BY <1>1 DEF Dialling, Serving
<1>4. /\ t \in Tasks /\ \A n \in Nodes : t # Refresher(n)
      /\ \A k \in DOMAIN conns : pc[Handler(k)] \in Serving => pc'[Handler(k)] \in Serving
      /\ pc'[t] = place
  BY <1>1, <1>3, EnterPlaces
<1>5. /\ Conn(t) \in DOMAIN conns /\ Here(t) \in Nodes /\ There(t) \in Nodes
      /\ {conns[Conn(t)].from, conns[Conn(t)].to} = {Here(t), There(t)}
      /\ conns[Conn(t)].to = Here(t) => t = Handler(Conn(t))
  BY <1>3, EntersConn
<1>6. Dialled'
  <2>1. t \in Dialers => place = "idle"
    BY TaskFacts DEF Dialers
  <2> QED BY <1>1, <1>2, <1>4, <2>1, DialledFrame DEF DataInv, Dialling
<1>7. Entries'
  <2> SUFFICES ASSUME NEW n \in Nodes
               PROVE  /\ peers[n] \in [DOMAIN peers[n] -> DOMAIN conns] /\ DOMAIN peers[n] \subseteq Nodes
                      /\ connections'[n] = [m \in DOMAIN connections'[n] |-> connections'[n][m]]
                      /\ \A m \in DOMAIN connections'[n] : \A k : k = connections'[n][m] => Joins(k, n, m)'
    BY <1>1, <1>2 DEF Entries, Joins
  <2>1. /\ peers[n] \in [DOMAIN peers[n] -> DOMAIN conns] /\ DOMAIN peers[n] \subseteq Nodes
        /\ connections[n] = [m \in DOMAIN connections[n] |-> connections[n][m]]
        /\ \A m \in DOMAIN connections[n] : Joins(connections[n][m], n, m)
    BY DEF DataInv, Entries
  <2>2. connections'[n] = IF n = Here(t) THEN Put(connections[n], There(t), Conn(t)) ELSE connections[n]
    BY <1>1 DEF IInv, Typed, PerNode
  <2>3. connections'[n] = [m \in DOMAIN connections'[n] |-> connections'[n][m]]
    BY <2>1, <2>2 DEF Put
  <2>4. ASSUME NEW m \in DOMAIN connections'[n], NEW k, k = connections'[n][m]
        PROVE  Joins(k, n, m)'
    <3>1. CASE n = Here(t) /\ m = There(t)
      <4>1. k = Conn(t)
        BY <2>2, <2>4, <3>1 DEF Put
      <4>2. /\ k \in DOMAIN conns /\ {conns[k].from, conns[k].to} = {n, m}
            /\ conns[k].to = n => t = Handler(k)
        BY <1>5, <3>1, <4>1
      <4>3. conns'[k].from = conns[k].from /\ conns'[k].to = conns[k].to
        BY <1>2, <4>2 DEF SameEnds
      <4>4. conns[k].to = n => pc'[Handler(k)] \in Serving
        <5>1. k \in 1..MaxConns
          BY <4>2, DomainFacts DEF IInv
        <5> QED BY <1>4, <4>2, <5>1, TaskFacts DEF Serving
      <4> QED BY <1>2, <1>5, <3>1, <4>2, <4>3, <4>4 DEF Joins
    <3>2. CASE ~ (n = Here(t) /\ m = There(t))
      <4>1. m \in DOMAIN connections[n] /\ k = connections[n][m]
        BY <2>2, <2>4, <3>2 DEF Put
      <4>2. Joins(k, n, m)
        BY <2>1, <4>1
      <4>3. pc[Handler(k)] \in Serving => pc'[Handler(k)] \in Serving
        BY <1>4, <4>2 DEF Joins
      <4> QED BY <1>2, <4>2, <4>3, JoinsFrame
    <3> QED BY <3>1, <3>2
  <2> QED BY <2>1, <2>3, <2>4
<1>8. Refreshing'
  BY <1>1, <1>4, <1>5, RefreshingFrame DEF DataInv, ConnectionsLockMoves
<1>9. Learned'
  BY <1>1 DEF DataInv, Learned, PerNode
<1> QED BY <1>6, <1>7, <1>8, <1>9 DEF DataInv

\* The task that ends takes its own entry with it, if that is the one.
LEMMA RemoveConnectionData ==
  ASSUME IInv, DataInv, NEW d \in DOMAIN conns, RemoveConnection(d)
  PROVE  DataInv'
<1> DEFINE t == Handler(d)
<1> USE DEF maps, locks
<1>1. /\ d \in 1..MaxConns /\ t \in Tasks /\ Here(t) = conns[d].to /\ There(t) = conns[d].from
      /\ conns[d].to \in Nodes /\ t \notin Dialers /\ \A n \in Nodes : t # Refresher(n)
      /\ \A k \in DOMAIN conns : Handler(k) \in Tasks /\ (Handler(k) = t => k = d)
  BY DomainFacts, TaskFacts DEF IInv, Dialers
<1>2. /\ Goto(t, "ended") /\ UNCHANGED <<peers, dht, using>>
      /\ conns' = Closing(Forgotten(Here(t), There(t)))
      /\ connections' = [connections EXCEPT ![conns[d].to] = Without(@, conns[d].from)]
      /\ LeaveConnections(t, conns[d].to)
  BY <1>1 DEF RemoveConnection
<1>3. SameEnds /\ DOMAIN conns' = DOMAIN conns
  BY <1>2, ClosingFacts DEF IInv
<1>4. Dialled'
  BY <1>1, <1>2, <1>3, DialledFrame DEF DataInv
<1>5. Entries'
  <2> SUFFICES ASSUME NEW n \in Nodes
               PROVE  /\ peers[n] \in [DOMAIN peers[n] -> DOMAIN conns] /\ DOMAIN peers[n] \subseteq Nodes
                      /\ connections'[n] = [m \in DOMAIN connections'[n] |-> connections'[n][m]]
                      /\ \A m \in DOMAIN connections'[n] : \A k : k = connections'[n][m] => Joins(k, n, m)'
    BY <1>2, <1>3 DEF Entries, Joins
  <2>1. /\ peers[n] \in [DOMAIN peers[n] -> DOMAIN conns] /\ DOMAIN peers[n] \subseteq Nodes
        /\ connections[n] = [m \in DOMAIN connections[n] |-> connections[n][m]]
        /\ \A m \in DOMAIN connections[n] : Joins(connections[n][m], n, m)
    BY DEF DataInv, Entries
  <2>2. connections'[n] = IF n = conns[d].to THEN Without(connections[n], conns[d].from) ELSE connections[n]
    BY <1>2 DEF IInv, Typed, PerNode
  <2>3. connections'[n] = [m \in DOMAIN connections'[n] |-> connections'[n][m]]
    BY <2>1, <2>2 DEF Without, Restrict
  <2>4. ASSUME NEW m \in DOMAIN connections'[n], NEW k, k = connections'[n][m]
        PROVE  Joins(k, n, m)'
    <3>1. m \in DOMAIN connections[n] /\ k = connections[n][m] /\ ~ (n = conns[d].to /\ m = conns[d].from)
      BY <2>2, <2>4 DEF Without, Restrict
    <3>2. Joins(k, n, m)
      BY <2>1, <3>1
    <3>3. k \in DOMAIN conns /\ {conns[k].from, conns[k].to} = {n, m}
      BY <3>2 DEF Joins
    <3>4. CASE k = d
      <4>1. conns[k].to # n
        BY <3>1, <3>3, <3>4
      <4>2. conns'[k].from = conns[k].from /\ conns'[k].to = conns[k].to
        BY <1>3, <3>3 DEF SameEnds
      <4> QED BY <1>3, <3>2, <4>1, <4>2 DEF Joins
    <3>5. CASE k # d
      <4>1. pc'[Handler(k)] = pc[Handler(k)]
        BY <1>1, <1>2, <3>3, <3>5 DEF Goto, IInv, Typed
      <4> QED BY <1>3, <3>2, <4>1, JoinsFrame
    <3> QED BY <3>4, <3>5
  <2> QED BY <2>1, <2>3, <2>4
<1>6. Refreshing'
  BY <1>1, <1>2, RefreshingFrame DEF DataInv, ConnectionsLockMoves
<1>7. Learned'
  BY <1>2 DEF DataInv, Learned, PerNode
<1> QED BY <1>4, <1>5, <1>6, <1>7 DEF DataInv

\* A new connection is the dialler's.
LEMMA ConnectData ==
  ASSUME IInv, DataInv, NEW l \in Links, Connect(l)
  PROVE  DataInv'
<1> DEFINE k == Len(conns) + 1
<1> DEFINE R == [from : Nodes, to : Nodes, open : BOOLEAN]
<1> USE DEF maps, locks
<1>1. /\ DOMAIN conns = 1..Len(conns) /\ Len(conns) \in Nat /\ k \in 1..MaxConns
      /\ l[1] \in Nodes /\ l[2] \in Nodes
  BY DomainFacts, TaskFacts, BoundsAssumption DEF IInv, Connect
<1>2. /\ conns' = Append(conns, [from |-> l[1], to |-> l[2], open |-> TRUE])
      /\ conns \in Seq(R) /\ [from |-> l[1], to |-> l[2], open |-> TRUE] \in R
  BY <1>1 DEF Connect, IInv, Typed
<1>3. /\ Len(conns') = k /\ DOMAIN conns' = 1..k /\ SameEnds
      /\ conns'[k] = [from |-> l[1], to |-> l[2], open |-> TRUE]
  BY <1>1, <1>2 DEF SameEnds
<1>4. /\ pc' = [pc EXCEPT ![Dialler(l)] = "handshake", ![Handler(k)] = "accept"]
      /\ using' = [using EXCEPT ![Dialler(l)] = k]
      /\ UNCHANGED <<peers, connections, connections_lock, dht>>
  BY <1>3 DEF Connect
<1>5. /\ pc[Handler(k)] = "idle" /\ Handler(k) \in Tasks /\ Dialler(l) \in Tasks
      /\ \A n \in Nodes : Refresher(n) # Handler(k) /\ Refresher(n) # Dialler(l)
      /\ \A h \in Links : Dialler(h) # Handler(k) /\ (Dialler(h) = Dialler(l) => h = l)
      /\ \A c \in DOMAIN conns : Handler(c) # Handler(k) /\ Handler(c) # Dialler(l) /\ Handler(c) \in Tasks
  <2>1. k \notin DOMAIN conns /\ \A c \in DOMAIN conns : c \in 1..MaxConns /\ c # k
    BY <1>1, DomainFacts DEF IInv
  <2>2. pc[Handler(k)] = "idle"
    BY <1>1, <2>1 DEF IInv, Typed
  <2>3. \A h \in Links : Dialler(h) = Dialler(l) => h = l
    BY DEF Dialler
  <2>4. \A n \in Nodes : Refresher(n) # Handler(k) /\ Refresher(n) # Dialler(l)
    BY DEF Refresher, Handler, Dialler
  <2>5. \A c \in DOMAIN conns : Handler(c) # Handler(k) /\ Handler(c) # Dialler(l) /\ Handler(c) \in Tasks
    BY <1>1, <2>1, TaskFacts
  <2>6. \A h \in Links : Dialler(h) # Handler(k)
    BY <1>1, TaskFacts
  <2> QED BY <1>1, <2>2, <2>3, <2>4, <2>5, <2>6, TaskFacts
<1>6. Dialled'
  <2>1. using' = [t \in Tasks |-> using'[t]] /\ using'[Dialler(l)] = k
        /\ \A t \in Tasks : t # Dialler(l) => using'[t] = using[t]
    BY <1>4, <1>5 DEF DataInv, Dialled
  <2>2. ASSUME NEW h \in Links, pc'[Dialler(h)] \in Dialling
        PROVE  /\ using'[Dialler(h)] \in DOMAIN conns'
               /\ conns'[using'[Dialler(h)]].from = h[1] /\ conns'[using'[Dialler(h)]].to = h[2]
    <3>1. CASE h = l
      BY <1>1, <1>3, <2>1, <3>1
    <3>2. CASE h # l
      <4>1. Dialler(h) \in Tasks /\ Dialler(h) # Dialler(l) /\ Dialler(h) # Handler(k)
        BY <1>5, <3>2, TaskFacts
      <4>2. pc'[Dialler(h)] = pc[Dialler(h)] /\ using'[Dialler(h)] = using[Dialler(h)]
        BY <1>4, <2>1, <4>1 DEF IInv, Typed
      <4>3. /\ using[Dialler(h)] \in DOMAIN conns
            /\ conns[using[Dialler(h)]].from = h[1] /\ conns[using[Dialler(h)]].to = h[2]
        BY <2>2, <4>2 DEF DataInv, Dialled
      <4> QED BY <1>3, <4>2, <4>3 DEF SameEnds
    <3> QED BY <3>1, <3>2
  <2> QED BY <2>1, <2>2 DEF Dialled
<1>7. Entries'
  <2>1. \A c \in DOMAIN conns : pc[Handler(c)] \in Serving => pc'[Handler(c)] \in Serving
    BY <1>4, <1>5 DEF IInv, Typed
  <2> QED BY <1>3, <1>4, <2>1, EntriesFrame DEF DataInv
<1>8. Refreshing'
  <2>1. \A n \in Nodes : pc'[Refresher(n)] = pc[Refresher(n)]
    BY <1>4, <1>5, TaskFacts DEF IInv, Typed
  <2> QED BY <1>4, <2>1 DEF DataInv, Refreshing, PerNode
<1>9. Learned'
  BY <1>4 DEF DataInv, Learned, PerNode
<1> QED BY <1>6, <1>7, <1>8, <1>9 DEF DataInv

\* A step that leaves the tasks where they are.
LEMMA StillData ==
  ASSUME IInv, DataInv, UNCHANGED <<pc, using, connections, connections_lock>>,
         conns' = conns \/ \E S : conns' = Closing(S),
         \A n \in Nodes : \/ peers'[n] = peers[n]
                          \/ \E m : peers'[n] = Without(peers[n], m),
         Learned'
  PROVE  DataInv'
<1>1. SameEnds
  BY ClosingFacts DEF IInv, SameEnds
<1>2. Dialled'
  BY <1>1 DEF DataInv, Dialled, SameEnds
<1>3. Entries'
  BY <1>1, EntriesFrame DEF DataInv
<1>4. Refreshing'
  BY DEF DataInv, Refreshing, PerNode
<1> QED BY <1>2, <1>3, <1>4 DEF DataInv

LEMMA StillDataSteps ==
  ASSUME IInv, DataInv
  PROVE  /\ \A c \in DOMAIN conns : Learn(c) \/ Fail(c) => DataInv'
         /\ \A n, m \in Nodes : Disconnect(n, m) => DataInv'
         /\ UNCHANGED vars => DataInv'
<1> USE DEF maps, locks
<1>1. ASSUME UNCHANGED dht PROVE Learned'
  BY <1>1 DEF DataInv, Learned, PerNode
<1>2. ASSUME NEW c \in DOMAIN conns, Learn(c) PROVE DataInv'
  <2>1. PICK m \in Nodes : dht' = [dht EXCEPT ![conns[c].to] = @ \cup {m}]
    BY <1>2 DEF Learn
  <2>2. Learned'
    BY <2>1 DEF DataInv, Learned, PerNode
  <2> QED BY <1>2, <2>2, StillData DEF Learn
<1>3. ASSUME NEW c \in DOMAIN conns, Fail(c) PROVE DataInv'
  BY <1>1, <1>3, StillData DEF Fail
<1>4. ASSUME NEW n \in Nodes, NEW m \in Nodes, Disconnect(n, m) PROVE DataInv'
  <2>1. \A k \in Nodes : peers'[k] = peers[k] \/ \E j : peers'[k] = Without(peers[k], j)
    BY <1>4 DEF Disconnect, IInv, Typed, PerNode
  <2> QED BY <1>1, <1>4, <2>1, StillData DEF Disconnect
<1>5. UNCHANGED vars => DataInv'
  BY <1>1, StillData DEF vars
<1> QED BY <1>2, <1>3, <1>4, <1>5

LEMMA DataStep == IInv /\ DataInv /\ [Next]_vars => DataInv'
<1> SUFFICES ASSUME IInv, DataInv, [Next]_vars PROVE DataInv'
  OBVIOUS
<1>1. ASSUME NEW t, Enters(t), Insert(t) PROVE DataInv'
  BY <1>1, InsertPeerData, NextMapData, InsertConnectionData DEF Insert
<1>2. ASSUME NEW l \in Links, Connect(l) \/ Dial(l) PROVE DataInv'
  <2>1. Enters(Dialler(l))
    BY DEF Enters, Dialers
  <2> QED BY <1>1, <1>2, <2>1, ConnectData, DialPlain DEF Dial
<1>3. ASSUME NEW c \in DOMAIN conns, Serve(c) \/ Learn(c) \/ Fail(c) PROVE DataInv'
  <2>1. Enters(Handler(c))
    BY DEF Enters
  <2> QED BY <1>1, <1>3, <2>1, ServePlain, StillDataSteps, RemoveConnectionData DEF Serve
<1>4. ASSUME NEW n \in Nodes, Discover(n) PROVE DataInv'
  BY <1>4, DiscoverPlain
<1>5. ASSUME NEW n \in Nodes, NEW m \in Nodes, Disconnect(n, m) PROVE DataInv'
  BY <1>5, StillDataSteps
<1>6. CASE UNCHANGED vars
  BY <1>6, StillDataSteps
<1> QED BY <1>2, <1>3, <1>4, <1>5, <1>6 DEF Next

\* Type correctness: among others, the connection kept for a peer joins the two nodes, an
\* accepted one only as long as a task serves it, and whoever is between the two
\* maps holds the lock it came with.
THEOREM TypeCorrect == Spec => []TypeOK
<1>1. Init => IInv /\ DataInv
  BY InvInit, DataInit
<1>2. IInv /\ DataInv /\ [Next]_vars => (IInv /\ DataInv)'
  BY InvStep, DataStep
<1> QED BY <1>1, <1>2, TypeFollows, PTL DEF Spec
===================================================================================
