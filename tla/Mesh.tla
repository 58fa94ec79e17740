----------------------------------- MODULE Mesh -----------------------------------
(***********************************************************************************)
(* MeshNetwork (mesh.rs) on several nodes: each dials its bootstrap peers, again   *)
(* and again, and serves the connections dialled to it.  A node lists its peers    *)
(* and keeps its connections in two maps behind a lock each, and the task that     *)
(* serves a connection empties both when the connection closes.                    *)
(*                                                                                 *)
(* A QUIC connection closes when it fails, and when either end has dropped all its *)
(* handles.  The end that dialled keeps its only handle in its map.                *)
(***********************************************************************************)
EXTENDS FairRwLock, Maps

CONSTANTS
  Nodes,
  Links,               \* <<n, m>>: n dials m, a bootstrap peer or given to connect_to_peer
  MaxConns,            \* bound: connections in a behaviour
  MaxCalls             \* bound: disconnections, and replies of foreign nodes

ASSUME LinksAssumption == Links \subseteq {l \in Nodes \X Nodes : l[1] # l[2]}
ASSUME BoundsAssumption == MaxConns \in Nat /\ MaxCalls \in Nat

VARIABLES
  conns,               \* the connections made so far: from, to, open
  peers, connections,  \* per node, maps by peer: the connection that was entered last
  peers_lock, connections_lock,
  dht,                 \* per node, the nodes in its routing table
  pc,                  \* where each task is
  using,               \* a dialler's connection; the node a refresh goes to
  calls

maps == <<peers, connections>>
locks == <<peers_lock, connections_lock>>
vars == <<conns, maps, locks, dht, pc, using, calls>>

Dialler(l) == <<"dial", l>>

Handler(c) == <<"serve", c>>

Refresher(n) == <<"refresh", n>>

Dialers == {Dialler(l) : l \in Links}

Handlers == {Handler(c) : c \in 1..MaxConns}

Refreshers == {Refresher(n) : n \in Nodes}

Tasks == Dialers \cup Handlers \cup Refreshers

Init ==
  /\ conns = <<>>
  /\ peers = [n \in Nodes |-> <<>>] /\ connections = [n \in Nodes |-> <<>>]
  /\ peers_lock = [n \in Nodes |-> Unlocked] /\ connections_lock = [n \in Nodes |-> Unlocked]
  /\ dht = [n \in Nodes |-> {}]
  /\ pc = [t \in Tasks |-> "idle"]
  /\ using = [t \in Tasks |-> 0]
  /\ calls = 0

-----------------------------------------------------------------------------------
Goto(t, place) == pc' = [pc EXCEPT ![t] = place]

\* The connection a task is about, the node it runs on, and the peer there.
Conn(t) == IF t \in Handlers THEN t[2] ELSE using[t]

Here(t) == IF t \in Handlers THEN conns[t[2]].to ELSE t[2][1]

There(t) == IF t \in Handlers THEN conns[t[2]].from ELSE t[2][2]

AskPeers(t, n, mode) == peers_lock' = [peers_lock EXCEPT ![n] = Request(@, t, mode)]

AskConnections(t, n, mode) ==
  connections_lock' = [connections_lock EXCEPT ![n] = Request(@, t, mode)]

LeavePeers(t, n) == peers_lock' = [peers_lock EXCEPT ![n] = Leave(@, t)]

LeaveConnections(t, n) == connections_lock' = [connections_lock EXCEPT ![n] = Leave(@, t)]

\* The connections that n does not keep any more when its entry for m goes: the dialled
\* one had no other handle.
Forgotten(n, m) ==
  {c \in DOMAIN conns : conns[c].from = n /\ m \in DOMAIN connections[n] /\ connections[n][m] = c}

Closing(S) == [c \in DOMAIN conns |-> IF c \in S THEN [conns[c] EXCEPT !.open = FALSE] ELSE conns[c]]

-----------------------------------------------------------------------------------
(***********************************************************************************)
(* Dialling: every 30 s, whether or not there is a connection already.             *)
(***********************************************************************************)
Connect(l) ==
  /\ pc[Dialler(l)] = "idle" /\ Len(conns) < MaxConns
  /\ conns' = Append(conns, [from |-> l[1], to |-> l[2], open |-> TRUE])
  /\ using' = [using EXCEPT ![Dialler(l)] = Len(conns')]
  /\ pc' = [pc EXCEPT ![Dialler(l)] = "handshake", ![Handler(Len(conns'))] = "accept"]
  /\ UNCHANGED <<maps, locks, dht, calls>>

HandshakeFailed(l) ==
  LET t == Dialler(l)
  IN  /\ pc[t] = "handshake" /\ ~ conns[using[t]].open
      /\ Goto(t, "idle")
      /\ using' = [using EXCEPT ![t] = 0]
      /\ UNCHANGED <<conns, maps, locks, dht, calls>>

\* The acknowledgement has come.
Acknowledged(l) ==
  LET t == Dialler(l)
  IN  /\ pc[t] = "handshake" /\ pc[Handler(using[t])] \notin {"accept", "failed"}
      /\ Goto(t, "insert_peer")
      /\ AskPeers(t, l[1], "W")
      /\ UNCHANGED <<conns, maps, connections_lock, dht, using, calls>>

-----------------------------------------------------------------------------------
(***********************************************************************************)
(* handle_incoming_connection.                                                     *)
(***********************************************************************************)
\* The handshake is acknowledged, unless the connection has closed.
Accept(c) ==
  LET t == Handler(c)
  IN  /\ pc[t] = "accept"
      /\ IF conns[c].open THEN Goto(t, "insert_peer") /\ AskPeers(t, conns[c].to, "W")
         ELSE Goto(t, "failed") /\ UNCHANGED peers_lock
      /\ UNCHANGED <<conns, maps, connections_lock, dht, using, calls>>

\* Both ends enter the peer and then the connection.
InsertPeer(t) ==
  /\ pc[t] = "insert_peer" /\ Writes(peers_lock[Here(t)], t)
  /\ peers' = [peers EXCEPT ![Here(t)] = Put(@, There(t), Conn(t))]
  /\ LeavePeers(t, Here(t))
  /\ Goto(t, "next")
  /\ UNCHANGED <<conns, connections, connections_lock, dht, using, calls>>

NextMap(t) ==
  /\ pc[t] = "next"
  /\ AskConnections(t, Here(t), "W")
  /\ Goto(t, "insert_connection")
  /\ UNCHANGED <<conns, maps, peers_lock, dht, using, calls>>

InsertConnection(t) ==
  /\ pc[t] = "insert_connection" /\ Writes(connections_lock[Here(t)], t)
  /\ conns' = Closing(Forgotten(Here(t), There(t)))
  /\ connections' = [connections EXCEPT ![Here(t)] = Put(@, There(t), Conn(t))]
  /\ LeaveConnections(t, Here(t))
  /\ Goto(t, IF t \in Handlers THEN "serve" ELSE "idle")
  /\ using' = [using EXCEPT ![t] = 0]
  /\ UNCHANGED <<peers, peers_lock, dht, calls>>

\* A FindNodeReply sent as a request.  The nodes of this program answer FindNode on the
\* stream of the question, where it is not read: it takes a node of another program.
\* (Itself a node does not find among its peers, and need not learn of.)
Learn(c) ==
  /\ pc[Handler(c)] = "serve" /\ conns[c].open /\ calls < MaxCalls
  /\ calls' = calls + 1
  /\ \E m \in Nodes \ {conns[c].to} : dht' = [dht EXCEPT ![conns[c].to] = @ \cup {m}]
  /\ UNCHANGED <<conns, maps, locks, pc, using>>

\* The connection has closed.
Closed(c) ==
  LET t == Handler(c)
  IN  /\ pc[t] = "serve" /\ ~ conns[c].open
      /\ AskPeers(t, conns[c].to, "W")
      /\ Goto(t, "remove_peer")
      /\ UNCHANGED <<conns, maps, connections_lock, dht, using, calls>>

\* Mutation: the peers are unlocked before the connections are locked.
RemovePeer_Unlocked(c) ==
  LET t == Handler(c)
  IN  \/ /\ pc[t] = "remove_peer" /\ Writes(peers_lock[Here(t)], t)
         /\ peers' = [peers EXCEPT ![Here(t)] = Without(@, There(t))]
         /\ LeavePeers(t, Here(t))
         /\ Goto(t, "removed")
         /\ UNCHANGED <<conns, connections, connections_lock, dht, using, calls>>
      \/ /\ pc[t] = "removed"
         /\ AskConnections(t, Here(t), "W")
         /\ Goto(t, "remove_connection")
         /\ UNCHANGED <<conns, maps, peers_lock, dht, using, calls>>

\* The peer and the connection entered for it are removed, whichever they are by now,
\* the peers being locked until the end.
RemovePeer(c) ==
  LET t == Handler(c)
  IN  /\ pc[t] = "remove_peer" /\ Writes(peers_lock[Here(t)], t)
      /\ peers' = [peers EXCEPT ![Here(t)] = Without(@, There(t))]
      /\ AskConnections(t, Here(t), "W")
      /\ Goto(t, "remove_connection")
      /\ UNCHANGED <<conns, connections, peers_lock, dht, using, calls>>

\* Mutation: the connection is left to the next one to replace.
RemoveConnection_Left(c) ==
  LET t == Handler(c)
  IN  /\ pc[t] = "remove_connection" /\ Writes(connections_lock[Here(t)], t)
      /\ LeavePeers(t, Here(t)) /\ LeaveConnections(t, Here(t))
      /\ Goto(t, "ended")
      /\ UNCHANGED <<conns, peers, connections, dht, using, calls>>

RemoveConnection(c) ==
  LET t == Handler(c)
  IN  /\ pc[t] = "remove_connection" /\ Writes(connections_lock[Here(t)], t)
      /\ conns' = Closing(Forgotten(Here(t), There(t)))
      /\ connections' = [connections EXCEPT ![Here(t)] = Without(@, There(t))]
      /\ LeavePeers(t, Here(t)) /\ LeaveConnections(t, Here(t))
      /\ Goto(t, "ended")
      /\ UNCHANGED <<peers, dht, using, calls>>

-----------------------------------------------------------------------------------
(***********************************************************************************)
(* run_dht_discovery: every 60 s, for a few nodes of the routing table.            *)
(***********************************************************************************)
Refresh(n) ==
  LET t == Refresher(n)
  IN  /\ pc[t] = "idle"
      /\ \E m \in dht[n] : using' = [using EXCEPT ![t] = m]
      /\ AskConnections(t, n, "R")
      /\ Goto(t, "find")
      /\ UNCHANGED <<conns, maps, peers_lock, dht, calls>>

\* The connections stay locked while the peers are waited for ...
Find(n) ==
  LET t == Refresher(n)
  IN  /\ pc[t] = "find" /\ Reads(connections_lock[n], t)
      /\ AskPeers(t, n, "R")
      /\ Goto(t, "found")
      /\ UNCHANGED <<conns, maps, connections_lock, dht, using, calls>>

\* ... and only then the peer with that address is looked up, and sent a FindNode.
Found(n) ==
  LET t == Refresher(n)
  IN  /\ pc[t] = "found" /\ Reads(peers_lock[n], t)
      /\ LeavePeers(t, n) /\ LeaveConnections(t, n)
      /\ IF using[t] \in DOMAIN peers[n] THEN Goto(t, "send") /\ UNCHANGED using
         ELSE Goto(t, "idle") /\ using' = [using EXCEPT ![t] = 0]
      /\ UNCHANGED <<conns, maps, dht, calls>>

\* send_message_to_peer, with the connections locked until the message is sent.
SendMessage(n) ==
  LET t == Refresher(n)
  IN  /\ pc[t] = "send"
      /\ AskConnections(t, n, "R")
      /\ Goto(t, "sending")
      /\ UNCHANGED <<conns, maps, peers_lock, dht, using, calls>>

\* Mutation: sending waits for ever when the connection has closed.
Sent_OpenOnly(n) ==
  LET t == Refresher(n)
  IN  /\ pc[t] = "sending" /\ Reads(connections_lock[n], t)
      /\ using[t] \in DOMAIN connections[n] => conns[connections[n][using[t]]].open
      /\ LeaveConnections(t, n)
      /\ Goto(t, "idle")
      /\ using' = [using EXCEPT ![t] = 0]
      /\ UNCHANGED <<conns, maps, peers_lock, dht, calls>>

Sent(n) ==
  LET t == Refresher(n)
  IN  /\ pc[t] = "sending" /\ Reads(connections_lock[n], t)
      /\ LeaveConnections(t, n)
      /\ Goto(t, "idle")
      /\ using' = [using EXCEPT ![t] = 0]
      /\ UNCHANGED <<conns, maps, peers_lock, dht, calls>>

-----------------------------------------------------------------------------------
\* disconnect_peer: only the list of peers is changed.
Disconnect(n, m) ==
  /\ calls < MaxCalls /\ calls' = calls + 1
  /\ peers_lock[n] = Unlocked /\ m \in DOMAIN peers[n]
  /\ peers' = [peers EXCEPT ![n] = Without(@, m)]
  /\ UNCHANGED <<conns, connections, locks, dht, pc, using>>

\* A connection fails, or has been idle for 60 s.  A stream that cannot be read ends the
\* serving task too; as its handle goes with the task, that is a failure as well.
Fail(c) ==
  /\ conns[c].open
  /\ conns' = Closing({c})
  /\ UNCHANGED <<maps, locks, dht, pc, using, calls>>

Insert(t) == InsertPeer(t) \/ NextMap(t) \/ InsertConnection(t)

Dial(l) == HandshakeFailed(l) \/ Acknowledged(l) \/ Insert(Dialler(l))

Serve(c) == Accept(c) \/ Insert(Handler(c)) \/ Closed(c) \/ RemovePeer(c) \/ RemoveConnection(c)

Discover(n) == Refresh(n) \/ Find(n) \/ Found(n) \/ SendMessage(n) \/ Sent(n)

Next ==
  \/ \E l \in Links : Connect(l) \/ Dial(l)
  \/ \E c \in DOMAIN conns : Serve(c) \/ Learn(c) \/ Fail(c)
  \/ \E n \in Nodes : Discover(n)
  \/ \E n, m \in Nodes : Disconnect(n, m)

\* The runtime polls what is ready; sending on a connection ends, if with an error.
Spec ==
  /\ Init /\ [][Next]_vars
  /\ \A l \in Links : WF_vars(Dial(l))
  /\ \A c \in 1..MaxConns : WF_vars(c \in DOMAIN conns /\ Serve(c))
  /\ \A n \in Nodes : WF_vars(Discover(n))

-----------------------------------------------------------------------------------
(***********************************************************************************)
(* Properties.                                                                     *)
(***********************************************************************************)
Places == {"idle", "handshake", "accept", "failed", "insert_peer", "next", "insert_connection", "serve",
           "remove_peer", "remove_connection", "ended", "find", "found", "send", "sending"}

\* Type invariant, with the lock discipline, and an accepted connection is kept only as
\* long as a task serves it.
TypeOK ==
  /\ conns \in Seq([from : Nodes, to : Nodes, open : BOOLEAN])
  /\ \A n \in Nodes :
       /\ peers[n] \in [DOMAIN peers[n] -> DOMAIN conns] /\ DOMAIN peers[n] \subseteq Nodes
       /\ connections[n] \in [DOMAIN connections[n] -> DOMAIN conns]
       /\ DOMAIN connections[n] \subseteq Nodes
       /\ Exclusive(peers_lock[n]) /\ Exclusive(connections_lock[n])
       /\ \A m \in DOMAIN connections[n] :
            LET c == conns[connections[n][m]]
            IN  /\ {c.from, c.to} = {n, m}
                /\ c.to = n => pc[Handler(connections[n][m])] \in {"serve", "remove_peer", "remove_connection"}
       /\ dht[n] \subseteq Nodes
  /\ pc \in [Tasks -> Places]
  /\ \A c \in DOMAIN conns : pc[Handler(c)] = "remove_connection" =>
       Writes(peers_lock[conns[c].to], Handler(c))
  /\ \A n \in Nodes : pc[Refresher(n)] = "found" => Reads(connections_lock[n], Refresher(n))

\* A peer that is listed has an entry among the connections, or is about to: whoever finds
\* it in the list finds a connection to try, although old connections of the same peer are
\* cleaned up while new ones are entered.  That it is open is not said: the end that
\* dialled a connection never removes its entry, so that may be closed for good.
ListedHaveEntries ==
  \A n \in Nodes : \A m \in DOMAIN peers[n] :
    \/ m \in DOMAIN connections[n]
    \/ \E t \in Tasks : pc[t] \in {"next", "insert_connection"} /\ Here(t) = n /\ There(t) = m

\* A refresh and the clean-up of a connection wait for each other, for ever.
Deadlocked(n) ==
  /\ pc[Refresher(n)] = "found" /\ ~ Reads(peers_lock[n], Refresher(n))
  /\ \E c \in DOMAIN conns : conns[c].to = n /\ pc[Handler(c)] = "remove_connection"

\* The task of a connection that has closed ends, unless its node comes to that deadlock.
CleanupEnds ==
  \A c \in 1..MaxConns :
    pc[Handler(c)] = "remove_peer" ~>
      (pc[Handler(c)] = "ended" \/ (c \in DOMAIN conns /\ Deadlocked(conns[c].to)))

\* What the file /srv/mesh/peers is documented to list: the peers that are connected.
\* The code does not keep this, as the task of an old connection removes the entry of a
\* new one, and disconnect_peer leaves the connection; no run checks it.
ConnectedAreListed ==
  \A c \in DOMAIN conns :
    conns[c].open /\ pc[Handler(c)] = "serve" => conns[c].from \in DOMAIN peers[conns[c].to]
===================================================================================
