------------------------------- MODULE NinePServer --------------------------------
(***********************************************************************************)
(* The request handlers of the server: each connection has a task of its own that *)
(* answers one message after the other, a fid table and a consensus DAG that dies *)
(* with it; all connections work on one directory tree.  An action is what a      *)
(* handler does to the tree, or to the DAG, between two points at which another   *)
(* connection can come in.                                                         *)
(*                                                                                 *)
(* A DAG is a map of blocks by id.  The blocks that log requests have no parents, *)
(* one operation, and a time in seconds, so that nothing but their times tells in *)
(* what order they came, and a block whose id is there already takes its place.   *)
(*                                                                                 *)
(* A path is the sequence of its names; "..", "/" in a name and the renaming of   *)
(* the root, which leave the served tree, are not modelled.  Nor are read and     *)
(* stat, which change nothing, the contents and permissions of files, and         *)
(* requests on an unknown fid, which are answered with an error.                  *)
(***********************************************************************************)
EXTENDS Naturals, FiniteSets, SequencesExt, Maps

CONSTANTS
  Connections, Fids, Names,
  MaxDepth,                    \* bound: names in a path
  MaxMessages,                 \* bound: messages handled in a behaviour
  MaxTime,                     \* bound: the system clock, in seconds
  Flat,                        \* path -> what it reads with "_" for "/"
  Nobody,                      \* no handler under way
  Absent                       \* no file, in a replayed namespace

ASSUME BoundsAssumption == MaxDepth \in Nat /\ MaxMessages \in Nat /\ MaxTime \in Nat

Root == <<>>

Paths == UNION {[1..n -> Names] : n \in 0..MaxDepth}

Kinds == {"file", "dir"}

NS == INSTANCE NamespaceOps
        WITH Modes <- Kinds, Translators <- {}, NoTranslator <- "none"

ASSUME NoFileAssumption == Absent \notin NS!FileStates

\* A message that is being handled: what the rest of the handler needs of it.
Requests ==
  [kind : {"Create"}, fid : Fids, path : Paths, mode : Kinds]
    \cup [kind : {"Write", "Remove"}, fid : Fids, path : Paths]
    \cup [kind : {"Wstat"}, fid : Fids, path : Paths, to : Paths]

ASSUME NobodyAssumption == Nobody \notin Requests

VARIABLES
  fs,                          \* the directory tree: existing path -> kind
  fids,                        \* connection -> fid -> path
  dag,                         \* connection -> the blocks it logged
  request,                     \* connection -> the message being handled, or Nobody
  messages,                    \* messages handled so far
  now,                         \* the system clock
  origin,                      \* history: the tree when the connection was accepted
  blurred                      \* history: what the log of a connection cannot explain

tree == <<fs, origin>>
served == <<tree, blurred>>
serverVars == <<served, fids, dag, request, messages, now>>

-----------------------------------------------------------------------------------
Parent(p) == SubSeq(p, 1, Len(p) - 1)

Children(p) == {q \in DOMAIN fs : q # Root /\ Parent(q) = p}

IsDir(p) == p \in DOMAIN fs /\ fs[p] = "dir"

\* create_dir fails on anything that exists; File::create empties an existing file.
CanCreate(p, kind) ==
  /\ p # Root /\ IsDir(Parent(p))
  /\ IF kind = "dir" THEN p \notin DOMAIN fs ELSE ~ IsDir(p)

\* Mutation: a directory is removed with what it contains left behind.
CanRemove_NonEmpty(p) == p \in DOMAIN fs

CanRemove(p) == p \in DOMAIN fs /\ Children(p) = {}

\* rename(2) within one directory.
CanRename(p, q) ==
  /\ p \in DOMAIN fs
  /\ \/ p = q
     \/ q \notin DOMAIN fs
     \/ q \in DOMAIN fs /\ fs[q] = fs[p] /\ Children(q) = {}

Under(p) == {q \in DOMAIN fs : IsPrefix(p, q)}

\* The path r with q in place of its beginning p.
Rebased(r, p, q) == q \o SubSeq(r, Len(p) + 1, Len(r))

\* The tree after a rename: what was at p, and below, is at q, in place of what was there.
Moved(p, q) ==
  LET kept == DOMAIN fs \ (Under(p) \cup {q})
      new  == {Rebased(r, p, q) : r \in Under(p)}
  IN  [r \in kept \cup new |-> IF r \in new THEN fs[Rebased(r, q, p)] ELSE fs[r]]

-----------------------------------------------------------------------------------
ServerInit ==
  /\ fs = [p \in {Root} |-> "dir"]
  /\ fids = [c \in Connections |-> <<>>]
  /\ dag = [c \in Connections |-> {}]
  /\ request = [c \in Connections |-> Nobody]
  /\ messages = 0
  /\ now = 0
  /\ origin = [c \in Connections |-> fs]
  /\ blurred = [c \in Connections |-> {}]

\* A message on a known fid arrives while the connection is not handling another one.
Receives(c, fid) ==
  /\ request[c] = Nobody
  /\ messages < MaxMessages
  /\ messages' = messages + 1
  /\ fid \in DOMAIN fids[c]

Begin(c, r) == request' = [request EXCEPT ![c] = r]

\* The reply, an error included, ends the handling.
Reply(c) == request' = [request EXCEPT ![c] = Nobody]

\* The ids that create, write and wstat draw, each new, and the one that remove makes up.
Uuid(c) == [uuid |-> Cardinality(dag[c]) + 1]

DeleteId(p, fid) == [flat |-> Flat[p], at |-> now, fid |-> fid]

\* A block is added to the DAG; blurred keeps when it takes the place of another.
Logged(c, id, op) ==
  LET others == {b \in dag[c] : b.id # id}
  IN  /\ dag' = [dag EXCEPT ![c] = others \cup {[id |-> id, operation |-> op, timestamp |-> now]}]
      /\ blurred' = [blurred EXCEPT ![c] = @ \cup (IF others = dag[c] THEN {} ELSE {"overwritten"})]

SetFid(c, fid, p) == fids' = [fids EXCEPT ![c] = Put(@, fid, p)]

DropFid(c, fid) == fids' = [fids EXCEPT ![c] = Without(@, fid)]

\* The tree becomes next; why names what makes c's own log insufficient, and the logs
\* of the other connections say nothing of the change.
ChangeTree(c, next, why) ==
  /\ fs' = next
  /\ blurred' = [d \in Connections |->
       IF d = c THEN blurred[d] \cup why
       ELSE IF next # fs THEN blurred[d] \cup {"another_connection"} ELSE blurred[d]]
  /\ UNCHANGED origin

-----------------------------------------------------------------------------------
\* The fid is entered whether or not the root can be looked up.
handle_attach(c, fid) ==
  /\ request[c] = Nobody /\ messages < MaxMessages
  /\ messages' = messages + 1
  /\ SetFid(c, fid, Root)
  /\ Reply(c)
  /\ UNCHANGED <<served, dag>>

\* newfid is entered only if every name is found; the reply does not tell.
handle_walk(c, fid, newfid, names) ==
  LET p == fids[c][fid] \o names
  IN  /\ Receives(c, fid)
      /\ p \in Paths
      /\ IF names = <<>> \/ p \in DOMAIN fs THEN SetFid(c, newfid, p) ELSE UNCHANGED fids
      /\ Reply(c)
      /\ UNCHANGED <<served, dag>>

\* handle_create logs first and touches the tree afterwards ...
handle_create(c, fid, name, kind) ==
  LET p == Append(fids[c][fid], name)
  IN  /\ Receives(c, fid)
      /\ p \in Paths
      /\ Logged(c, Uuid(c), [kind |-> "Create", path |-> p, mode |-> kind])
      /\ Begin(c, [kind |-> "Create", fid |-> fid, path |-> p, mode |-> kind])
      /\ UNCHANGED <<tree, fids>>

Handling(c, kind) == request[c] # Nobody /\ request[c].kind = kind

\* ... where it can fail, with the operation in the log all the same.
CreateOnDisk(c) ==
  LET r == request[c]
  IN  /\ Handling(c, "Create")
      /\ \/ /\ CanCreate(r.path, r.mode)
            /\ ChangeTree(c, Put(fs, r.path, r.mode), {})
            /\ SetFid(c, r.fid, r.path)
            /\ Reply(c)
         \/ /\ ~ CanCreate(r.path, r.mode)
            /\ ChangeTree(c, fs, {"failed_create"})
            /\ Reply(c)
            /\ UNCHANGED fids
      /\ UNCHANGED <<dag, messages>>

\* handle_write opens with create(true), so the file of a stale fid comes back.
handle_write(c, fid) ==
  LET p == fids[c][fid]
  IN  /\ Receives(c, fid)
      /\ \/ /\ p \in DOMAIN fs \/ CanCreate(p, "file")
            /\ ~ IsDir(p)
            /\ ChangeTree(c, Put(fs, p, "file"),
                          IF p \in DOMAIN fs THEN {} ELSE {"created_by_write"})
            /\ Begin(c, [kind |-> "Write", fid |-> fid, path |-> p])
         \/ /\ IsDir(p) \/ (p \notin DOMAIN fs /\ ~ CanCreate(p, "file"))
            /\ Reply(c)
            /\ UNCHANGED served
      /\ UNCHANGED <<fids, dag>>

LogWrite(c) ==
  /\ Handling(c, "Write")
  /\ Logged(c, Uuid(c), [kind |-> "Write", path |-> request[c].path])
  /\ Reply(c)
  /\ UNCHANGED <<tree, fids, messages>>

handle_remove(c, fid) ==
  LET p == fids[c][fid]
  IN  /\ Receives(c, fid)
      /\ \/ /\ CanRemove(p)
            /\ ChangeTree(c, Without(fs, p), {})
            /\ Begin(c, [kind |-> "Remove", fid |-> fid, path |-> p])
         \/ /\ ~ CanRemove(p)
            /\ Reply(c)
            /\ UNCHANGED served
      /\ UNCHANGED <<fids, dag>>

\* Mutation: the removal is not logged.
LogRemove_Forgotten(c) ==
  /\ Handling(c, "Remove")
  /\ DropFid(c, request[c].fid)
  /\ Reply(c)
  /\ UNCHANGED <<served, dag, messages>>

\* The same fid on a path that reads the same, in the same second, gives the same id.
LogRemove(c) ==
  LET r == request[c]
  IN  /\ Handling(c, "Remove")
      /\ Logged(c, DeleteId(r.path, r.fid), [kind |-> "Delete", path |-> r.path])
      /\ DropFid(c, r.fid)
      /\ Reply(c)
      /\ UNCHANGED <<tree, messages>>

\* handle_wstat with a new name.  The fid keeps the old path.
handle_wstat(c, fid, name) ==
  LET p == fids[c][fid]
      q == Append(Parent(p), name)
  IN  /\ Receives(c, fid)
      /\ p # Root
      /\ \/ /\ CanRename(p, q)
            /\ ChangeTree(c, Moved(p, q), IF Children(p) = {} THEN {} ELSE {"moved_directory"})
            /\ Begin(c, [kind |-> "Wstat", fid |-> fid, path |-> p, to |-> q])
         \/ /\ ~ CanRename(p, q)
            /\ Reply(c)
            /\ UNCHANGED served
      /\ UNCHANGED <<fids, dag>>

\* Mutation: the rename is logged the wrong way round.
LogWstat_Swapped(c) ==
  /\ Handling(c, "Wstat")
  /\ Logged(c, Uuid(c), [kind |-> "Rename", from |-> request[c].to, to |-> request[c].path])
  /\ Reply(c)
  /\ UNCHANGED <<tree, fids, messages>>

LogWstat(c) ==
  /\ Handling(c, "Wstat")
  /\ Logged(c, Uuid(c), [kind |-> "Rename", from |-> request[c].path, to |-> request[c].to])
  /\ Reply(c)
  /\ UNCHANGED <<tree, fids, messages>>

\* clunk succeeds on every fid, known or not.
handle_clunk(c, fid) ==
  /\ request[c] = Nobody /\ messages < MaxMessages
  /\ messages' = messages + 1
  /\ DropFid(c, fid)
  /\ Reply(c)
  /\ UNCHANGED <<served, dag>>

\* handle_connection: the connection closes between two messages; the handler, its fid
\* table and its DAG are dropped, and the next connection gets new ones.
Reconnect(c) ==
  /\ request[c] = Nobody
  /\ fids' = [fids EXCEPT ![c] = <<>>]
  /\ dag' = [dag EXCEPT ![c] = {}]
  /\ origin' = [origin EXCEPT ![c] = fs]
  /\ blurred' = [d \in Connections |->
       IF d = c THEN {} ELSE blurred[d] \cup (IF dag[c] = {} THEN {} ELSE {"lost_log"})]
  /\ UNCHANGED <<fs, request, messages>>

\* The system clock goes on, or is set, back perhaps.
SetClock ==
  /\ now' \in 0..MaxTime \ {now}
  /\ blurred' = [c \in Connections |->
       blurred[c] \cup (IF now' < now THEN {"clock_set_back"} ELSE {})]
  /\ UNCHANGED <<tree, fids, dag, request, messages>>

-----------------------------------------------------------------------------------
Message(c, fid) ==
  \/ handle_attach(c, fid) \/ handle_clunk(c, fid)
  \/ handle_write(c, fid) \/ handle_remove(c, fid)
  \/ \E newfid \in Fids, names \in Paths : handle_walk(c, fid, newfid, names)
  \/ \E name \in Names, kind \in Kinds : handle_create(c, fid, name, kind)
  \/ \E name \in Names : handle_wstat(c, fid, name)

Finish(c) == CreateOnDisk(c) \/ LogWrite(c) \/ LogRemove(c) \/ LogWstat(c)

Serves(c) == (\E fid \in Fids : Message(c, fid)) \/ Finish(c) \/ Reconnect(c)

ServerNext ==
  \/ \E c \in Connections : Serves(c) /\ UNCHANGED now
  \/ SetClock

ServerSpec == ServerInit /\ [][ServerNext]_serverVars

-----------------------------------------------------------------------------------
(***********************************************************************************)
(* Properties.                                                                     *)
(***********************************************************************************)
Reasons == {"failed_create", "created_by_write", "moved_directory", "another_connection",
            "lost_log", "overwritten", "clock_set_back"}

Times == 0..MaxTime

Ids == [uuid : Nat] \cup [flat : {Flat[p] : p \in Paths}, at : Times, fid : Fids]

Blocks == [id : Ids, operation : NS!SimpleOps, timestamp : Times]

\* Type invariant; the tree is a tree.
ServerTypeOK ==
  /\ DOMAIN fs \subseteq Paths /\ fs \in [DOMAIN fs -> Kinds]
  /\ \A p \in DOMAIN fs : p # Root => IsDir(Parent(p))
  /\ \A c \in Connections :
       /\ DOMAIN fids[c] \subseteq Fids
       /\ \A f \in DOMAIN fids[c] : fids[c][f] \in Paths
       /\ request[c] \in Requests \cup {Nobody}
       /\ dag[c] \subseteq Blocks /\ Cardinality(dag[c]) <= MaxMessages
  /\ messages \in 0..MaxMessages /\ now \in Times
  /\ blurred \in [Connections -> SUBSET Reasons]

Namespace(files) ==
  [p \in Paths |-> IF p \in DOMAIN files THEN NS!NewFile(files[p]) ELSE Absent]

Tree(ns) == [p \in {q \in Paths : ns[q] # Absent} |-> ns[p].mode]

\* The orders in which blocks may have come, as far as their times tell ...
Orders(B) ==
  {s \in SetToSeqs(B) : \A i, j \in DOMAIN s : i < j => s[i].timestamp <= s[j].timestamp}

\* ... and the operations that a connection logged, in each of these orders.
Logs(c) == {[i \in DOMAIN s |-> s[i].operation] : s \in Orders(dag[c])}

\* Two operations that lead to the same files in either order: a write makes none.
Interchangeable(a, b) == "Write" \in {a.kind, b.kind} \/ ~ NS!conflicts_with(a, b)

\* No two operations that one second holds depend on their order.
SecondsSuffice(c) ==
  \A a, b \in dag[c] :
    a # b /\ a.timestamp = b.timestamp => Interchangeable(a.operation, b.operation)

\* What the log of a connection is worth: between messages, replaying its operations as
\* create_checkpoint would, in any order that their times allow, onto the tree that the
\* connection found gives exactly the tree, whatever it created, wrote, renamed or removed,
\* through whatever fids.  The exceptions are operations of one second that depend on their
\* order, a failed create, a write that revived a file, a directory moved with its contents,
\* a change by another connection, a block overwritten, and a clock set back.
LogExplainsTree ==
  \A c \in Connections :
    request[c] = Nobody /\ blurred[c] = {} /\ SecondsSuffice(c) =>
      \A log \in Logs(c) : Tree(NS!ApplyBlock(Namespace(origin[c]), log)) = fs

\* Two logs merged: the first has the places in I, in its own order, the second the rest.
Interleaving(s, t, I) ==
  [k \in 1..(Len(s) + Len(t)) |->
     IF k \in I THEN s[Cardinality(I \cap 1..k)] ELSE t[Cardinality((1..k) \ I)]]

Interleavings(s, t) ==
  {Interleaving(s, t, I) :
     I \in {J \in SUBSET (1..(Len(s) + Len(t))) : Cardinality(J) = Len(s)}}

\* Two connections on one tree: their logs, each in some order that its times allow, lead
\* to the tree when they are merged in some way, although a create is logged before it is
\* done, everything else after, and nothing orders the handlers of the two.  That the
\* order can be told from the logs is not said.  The exceptions are those of a single log
\* but for the changes by the other connection and the operations of one second.
\* Stated for two connections.
MergedLogsExplainTree ==
  \A c, d \in Connections :
    /\ c # d
    /\ request[c] = Nobody /\ request[d] = Nobody
    /\ origin[c] = origin[d]
    /\ blurred[c] \cup blurred[d] \subseteq {"another_connection"}
    => \E s \in Logs(c), t \in Logs(d) : \E log \in Interleavings(s, t) :
         Tree(NS!ApplyBlock(Namespace(origin[c]), log)) = fs
===================================================================================
