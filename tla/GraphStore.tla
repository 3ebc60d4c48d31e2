----------------------------- MODULE GraphStore -----------------------------
(***************************************************************************)
(* The concurrent vertex store of core/dag/src/graph.rs: a DashMap of the  *)
(* vertices, an LRU cache in front of it, a pruning queue behind a lock,   *)
(* and a DashMap of the outgoing edges.  Graph's methods take &self, so    *)
(* any number of threads may be inside them; a step of this module is the  *)
(* work done under one lock acquisition.                                   *)
(*                                                                         *)
(* A vertex is its hash; its payload and its parents never change, so the  *)
(* parents are a constant and only the NodeState is stored.                *)
(***************************************************************************)
EXTENDS Integers, FiniteSets, Sequences, SequencesExt

CONSTANTS Node,        \* the hashes
          Thread,      \* the callers
          Nobody,      \* holder of a free pruning-queue lock
          Parents,     \* [Node -> SUBSET Node]
          Shard,       \* [Node -> shard of the vertex DashMap]
          Given,       \* the states of the nodes that callers add
          Goal,        \* the states callers ask update_node_state for
          MaxVertices, Threshold, CacheDepth,   \* StorageConfig
          MaxOps       \* bound: calls made in a behaviour

NodeState == {"Pending", "Verified", "Final", "Rejected"}
None == "none"

ASSUME GraphStoreAssumption ==
  /\ Nobody \notin Thread \cup Node
  /\ Parents \in [Node -> SUBSET Node]
  /\ DOMAIN Shard = Node
  /\ Given \subseteq NodeState /\ Goal \subseteq NodeState
  /\ MaxVertices \in Nat /\ Threshold \in Nat /\ MaxOps \in Nat
  /\ CacheDepth \in Nat \ {0}

VARIABLES
  vertices,  \* DashMap<Hash, Node>: the state, or None for an absent vertex
  cache,     \* LruCache, most recently used first
  queue,     \* pruning_queue
  qlock,     \* the thread holding pruning_queue.write() across steps
  edges,     \* DashMap<Hash, HashSet<Edge>>: children, for the known keys
  th,        \* where each thread is
  raced,     \* calls that overlapped (not in the code), see Overlapping
  calls      \* calls made so far

vars == <<vertices, cache, queue, qlock, edges, th, raced, calls>>

Stored == {n \in Node : vertices[n] # None}
Size == Cardinality(Stored)

-----------------------------------------------------------------------------
(* Threads.  pc is the next thing a thread does: "idle"; a lookup ("exists",
   "parents", "fetch", "reread", "get"); "full" (the capacity check);
   "prune", "pop", "removing"; "store", "cache", "enqueue"; "entry", "link". *)

Lookups == {"exists", "parents", "fetch", "reread", "get"}
PC == Lookups \cup {"idle", "full", "prune", "pop", "removing",
                    "store", "cache", "enqueue", "entry", "link"}

Call == [pc : PC, op : {"add", "update", "get", "prune"},
         node : Node \cup {Nobody}, state : NodeState,
         todo : SUBSET Node,     \* parents left; or the vertex being removed
         missed : SUBSET Node]   \* looked up in the cache in vain

Idle == [pc |-> "idle", op |-> "get", node |-> Nobody, state |-> "Pending",
         todo |-> {}, missed |-> {}]

TypeOK ==
  /\ vertices \in [Node -> NodeState \cup {None}]
  /\ cache \in Seq([node : Node, state : NodeState])
  /\ Len(cache) <= CacheDepth
  /\ \A i, j \in 1..Len(cache) : cache[i].node = cache[j].node => i = j
  /\ queue \in Seq(Node)
  /\ qlock \in Thread \cup {Nobody}
  /\ DOMAIN edges \subseteq Node
  /\ \A n \in DOMAIN edges : edges[n] \subseteq Node
  /\ th \in [Thread -> Call]
  /\ raced \subseteq SUBSET Node
  /\ calls \in Nat

At(t, where) == th[t].pc = where
Goto(t, where) == th' = [th EXCEPT ![t].pc = where]

-----------------------------------------------------------------------------
(* The LRU cache: get promotes an entry, put replaces or inserts it and
   evicts the least recently used one. *)

Cached(n) == \E i \in 1..Len(cache) : cache[i].node = n

Place(n) == CHOOSE i \in 1..Len(cache) : cache[i].node = n
CachedState(n) == cache[Place(n)].state
Others(n) == IF Cached(n) THEN RemoveAt(cache, Place(n)) ELSE cache

Put(n, s) ==
  <<[node |-> n, state |-> s]>>
    \o IF Len(Others(n)) < CacheDepth THEN Others(n)
       ELSE SubSeq(Others(n), 1, CacheDepth - 1)

-----------------------------------------------------------------------------
(* Entering a call. *)

\* The call of u has yet to put its state where lookups find it.
Replacing(u) ==
  /\ th[u].op \in {"add", "update"}
  /\ th[u].pc \notin {"idle", "enqueue", "entry", "reread", "link"}

Adding(u) == th[u].op = "add" /\ ~At(u, "idle")

\* What a call to op on n overlaps with: {n} for another call that writes n,
\* {n, m} for the adding of m while n is added.
Overlapping(op, n) ==
  {{n} : u \in {u \in Thread : op \in {"add", "update"} /\ Replacing(u) /\ th[u].node = n}}
  \cup {{n, th[u].node} :
          u \in {u \in Thread : op = "add" /\ Adding(u) /\ th[u].node # n}}

Enter(t, op, pc, n, s) ==
  /\ At(t, "idle") /\ calls < MaxOps
  /\ calls' = calls + 1
  /\ th' = [th EXCEPT ![t] = [pc |-> pc, op |-> op, node |-> n, state |-> s,
                              todo |-> {}, missed |-> {}]]
  /\ raced' = raced \cup Overlapping(op, n)
  /\ UNCHANGED <<vertices, cache, queue, qlock, edges>>

AddNode(t) == \E n \in Node, s \in Given : Enter(t, "add", "exists", n, s)
UpdateNodeState(t) ==
  \E n \in Node, s \in Goal : Enter(t, "update", "fetch", n, s)
GetNode(t) == \E n \in Node : Enter(t, "get", "get", n, "Pending")
Prune(t) == Enter(t, "prune", "prune", Nobody, "Pending")

-----------------------------------------------------------------------------
(* VertexStorage::get, and what its caller does with the answer r. *)

Legal(from, to) ==
  <<from, to>> \in {<<"Pending", "Verified">>, <<"Verified", "Final">>,
                    <<"Pending", "Rejected">>, <<"Verified", "Rejected">>}

\* Done with n, the thread goes on at pc, with the parents in todo left.
Onward(t, n, pc, todo) ==
  [th[t] EXCEPT !.pc = pc, !.todo = todo, !.missed = @ \ {n}]

CheckParents(t, n, todo) ==
  Onward(t, n, IF todo = {} THEN "full" ELSE "parents", todo)

AnsweredOne(t, n, r) ==   \* mutant: the first parent found settles the check
  LET me == th[t]
  IN CASE me.pc = "exists" ->
            IF r # None THEN Idle ELSE CheckParents(t, n, Parents[n])
       [] me.pc = "parents" -> IF r = None THEN Idle ELSE CheckParents(t, n, {})
       [] me.pc = "fetch" ->
            IF r # None /\ Legal(r, me.state) THEN Onward(t, n, "full", {}) ELSE Idle
       [] me.pc = "reread" ->
            IF r = None \/ Parents[n] = {} THEN Idle
            ELSE Onward(t, n, "link", Parents[n])
       [] me.pc = "get" -> Idle

Answered(t, n, r) ==
  LET me == th[t]
  IN CASE me.pc = "exists" ->
            IF r # None THEN Idle ELSE CheckParents(t, n, Parents[n])
       [] me.pc = "parents" ->
            IF r = None THEN Idle ELSE CheckParents(t, n, me.todo \ {n})
       [] me.pc = "fetch" ->
            IF r # None /\ Legal(r, me.state) THEN Onward(t, n, "full", {}) ELSE Idle
       [] me.pc = "reread" ->
            IF r = None \/ Parents[n] = {} THEN Idle
            ELSE Onward(t, n, "link", Parents[n])
       [] me.pc = "get" -> Idle

Wanted(t) == IF At(t, "parents") THEN th[t].todo ELSE {th[t].node}

CacheHit(t, n) ==
  /\ n \notin th[t].missed /\ Cached(n)
  /\ cache' = Put(n, CachedState(n))
  /\ th' = [th EXCEPT ![t] = Answered(t, n, CachedState(n))]
  /\ UNCHANGED vertices

CacheMiss(t, n) ==
  /\ n \notin th[t].missed /\ ~Cached(n)
  /\ th' = [th EXCEPT ![t].missed = @ \cup {n}]
  /\ UNCHANGED <<vertices, cache>>

(* The shard guard of vertices.get is held while the cache is filled, so no
   write to the vertex falls between the two. *)
ReadMain(t, n) ==
  /\ n \in th[t].missed
  /\ cache' = IF vertices[n] = None THEN cache ELSE Put(n, vertices[n])
  /\ th' = [th EXCEPT ![t] = Answered(t, n, vertices[n])]
  /\ UNCHANGED vertices

Lookup(t) ==
  /\ th[t].pc \in Lookups
  /\ \E n \in Wanted(t) : CacheHit(t, n) \/ CacheMiss(t, n) \/ ReadMain(t, n)
  /\ UNCHANGED <<queue, qlock, edges, raced, calls>>

-----------------------------------------------------------------------------
(* VertexStorage::insert *)

CheckCapacity(t) ==
  /\ At(t, "full")
  /\ Goto(t, IF Size >= MaxVertices THEN "prune" ELSE "store")
  /\ UNCHANGED <<vertices, cache, queue, qlock, edges, raced, calls>>

(* A thread about to remove a vertex still holds the read guard of its
   shard, and waits there for the write guard: nobody writes to that shard. *)
ShardFree(n) ==
  \A u \in Thread :
    At(u, "removing") => \A m \in th[u].todo : Shard[m] # Shard[n]

WriteBack(t) ==   \* mutant: a cached vertex is written to the cache only
  /\ At(t, "store") /\ ShardFree(th[t].node)
  /\ vertices' = IF Cached(th[t].node) THEN vertices
                 ELSE [vertices EXCEPT ![th[t].node] = th[t].state]
  /\ Goto(t, "cache")
  /\ UNCHANGED <<cache, queue, qlock, edges, raced, calls>>

Store(t) ==
  /\ At(t, "store") /\ ShardFree(th[t].node)
  /\ vertices' = [vertices EXCEPT ![th[t].node] = th[t].state]
  /\ Goto(t, "cache")
  /\ UNCHANGED <<cache, queue, qlock, edges, raced, calls>>

CacheAdded(t) ==   \* mutant: an update does not refresh the cache
  /\ At(t, "cache")
  /\ cache' = IF th[t].op = "add" THEN Put(th[t].node, th[t].state) ELSE cache
  /\ Goto(t, "enqueue")
  /\ UNCHANGED <<vertices, queue, qlock, edges, raced, calls>>

CacheNode(t) ==
  /\ At(t, "cache")
  /\ cache' = Put(th[t].node, th[t].state)
  /\ Goto(t, "enqueue")
  /\ UNCHANGED <<vertices, queue, qlock, edges, raced, calls>>

Enqueue(t) ==
  /\ At(t, "enqueue") /\ qlock = Nobody
  /\ queue' = Append(queue, th[t].node)
  /\ IF th[t].op = "add" THEN Goto(t, "entry")
     ELSE th' = [th EXCEPT ![t] = Idle]
  /\ UNCHANGED <<vertices, cache, qlock, edges, raced, calls>>

-----------------------------------------------------------------------------
(* VertexStorage::prune_old_vertices.  The queue lock is held throughout; the
   vertices are read and written under their own locks, so other threads run
   between the steps.  The number of vertices to remove is at least one and
   the count of the removed ones stays zero, for the reason given at Pop; it
   never ends the loop and is not modelled. *)

Pruned(t) == IF th[t].op = "prune" THEN Idle
             ELSE [th[t] EXCEPT !.pc = "store"]

LockQueue(t) ==
  /\ At(t, "prune") /\ qlock = Nobody
  /\ IF Size <= Threshold
     THEN th' = [th EXCEPT ![t] = Pruned(t)] /\ qlock' = qlock
     ELSE Goto(t, "pop") /\ qlock' = t
  /\ UNCHANGED <<vertices, cache, queue, edges, raced, calls>>

(* `if let Some(node) = self.vertices.get(&hash)` keeps the read guard alive
   over `self.vertices.remove(&hash)`, which wants the write guard of the same
   shard: a thread that gets there takes no further step.  A vertex that is
   not Final has left the queue all the same. *)
Pop(t) ==
  /\ At(t, "pop") /\ queue # <<>>
  /\ queue' = Tail(queue)
  /\ IF vertices[Head(queue)] = "Final"
     THEN th' = [th EXCEPT ![t].pc = "removing", ![t].todo = {Head(queue)}]
     ELSE th' = th
  /\ UNCHANGED <<vertices, cache, qlock, edges, raced, calls>>

LeaveQueue(t) ==   \* mutant: the queue lock leaks
  /\ At(t, "pop") /\ queue = <<>>
  /\ th' = [th EXCEPT ![t] = Pruned(t)]
  /\ UNCHANGED <<vertices, cache, queue, qlock, edges, raced, calls>>

UnlockQueue(t) ==
  /\ At(t, "pop") /\ queue = <<>>
  /\ th' = [th EXCEPT ![t] = Pruned(t)]
  /\ qlock' = Nobody
  /\ UNCHANGED <<vertices, cache, queue, edges, raced, calls>>

-----------------------------------------------------------------------------
(* The edges, at the end of add_node. *)

Entry(t) ==
  /\ At(t, "entry")
  /\ edges' = [n \in DOMAIN edges \cup {th[t].node} |->
                 IF n \in DOMAIN edges THEN edges[n] ELSE {}]
  /\ Goto(t, "reread")
  /\ UNCHANGED <<vertices, cache, queue, qlock, raced, calls>>

(* A parent without an entry gets no edge. *)
Link(t) ==
  /\ At(t, "link")
  /\ \E p \in th[t].todo :
       /\ edges' = [n \in DOMAIN edges |->
                      edges[n] \cup {c \in {th[t].node} : n = p}]
       /\ th' = [th EXCEPT ![t] =
                   IF th[t].todo = {p} THEN Idle
                   ELSE Onward(t, p, "link", th[t].todo \ {p})]
  /\ UNCHANGED <<vertices, cache, queue, qlock, raced, calls>>

-----------------------------------------------------------------------------
Init ==
  /\ vertices = [n \in Node |-> None]
  /\ cache = <<>> /\ queue = <<>> /\ qlock = Nobody
  /\ edges = [n \in {} |-> {}]
  /\ th = [t \in Thread |-> Idle]
  /\ raced = {}
  /\ calls = 0

Begin(t) == AddNode(t) \/ UpdateNodeState(t) \/ GetNode(t) \/ Prune(t)

Inside(t) ==
  \/ Lookup(t)
  \/ CheckCapacity(t) \/ Store(t) \/ CacheNode(t) \/ Enqueue(t)
  \/ LockQueue(t) \/ Pop(t) \/ UnlockQueue(t)
  \/ Entry(t) \/ Link(t)

Next == \E t \in Thread : Begin(t) \/ Inside(t)

Spec == Init /\ [][Next]_vars
FairSpec == Spec /\ \A t \in Thread : WF_vars(Inside(t))

-----------------------------------------------------------------------------
(* Safety. *)

(* A stored vertex has all its parents stored: the check of the parents in
   add_node and the insert are far apart, but nothing ever leaves the store. *)
ParentsPresent == \A n \in Stored : Parents[n] \subseteq Stored

(* An edge joins a stored vertex to one of its stored children. *)
EdgesTrue ==
  \A p \in DOMAIN edges : \A c \in edges[p] :
    p \in Parents[c] /\ {p, c} \subseteq Stored

(* An edge is missing only while the child is being added, or where child and
   parent were added at the same time: then the child may find the parent
   stored before it has an entry (see Link). *)
EdgesComplete ==
  \A c \in Stored : \A p \in Parents[c] :
    \/ p \in DOMAIN edges /\ c \in edges[p]
    \/ \E t \in Thread : Adding(t) /\ th[t].node = c
    \/ {p, c} \in raced

Writing(n) == \E t \in Thread : th[t].node = n
                               /\ th[t].pc \in {"store", "cache"}

(* When no insert of a vertex is under way, a cached copy is the stored one:
   fills by readers, evictions and pruning never leave a stale copy behind.
   Nor do writers, unless two calls that write the vertex have overlapped. *)
CacheCoherent ==
  \A n \in Node :
    {n} \notin raced /\ Cached(n) /\ ~Writing(n) => CachedState(n) = vertices[n]

(* What a lookup would answer now. *)
Visible(n) == IF Cached(n) THEN CachedState(n) ELSE vertices[n]

Later(r, s) ==
  \/ r = s \/ r = None
  \/ r = "Pending" /\ s # None
  \/ r = "Verified" /\ s \in {"Final", "Rejected"}

(* What a lookup answers never goes back, not even between the insert into
   the DashMap and the insert into the cache, or when the cache evicts a newer
   or an older copy, unless two calls that write the vertex have overlapped. *)
AnswersNeverRegress ==
  [][\A n \in Node : {n} \notin raced => Later(Visible(n), Visible(n)')]_vars

(* A Final vertex can still be found by a later prune: it is in the pruning
   queue, unless the update that made it Final has not queued it yet or a
   prune is at it.  Pruning drops the vertices it finds too young, and relies
   on the update to queue them again. *)
FinalIsQueued ==
  \A n \in Stored : vertices[n] = "Final" =>
    \/ \E i \in 1..Len(queue) : queue[i] = n
    \/ \E t \in Thread : th[t].node = n /\ th[t].pc \in {"cache", "enqueue"}
    \/ \E t \in Thread : At(t, "removing") /\ n \in th[t].todo

(* Parents and edges tell the truth about what is stored, whatever calls overlap,
   and all of it unless parent and child were added at once. *)
LinksTrue == ParentsPresent /\ EdgesTrue /\ EdgesComplete

(* What is kept beside the vertices agrees with them: the cache and the
   pruning queue. *)
IndexesAgree == TypeOK /\ CacheCoherent /\ FinalIsQueued

-----------------------------------------------------------------------------
(* Liveness. *)

Stuck(t) == At(t, "removing")

(* Every call returns, whoever holds the pruning queue and the shards, unless
   a prune has met a Final vertex and waits for itself: nothing else in
   add_node, update_node_state, get_node or prune can block for good. *)
CallsReturn == \A t \in Thread : []<>(At(t, "idle") \/ \E u \in Thread : Stuck(u))
=============================================================================
