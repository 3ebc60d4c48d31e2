-------------------------- MODULE GraphStoreProofs --------------------------
(***************************************************************************)
(* Proofs about GraphStore, for any vertices, callers, shards, capacities  *)
(* and any number of overlapping calls: the parents of a stored vertex are *)
(* stored, edges join stored vertices to their children, and an edge is    *)
(* missing only where parent and child were added at once; the cache and   *)
(* the pruning queue agree with the store and no answer is older than one  *)
(* before it, but for the vertices two overlapping calls have written.     *)
(***************************************************************************)
EXTENDS GraphStore, SequenceTheorems, TLAPS

\* What put leaves in the cache comes from what was there and what is put.
LEMMA PutKeeps ==
  ASSUME GraphStoreAssumption, NEW E, cache \in Seq(E),
         NEW n, NEW s, [node |-> n, state |-> s] \in E
  PROVE  Put(n, s) \in Seq(E)
<1> DEFINE new == <<[node |-> n, state |-> s]>>
           old == Others(n)
           rest == IF Len(old) < CacheDepth THEN old ELSE SubSeq(old, 1, CacheDepth - 1)
<1>1. old \in Seq(E)
  <2>1. CASE ~Cached(n)
    BY <2>1 DEF Others
  <2>2. CASE Cached(n)
    <3> DEFINE k == Place(n)
    <3>1. k \in 1..Len(cache)
      BY <2>2 DEF Cached, Place
    <3>2. old = SubSeq(cache, 1, k - 1) \o SubSeq(cache, k + 1, Len(cache))
      BY <2>2 DEF Others, RemoveAt
    <3> HIDE DEF k
    <3>3. SubSeq(cache, 1, k - 1) \in Seq(E) /\ SubSeq(cache, k + 1, Len(cache)) \in Seq(E)
      BY <3>1
    <3> QED BY <3>2, <3>3, ConcatProperties
  <2> QED BY <2>1, <2>2
<1>2. new \in Seq(E)
  OBVIOUS
<1>3. Put(n, s) = new \o rest
  BY DEF Put
<1> HIDE DEF new, old
<1>4. rest \in Seq(E)
  BY <1>1 DEF GraphStoreAssumption
<1> HIDE DEF rest
<1> QED BY <1>2, <1>3, <1>4, ConcatProperties

-----------------------------------------------------------------------------
(* The inductive invariant.  What a call knows: once add_node is past its
   check, the parents it checked are stored, and stay so. *)

Checked == {"full", "prune", "pop", "removing",
            "store", "cache", "enqueue", "entry", "reread", "link"}

Knows(c, stored) ==
  /\ c.pc \in {"exists", "parents", "entry", "reread", "link"} => c.op = "add"
  /\ c.pc = "fetch" => c.op = "update"
  /\ c.pc = "get" => c.op = "get"
  /\ c.pc \in Checked => c.op # "get"
  /\ c.pc \in {"full", "store", "cache", "enqueue"} => c.op # "prune"
  /\ c.pc # "idle" /\ c.op # "prune" => c.node \in Node
  /\ c.pc = "parents" => Parents[c.node] \ c.todo \subseteq stored
  /\ c.pc \in Checked /\ c.op = "add" => Parents[c.node] \subseteq stored
  /\ c.pc \in Checked /\ c.op = "update" => c.node \in stored
  /\ c.pc \in {"cache", "enqueue", "entry", "reread", "link"} => c.node \in stored
  /\ c.pc = "link" => c.todo \subseteq Parents[c.node]

IInv ==
  /\ vertices \in [Node -> NodeState \cup {None}]
  /\ cache \in Seq([node : Stored, state : NodeState])
  /\ queue \in Seq(Node)
  /\ DOMAIN edges \subseteq Node
  /\ \A n \in DOMAIN edges : edges[n] \subseteq Node
  /\ th \in [Thread -> Call]
  /\ \A t \in Thread : Knows(th[t], Stored)
  /\ ParentsPresent
  /\ EdgesTrue

LEMMA KnowsMore ==
  ASSUME NEW c, NEW S, NEW T, Knows(c, S), S \subseteq T
  PROVE  Knows(c, T)
BY DEF Knows

\* A step of t that stores no vertex or one whose parents are stored, that
\* caches stored vertices only and leaves the edges alone.
LEMMA PlainStep ==
  ASSUME IInv, NEW t \in Thread, NEW c \in Call,
         th' = [th EXCEPT ![t] = c],
         Knows(c, Stored'),
         vertices' \in [Node -> NodeState \cup {None}],
         Stored \subseteq Stored',
         \A n \in Stored' \ Stored : Parents[n] \subseteq Stored,
         cache' \in Seq([node : Stored', state : NodeState]),
         queue' \in Seq(Node),
         edges' = edges
  PROVE  IInv'
<1>1. th' \in [Thread -> Call]
  BY DEF IInv
<1>2. \A u \in Thread : Knows(th'[u], Stored')
  <2> TAKE u \in Thread
  <2>1. CASE u = t
    BY <2>1 DEF IInv
  <2>2. CASE u # t
    <3>1. th'[u] = th[u] /\ Knows(th[u], Stored)
      BY <2>2 DEF IInv
    <3> QED BY <3>1, KnowsMore
  <2> QED BY <2>1, <2>2
<1>3. ParentsPresent'
  BY DEF IInv, ParentsPresent
<1>4. EdgesTrue'
  BY DEF IInv, EdgesTrue
<1>5. DOMAIN edges' \subseteq Node /\ \A n \in DOMAIN edges' : edges'[n] \subseteq Node
  BY DEF IInv
<1> QED BY <1>1, <1>2, <1>3, <1>4, <1>5 DEF IInv

\* The same for a step that leaves all the vertices alone.
LEMMA QuietStep ==
  ASSUME IInv, NEW t \in Thread, NEW c \in Call,
         th' = [th EXCEPT ![t] = c], Knows(c, Stored),
         vertices' = vertices, edges' = edges,
         cache' \in Seq([node : Stored, state : NodeState]),
         queue' \in Seq(Node)
  PROVE  IInv'
<1>1. Stored' = Stored
  BY DEF Stored
<1> QED BY <1>1, PlainStep DEF IInv

-----------------------------------------------------------------------------
LEMMA IdleIsCall == Idle \in Call /\ \A S : Knows(Idle, S)
BY DEF Idle, Call, PC, NodeState, Knows, Checked

LEMMA InitInv == ASSUME GraphStoreAssumption, Init PROVE IInv
<1>1. Stored = {}
  BY DEF Init, Stored
<1> QED BY <1>1, IdleIsCall DEF Init, IInv, ParentsPresent, EdgesTrue, NodeState, None

LEMMA EnterInv ==
  ASSUME GraphStoreAssumption, IInv, NEW t \in Thread, Begin(t)
  PROVE  IInv'
<1> USE DEF IInv
<1>1. ASSUME NEW op, NEW pc, NEW n, NEW s \in NodeState, Enter(t, op, pc, n, s),
             \/ pc \in {"exists", "fetch", "get"} /\ n \in Node
                /\ <<op, pc>> \in {<<"add", "exists">>, <<"update", "fetch">>, <<"get", "get">>}
             \/ pc = "prune" /\ op = "prune" /\ n = Nobody
      PROVE  IInv'
  <2> DEFINE c == [pc |-> pc, op |-> op, node |-> n, state |-> s, todo |-> {}, missed |-> {}]
  <2>1. th' = [th EXCEPT ![t] = c]
    BY <1>1 DEF Enter
  <2>2. c \in Call
    BY <1>1 DEF Call, PC, Lookups
  <2>3. Knows(c, Stored)
    BY <1>1 DEF Knows, Checked
  <2> HIDE DEF c
  <2> QED BY <1>1, <2>1, <2>2, <2>3, QuietStep DEF Enter
<1>2. CASE AddNode(t)
  BY <1>1, <1>2 DEF AddNode, GraphStoreAssumption, NodeState
<1>3. CASE UpdateNodeState(t)
  BY <1>1, <1>3 DEF UpdateNodeState, GraphStoreAssumption
<1>4. CASE GetNode(t)
  BY <1>1, <1>4 DEF GetNode, NodeState
<1>5. CASE Prune(t)
  BY <1>1, <1>5 DEF Prune, NodeState
<1> QED BY <1>2, <1>3, <1>4, <1>5 DEF Begin

-----------------------------------------------------------------------------
\* An answer leaves the thread with what it knew, and with n if it is found.
LEMMA AnsweredKnows ==
  ASSUME GraphStoreAssumption, IInv, NEW t \in Thread, th[t].pc \in Lookups,
         NEW n \in Wanted(t), NEW r, r # None => n \in Stored
  PROVE  Answered(t, n, r) \in Call /\ Knows(Answered(t, n, r), Stored)
<1> DEFINE c == th[t]
<1>1. c \in Call /\ Knows(c, Stored)
  BY DEF IInv
<1>2. n \in Node
  BY <1>1 DEF Wanted, At, Knows, Lookups, Call
<1>3. ASSUME NEW pc \in PC, NEW todo \in SUBSET Node
      PROVE  /\ Onward(t, n, pc, todo) \in Call
             /\ Onward(t, n, pc, todo).pc = pc
             /\ Onward(t, n, pc, todo).todo = todo
             /\ Onward(t, n, pc, todo).op = c.op
             /\ Onward(t, n, pc, todo).node = c.node
  BY <1>1 DEF Onward, Call
<1>4. ASSUME NEW todo \in SUBSET Node, c.op = "add", c.node \in Node,
             Parents[c.node] \ todo \subseteq Stored
      PROVE  CheckParents(t, n, todo) \in Call /\ Knows(CheckParents(t, n, todo), Stored)
  <2> DEFINE d == CheckParents(t, n, todo)
             pc == IF todo = {} THEN "full" ELSE "parents"
  <2>1. /\ d \in Call /\ d.pc = pc /\ d.todo = todo
        /\ d.op = "add" /\ d.node = c.node
    BY <1>3, <1>4 DEF CheckParents, PC, Lookups
  <2> HIDE DEF d
  <2>2. Knows(d, Stored)
    BY <1>4, <2>1 DEF Knows, Checked
  <2> QED BY <2>1, <2>2 DEF d
<1> HIDE DEF c
<1>5. CASE c.pc = "exists"
  BY <1>1, <1>2, <1>4, <1>5, IdleIsCall DEF c, Answered, Wanted, At, Knows, GraphStoreAssumption
<1>6. CASE c.pc = "parents"
  <2>1. c.op = "add" /\ c.node \in Node /\ c.todo \in SUBSET Node
        /\ Parents[c.node] \ c.todo \subseteq Stored
    BY <1>1, <1>6 DEF Knows, Call
  <2>2. r # None => CheckParents(t, n, c.todo \ {n}) \in Call
                    /\ Knows(CheckParents(t, n, c.todo \ {n}), Stored)
    BY <1>4, <2>1
  <2> QED BY <1>6, <2>2, IdleIsCall DEF c, Answered
<1>7. CASE c.pc = "fetch"
  <2> DEFINE d == Onward(t, n, "full", {})
  <2>1. c.op = "update" /\ c.node = n
    BY <1>1, <1>7 DEF Knows, c, Wanted, At
  <2>2. d \in Call /\ d.pc = "full" /\ d.op = "update" /\ d.node = n
    BY <1>3, <2>1 DEF PC
  <2> HIDE DEF d
  <2>3. r # None => Knows(d, Stored)
    BY <1>2, <2>2 DEF Knows, Checked
  <2> QED BY <1>7, <2>2, <2>3, IdleIsCall DEF c, d, Answered
<1>8. CASE c.pc = "reread"
  <2> DEFINE d == Onward(t, n, "link", Parents[n])
  <2>1. c.op = "add" /\ c.node = n /\ Parents[n] \subseteq Stored /\ n \in Stored
    BY <1>1, <1>8 DEF Knows, c, Wanted, At, Checked
  <2>1a. Parents[n] \in SUBSET Node /\ "link" \in PC
    BY <1>2 DEF GraphStoreAssumption, PC
  <2>2. d \in Call /\ d.pc = "link" /\ d.op = "add" /\ d.node = n /\ d.todo = Parents[n]
    BY <1>3, <2>1, <2>1a
  <2> HIDE DEF d
  <2>3. Knows(d, Stored)
    BY <1>2, <2>1, <2>2 DEF Knows, Checked
  <2> QED BY <1>8, <2>2, <2>3, IdleIsCall DEF c, d, Answered
<1>9. CASE c.pc = "get"
  BY <1>9, IdleIsCall DEF c, Answered
<1> QED BY <1>5, <1>6, <1>7, <1>8, <1>9 DEF c, Lookups

LEMMA LookupInv ==
  ASSUME GraphStoreAssumption, IInv, NEW t \in Thread, Lookup(t)
  PROVE  IInv'
<1> DEFINE E == [node : Stored, state : NodeState]
<1>1. PICK n \in Wanted(t) : CacheHit(t, n) \/ CacheMiss(t, n) \/ ReadMain(t, n)
  BY DEF Lookup
<1>2. /\ th[t].pc \in Lookups /\ vertices' = vertices
      /\ queue' \in Seq(Node) /\ edges' = edges /\ cache \in Seq(E)
  BY <1>1 DEF Lookup, CacheHit, CacheMiss, ReadMain, IInv
<1>3. n \in Node /\ th[t] \in Call /\ Knows(th[t], Stored)
  BY <1>2 DEF IInv, Wanted, At, Knows, Lookups, Call
<1>4. CASE CacheHit(t, n)
  <2>1. Place(n) \in 1..Len(cache) /\ cache[Place(n)].node = n
    BY <1>4 DEF CacheHit, Cached, Place
  <2>2. cache[Place(n)] \in E
    BY <1>2, <2>1, ElementOfSeq
  <2>3. n \in Stored /\ CachedState(n) \in NodeState
    BY <2>1, <2>2 DEF CachedState
  <2>4. cache' \in Seq(E)
    <3>1. [node |-> n, state |-> CachedState(n)] \in E
      BY <2>3
    <3> HIDE DEF E
    <3> QED BY <1>2, <1>4, <3>1, PutKeeps DEF CacheHit
  <2> QED BY <1>2, <1>4, <2>3, <2>4, AnsweredKnows, QuietStep DEF CacheHit
<1>5. CASE CacheMiss(t, n)
  <2> DEFINE c == [th[t] EXCEPT !.missed = @ \cup {n}]
  <2>1. th' = [th EXCEPT ![t] = c]
    BY <1>5 DEF CacheMiss
  <2>2. c \in Call /\ Knows(c, Stored)
    BY <1>3 DEF Call, Knows
  <2>3. cache' \in Seq(E)
    BY <1>2, <1>5 DEF CacheMiss
  <2> HIDE DEF c
  <2> QED BY <1>2, <2>1, <2>2, <2>3, QuietStep
<1>6. CASE ReadMain(t, n)
  <2>1. vertices[n] # None => n \in Stored /\ vertices[n] \in NodeState
    BY <1>3 DEF Stored, IInv
  <2>2. cache' \in Seq(E)
    <3>1. vertices[n] # None => [node |-> n, state |-> vertices[n]] \in E
      BY <2>1
    <3> HIDE DEF E
    <3> QED BY <1>2, <1>6, <3>1, PutKeeps DEF ReadMain
  <2> QED BY <1>2, <1>6, <2>1, <2>2, AnsweredKnows, QuietStep DEF ReadMain
<1> QED BY <1>1, <1>4, <1>5, <1>6

-----------------------------------------------------------------------------
\* A call that moves on within an insert still knows what it needs.
LEMMA MovedKnows ==
  ASSUME IInv, NEW t \in Thread, NEW pc \in PC, NEW S, Stored \subseteq S,
         \/ At(t, "full") /\ pc \in {"prune", "store"}
         \/ At(t, "store") /\ pc = "cache" /\ th[t].node \in S
         \/ At(t, "cache") /\ pc = "enqueue"
         \/ At(t, "enqueue") /\ pc = "entry" /\ th[t].op = "add"
         \/ At(t, "prune") /\ pc = "pop"
         \/ At(t, "prune") /\ pc = "store" /\ th[t].op # "prune"
         \/ At(t, "pop") /\ pc = "store" /\ th[t].op # "prune"
         \/ At(t, "entry") /\ pc = "reread"
  PROVE  LET c == [th[t] EXCEPT !.pc = pc] IN c \in Call /\ Knows(c, S)
<1> DEFINE c == [th[t] EXCEPT !.pc = pc]
<1>1. th[t] \in Call /\ Knows(th[t], S)
  BY KnowsMore DEF IInv
<1>2. /\ c \in Call /\ c.pc = pc /\ c.op = th[t].op /\ c.node = th[t].node
      /\ c.todo = th[t].todo
  BY <1>1 DEF Call
<1> HIDE DEF c
<1>3. Knows(c, S)
  BY <1>1, <1>2 DEF At, Knows, Checked
<1> QED BY <1>2, <1>3 DEF c

LEMMA InsertInv ==
  ASSUME GraphStoreAssumption, IInv, NEW t \in Thread,
         CheckCapacity(t) \/ Store(t) \/ CacheNode(t) \/ Enqueue(t)
  PROVE  IInv'
<1> DEFINE To(pc) == [th[t] EXCEPT !.pc = pc]
<1>0. th[t] \in Call /\ Knows(th[t], Stored) /\ {"full", "prune", "store", "cache", "enqueue", "entry"} \subseteq PC
  BY DEF IInv, PC
<1>1. CASE CheckCapacity(t)
  <2> DEFINE pc == IF Size >= MaxVertices THEN "prune" ELSE "store"
  <2>1. th' = [th EXCEPT ![t] = To(pc)] /\ UNCHANGED <<vertices, cache, queue, edges>>
    BY <1>1 DEF CheckCapacity, Goto
  <2>2. To(pc) \in Call /\ Knows(To(pc), Stored)
    BY <1>0, <1>1, MovedKnows DEF CheckCapacity
  <2> HIDE DEF To, pc
  <2> QED BY <2>1, <2>2, QuietStep DEF IInv
<1>2. CASE Store(t)
  <2> DEFINE n == th[t].node
  <2>1. /\ th' = [th EXCEPT ![t] = To("cache")] /\ UNCHANGED <<cache, queue, edges>>
        /\ vertices' = [vertices EXCEPT ![n] = th[t].state]
    BY <1>2 DEF Store, Goto
  <2>2. n \in Node /\ th[t].state \in NodeState /\ At(t, "store")
        /\ (Parents[n] \subseteq Stored \/ n \in Stored)
    BY <1>0, <1>2 DEF Store, At, Knows, Checked, Call
  <2>3. vertices' \in [Node -> NodeState \cup {None}] /\ Stored' = Stored \cup {n}
    BY <2>1, <2>2 DEF IInv, Stored, NodeState, None
  <2>4. To("cache") \in Call /\ Knows(To("cache"), Stored')
    BY <1>0, <2>2, <2>3, MovedKnows
  <2>5. cache' \in Seq([node : Stored', state : NodeState])
    <3>1. [node : Stored, state : NodeState] \subseteq [node : Stored', state : NodeState]
      BY <2>3
    <3>2. cache' \in Seq([node : Stored, state : NodeState])
      BY <2>1 DEF IInv
    <3> QED BY <3>1, <3>2, SeqMonotonic
  <2>6. \A m \in Stored' \ Stored : Parents[m] \subseteq Stored
    BY <2>2, <2>3
  <2>7. queue' \in Seq(Node) /\ edges' = edges /\ Stored \subseteq Stored'
    BY <2>1, <2>3 DEF IInv
  <2> HIDE DEF To, n
  <2> QED BY <2>1, <2>3, <2>4, <2>5, <2>6, <2>7, PlainStep
<1>3. CASE CacheNode(t)
  <2>1. th' = [th EXCEPT ![t] = To("enqueue")] /\ UNCHANGED <<vertices, queue, edges>>
    BY <1>3 DEF CacheNode, Goto
  <2>2. To("enqueue") \in Call /\ Knows(To("enqueue"), Stored)
    BY <1>0, <1>3, MovedKnows DEF CacheNode
  <2>3. [node |-> th[t].node, state |-> th[t].state] \in [node : Stored, state : NodeState]
    BY <1>0, <1>3 DEF CacheNode, At, Knows, Call
  <2>4. cache' \in Seq([node : Stored, state : NodeState])
    BY <1>3, <2>3, PutKeeps DEF CacheNode, IInv
  <2> HIDE DEF To
  <2> QED BY <2>1, <2>2, <2>4, QuietStep DEF IInv
<1>4. CASE Enqueue(t)
  <2>1. UNCHANGED <<vertices, cache, edges>> /\ At(t, "enqueue")
    BY <1>4 DEF Enqueue
  <2>2. th[t].node \in Node
    BY <1>0, <2>1 DEF At, Knows, Checked
  <2>3. queue' \in Seq(Node)
    BY <1>4, <2>2, AppendProperties DEF Enqueue, IInv
  <2>4. CASE th[t].op = "add"
    <3>1. th' = [th EXCEPT ![t] = To("entry")]
      BY <1>4, <2>4 DEF Enqueue, Goto
    <3>2. To("entry") \in Call /\ Knows(To("entry"), Stored)
      BY <1>0, <2>1, <2>4, MovedKnows
    <3> HIDE DEF To
    <3> QED BY <2>1, <2>3, <3>1, <3>2, QuietStep DEF IInv
  <2>5. CASE th[t].op # "add"
    <3>1. th' = [th EXCEPT ![t] = Idle]
      BY <1>4, <2>5 DEF Enqueue
    <3> QED BY <2>1, <2>3, <3>1, IdleIsCall, QuietStep DEF IInv
  <2> QED BY <2>4, <2>5
<1> QED BY <1>1, <1>2, <1>3, <1>4

LEMMA PruneInv ==
  ASSUME GraphStoreAssumption, IInv, NEW t \in Thread,
         LockQueue(t) \/ Pop(t) \/ UnlockQueue(t)
  PROVE  IInv'
<1> DEFINE To(pc) == [th[t] EXCEPT !.pc = pc]
<1>0. /\ th[t] \in Call /\ Knows(th[t], Stored) /\ {"pop", "store", "removing"} \subseteq PC
      /\ UNCHANGED <<vertices, cache, edges>>
  BY DEF IInv, PC, LockQueue, Pop, UnlockQueue
<1>1. ASSUME At(t, "prune") \/ At(t, "pop")
      PROVE  Pruned(t) \in Call /\ Knows(Pruned(t), Stored)
  <2>1. th[t].op # "prune" => To("store") \in Call /\ Knows(To("store"), Stored)
    BY <1>0, <1>1, MovedKnows
  <2> QED BY <2>1, IdleIsCall DEF Pruned
<1>2. CASE LockQueue(t)
  <2>1. queue' \in Seq(Node) /\ At(t, "prune")
    BY <1>2 DEF LockQueue, IInv
  <2>2. CASE Size <= Threshold
    <3>1. th' = [th EXCEPT ![t] = Pruned(t)]
      BY <1>2, <2>2 DEF LockQueue
    <3> QED BY <1>0, <1>1, <2>1, <3>1, QuietStep DEF IInv
  <2>3. CASE ~(Size <= Threshold)
    <3>1. th' = [th EXCEPT ![t] = To("pop")]
      BY <1>2, <2>3 DEF LockQueue, Goto
    <3>2. To("pop") \in Call /\ Knows(To("pop"), Stored)
      BY <1>0, <2>1, MovedKnows
    <3> HIDE DEF To
    <3> QED BY <1>0, <2>1, <3>1, <3>2, QuietStep DEF IInv
  <2> QED BY <2>2, <2>3
<1>3. CASE Pop(t)
  <2> DEFINE n == Head(queue)
  <2>1. n \in Node /\ queue' \in Seq(Node) /\ At(t, "pop")
    BY <1>3, HeadTailProperties DEF Pop, IInv
  <2>2. CASE vertices[n] = "Final"
    <3> DEFINE c == [th[t] EXCEPT !.pc = "removing", !.todo = {n}]
    <3>1. th' = [th EXCEPT ![t] = c]
      BY <1>3, <2>2 DEF Pop
    <3>2. /\ c \in Call /\ c.pc = "removing"
          /\ c.op = th[t].op /\ c.node = th[t].node
      BY <1>0, <2>1 DEF Call
    <3> HIDE DEF c
    <3>3. Knows(c, Stored)
      BY <1>0, <2>1, <3>2 DEF Knows, At, Checked
    <3> QED BY <1>0, <2>1, <3>1, <3>2, <3>3, QuietStep DEF IInv
  <2>3. CASE vertices[n] # "Final"
    <3>1. th' = [th EXCEPT ![t] = th[t]]
      BY <1>3, <2>3 DEF Pop, IInv
    <3> QED BY <1>0, <2>1, <3>1, QuietStep DEF IInv
  <2> QED BY <2>2, <2>3
<1>4. CASE UnlockQueue(t)
  <2>1. At(t, "pop") /\ th' = [th EXCEPT ![t] = Pruned(t)] /\ queue' = queue
    BY <1>4 DEF UnlockQueue
  <2> QED BY <1>0, <1>1, <2>1, QuietStep DEF IInv
<1> QED BY <1>2, <1>3, <1>4

LEMMA EdgeInv ==
  ASSUME GraphStoreAssumption, IInv, NEW t \in Thread, Entry(t) \/ Link(t)
  PROVE  IInv'
<1> DEFINE To(pc) == [th[t] EXCEPT !.pc = pc]
           n == th[t].node
<1>0. /\ th[t] \in Call /\ Knows(th[t], Stored) /\ n \in Stored /\ n \in Node
      /\ Parents[n] \subseteq Stored
      /\ UNCHANGED <<vertices, cache, queue>> /\ Stored' = Stored
  BY DEF IInv, Entry, Link, At, Knows, Checked, Stored
<1>1. ASSUME NEW c \in Call, th' = [th EXCEPT ![t] = c], Knows(c, Stored),
             DOMAIN edges' \subseteq Node,
             \A p \in DOMAIN edges' : edges'[p] \subseteq Node, EdgesTrue'
      PROVE  IInv'
  <2>1. th' \in [Thread -> Call] /\ \A u \in Thread : Knows(th'[u], Stored)
    BY <1>1 DEF IInv
  <2>2. ParentsPresent'
    BY <1>0 DEF IInv, ParentsPresent
  <2> QED BY <1>0, <1>1, <2>1, <2>2 DEF IInv
<1>2. CASE Entry(t)
  <2>1. th' = [th EXCEPT ![t] = To("reread")]
    BY <1>2 DEF Entry, Goto
  <2>2. To("reread") \in Call /\ Knows(To("reread"), Stored)
    BY <1>2, MovedKnows DEF Entry, PC, Lookups
  <2>3. edges' = [m \in DOMAIN edges \cup {n} |-> IF m \in DOMAIN edges THEN edges[m] ELSE {}]
    BY <1>2 DEF Entry
  <2> HIDE DEF To, n
  <2>4. DOMAIN edges' \subseteq Node /\ \A p \in DOMAIN edges' : edges'[p] \subseteq Node
    BY <1>0, <2>3 DEF IInv
  <2>5. EdgesTrue'
    BY <1>0, <2>3 DEF IInv, EdgesTrue
  <2> QED BY <1>1, <2>1, <2>2, <2>4, <2>5
<1>3. CASE Link(t)
  <2>1. PICK p \in th[t].todo :
          /\ edges' = [m \in DOMAIN edges |-> edges[m] \cup {c \in {n} : m = p}]
          /\ th' = [th EXCEPT ![t] =
                      IF th[t].todo = {p} THEN Idle
                      ELSE Onward(t, p, "link", th[t].todo \ {p})]
    BY <1>3 DEF Link
  <2>2. p \in Parents[n] /\ p \in Stored
    BY <1>0, <1>3, <2>1 DEF Link, At, Knows
  <2> DEFINE more == Onward(t, p, "link", th[t].todo \ {p})
             c == IF th[t].todo = {p} THEN Idle ELSE more
  <2>3. th' = [th EXCEPT ![t] = c]
    BY <2>1
  <2>4. more \in Call /\ Knows(more, Stored)
    <3>1. /\ more \in Call /\ more.pc = "link" /\ more.op = th[t].op
          /\ more.node = n /\ more.todo \subseteq th[t].todo
      BY <1>0, <1>3 DEF Call, Link, At, Onward, PC
    <3> HIDE DEF more, n
    <3>2. Knows(more, Stored)
      BY <1>0, <1>3, <3>1 DEF Knows, Checked, Link, At, n
    <3> QED BY <3>1, <3>2
  <2>5. c \in Call /\ Knows(c, Stored)
    BY <2>4, IdleIsCall
  <2> HIDE DEF n, c
  <2>6. DOMAIN edges' \subseteq Node /\ \A m \in DOMAIN edges' : edges'[m] \subseteq Node
    BY <1>0, <2>1 DEF IInv
  <2>7. EdgesTrue'
    BY <1>0, <2>1, <2>2 DEF IInv, EdgesTrue
  <2> QED BY <1>1, <2>3, <2>5, <2>6, <2>7
<1> QED BY <1>2, <1>3

-----------------------------------------------------------------------------
LEMMA IInvNext ==
  ASSUME GraphStoreAssumption, IInv, NEW t \in Thread, Begin(t) \/ Inside(t)
  PROVE  IInv'
<1>1. CASE Begin(t)
  BY <1>1, EnterInv
<1>2. CASE Lookup(t)
  BY <1>2, LookupInv
<1>3. CASE CheckCapacity(t) \/ Store(t) \/ CacheNode(t) \/ Enqueue(t)
  BY <1>3, InsertInv
<1>4. CASE LockQueue(t) \/ Pop(t) \/ UnlockQueue(t)
  BY <1>4, PruneInv
<1>5. CASE Entry(t) \/ Link(t)
  BY <1>5, EdgeInv
<1> QED BY <1>1, <1>2, <1>3, <1>4, <1>5 DEF Inside

\* No step of any thread breaks the invariant.
THEOREM Inductive == Spec => []IInv
<1>1. Init => IInv
  BY InitInv, GraphStoreAssumption
<1>2. IInv /\ [Next]_vars => IInv'
  <2> SUFFICES ASSUME IInv, [Next]_vars PROVE IInv'
    OBVIOUS
  <2>1. CASE UNCHANGED vars
    <3>1. Stored' = Stored
      BY <2>1 DEF vars, Stored
    <3>2. ParentsPresent' /\ EdgesTrue'
      BY <2>1, <3>1 DEF vars, IInv, ParentsPresent, EdgesTrue
    <3>3. UNCHANGED <<vertices, cache, queue, edges, th>>
      BY <2>1 DEF vars
    <3> QED BY <3>1, <3>2, <3>3 DEF IInv
  <2>2. ASSUME NEW t \in Thread, Begin(t) \/ Inside(t) PROVE IInv'
    BY <2>2, GraphStoreAssumption, IInvNext
  <2> QED BY <2>1, <2>2 DEF Next
<1> QED BY <1>1, <1>2, PTL DEF Spec

\* A stored vertex has its parents stored, though add_node checks them long
\* before it stores the vertex and any number of calls overlap.
THEOREM ParentsPresentAlways == Spec => []ParentsPresent
<1>1. IInv => ParentsPresent
  BY DEF IInv
<1> QED BY <1>1, Inductive, PTL

\* The edges add_node records join stored vertices to their stored children.
THEOREM EdgesTrueAlways == Spec => []EdgesTrue
<1>1. IInv => EdgesTrue
  BY DEF IInv
<1> QED BY <1>1, Inductive, PTL

\* What the other threads are at is their own business.
LEMMA OnlyOwn ==
  ASSUME IInv, NEW t \in Thread, Begin(t) \/ Inside(t), NEW u \in Thread, u # t
  PROVE  th'[u] = th[u]
<1>1. th \in [Thread -> Call]
  BY DEF IInv
<1>2. CASE Begin(t)
  BY <1>1, <1>2 DEF Begin, AddNode, UpdateNodeState, GetNode, Prune, Enter
<1>3. CASE Lookup(t)
  BY <1>1, <1>3 DEF Lookup, CacheHit, CacheMiss, ReadMain
<1>4. CASE CheckCapacity(t) \/ Store(t) \/ CacheNode(t) \/ Enqueue(t)
  BY <1>1, <1>4 DEF CheckCapacity, Store, CacheNode, Enqueue, Goto
<1>5. CASE LockQueue(t) \/ Pop(t) \/ UnlockQueue(t)
  BY <1>1, <1>5 DEF LockQueue, Pop, UnlockQueue, Goto
<1>6. CASE Entry(t) \/ Link(t)
  BY <1>1, <1>6 DEF Entry, Link, Goto
<1> QED BY <1>2, <1>3, <1>4, <1>5, <1>6 DEF Inside

-----------------------------------------------------------------------------
(* Calls that overlap are in raced. *)

Met(t, u) ==
  /\ Replacing(t) /\ Replacing(u) /\ th[t].node = th[u].node => {th[t].node} \in raced
  /\ Adding(t) /\ Adding(u) /\ th[t].node # th[u].node
       => {th[t].node, th[u].node} \in raced

WInv ==
  /\ raced \subseteq SUBSET Node
  /\ \A t, u \in Thread : t # u => Met(t, u)

Writes == {"exists", "parents", "fetch", "get", "full", "prune", "pop", "removing", "store", "cache"}

\* Once begun, a call goes on to write what it was called for, until it returns.
LEMMA Carries ==
  ASSUME IInv, NEW t \in Thread, Inside(t), th'[t].pc # "idle"
  PROVE  /\ th[t].pc # "idle" /\ th'[t].op = th[t].op /\ th'[t].node = th[t].node
         /\ th'[t].pc \in Writes => th[t].pc \in Writes
<1> DEFINE c == th[t]
<1>0. th \in [Thread -> Call] /\ c \in Call /\ Idle.pc = "idle"
  BY DEF IInv, Idle
<1>1. ASSUME NEW n, NEW pc, NEW todo
      PROVE  /\ Onward(t, n, pc, todo).pc = pc /\ Onward(t, n, pc, todo).op = c.op
             /\ Onward(t, n, pc, todo).node = c.node
  BY <1>0 DEF Onward, Call
<1>2. ASSUME NEW pc
      PROVE  [c EXCEPT !.pc = pc].pc = pc /\ [c EXCEPT !.pc = pc].op = c.op /\ [c EXCEPT !.pc = pc].node = c.node
  BY <1>0 DEF Call
<1>3. ASSUME NEW pc, Goto(t, pc)
      PROVE  th'[t].pc = pc /\ th'[t].op = c.op /\ th'[t].node = c.node
  BY <1>0, <1>2, <1>3 DEF Goto
<1>4. CASE Lookup(t)
  <2>1. PICK n \in Wanted(t) : CacheHit(t, n) \/ CacheMiss(t, n) \/ ReadMain(t, n)
    BY <1>4 DEF Lookup
  <2>2. c.pc \in Lookups
    BY <1>4 DEF Lookup
  <2>3. ASSUME NEW r, th'[t] = Answered(t, n, r)
        PROVE  /\ th'[t].op = c.op /\ th'[t].node = c.node
               /\ th'[t].pc \in Writes => c.pc \in Writes
    <3>1. \/ th'[t] = Idle
          \/ \E pc, todo : th'[t] = Onward(t, n, pc, todo) /\ (c.pc \in Writes \/ pc = "link")
      BY <2>2, <2>3 DEF Answered, CheckParents, Lookups, Writes
    <3> QED BY <3>1, <1>0, <1>1 DEF Writes
  <2>4. CASE CacheMiss(t, n)
    <3>1. th'[t] = [c EXCEPT !.missed = @ \cup {n}]
      BY <2>4, <1>0 DEF CacheMiss
    <3>2. th'[t].pc = c.pc /\ th'[t].op = c.op /\ th'[t].node = c.node
      BY <3>1, <1>0 DEF Call
    <3> QED BY <3>2, <2>2 DEF Lookups
  <2>5. CASE CacheHit(t, n) \/ ReadMain(t, n)
    <3>1. \E r : th'[t] = Answered(t, n, r)
      BY <2>5, <1>0 DEF CacheHit, ReadMain
    <3> QED BY <3>1, <2>2, <2>3 DEF Lookups
  <2> QED BY <2>1, <2>4, <2>5
<1>5. CASE CheckCapacity(t) \/ Store(t) \/ CacheNode(t) \/ Entry(t)
  <2>1. \E pc : Goto(t, pc) /\ (c.pc \in Writes \/ pc = "reread")
    BY <1>5 DEF CheckCapacity, Store, CacheNode, Entry, At, Writes
  <2>2. c.pc # "idle"
    BY <1>5 DEF CheckCapacity, Store, CacheNode, Entry, At
  <2> QED BY <2>1, <2>2, <1>3 DEF Writes
<1>6. CASE Enqueue(t)
  <2>1. c.pc = "enqueue" /\ (th'[t] = Idle \/ Goto(t, "entry"))
    BY <1>6, <1>0 DEF Enqueue, At
  <2> QED BY <2>1, <1>0, <1>3 DEF Writes
<1>7. CASE LockQueue(t) \/ UnlockQueue(t)
  <2>0. th'[t] = Pruned(t) => th'[t].op = c.op /\ th'[t].node = c.node
    BY <1>0, <1>2 DEF Pruned
  <2>1. CASE LockQueue(t)
    <3>1. c.pc = "prune" /\ (th'[t] = Pruned(t) \/ Goto(t, "pop"))
      <4>1. c.pc = "prune"
        BY <2>1 DEF LockQueue, At
      <4>2. CASE Size <= Threshold
        BY <2>1, <4>1, <4>2, <1>0 DEF LockQueue
      <4>3. CASE ~(Size <= Threshold)
        BY <2>1, <4>1, <4>3 DEF LockQueue
      <4> QED BY <4>2, <4>3
    <3> QED BY <3>1, <2>0, <1>3 DEF Writes
  <2>2. CASE UnlockQueue(t)
    <3>1. c.pc = "pop" /\ th'[t] = Pruned(t)
      BY <2>2, <1>0 DEF UnlockQueue, At
    <3> QED BY <3>1, <2>0 DEF Writes
  <2> QED BY <1>7, <2>1, <2>2
<1>8. CASE Pop(t)
  <2>1. /\ c.pc = "pop"
        /\ th'[t] = c \/ th'[t] = [c EXCEPT !.pc = "removing", !.todo = {Head(queue)}]
    BY <1>8, <1>0 DEF Pop, At
  <2>2. th'[t].op = c.op /\ th'[t].node = c.node
    BY <2>1, <1>0 DEF Call
  <2> QED BY <2>1, <2>2 DEF Writes
<1>9. CASE Link(t)
  <2>1. c.pc = "link" /\ (th'[t] = Idle \/ \E n, todo : th'[t] = Onward(t, n, "link", todo))
    BY <1>9, <1>0 DEF Link, At
  <2> QED BY <2>1, <1>0, <1>1 DEF Writes
<1> QED BY <1>4, <1>5, <1>6, <1>7, <1>8, <1>9 DEF Inside

\* Only entering a call changes what has overlapped.
LEMMA Races ==
  ASSUME NEW t \in Thread, Begin(t) \/ Inside(t)
  PROVE  raced \subseteq raced' /\ (Inside(t) => raced' = raced)
<1>1. Begin(t) => raced \subseteq raced'
  BY DEF Begin, AddNode, UpdateNodeState, GetNode, Prune, Enter
<1>2. Inside(t) => raced' = raced
  BY DEF Inside, Lookup, CheckCapacity, Store, CacheNode, Enqueue, LockQueue, Pop, UnlockQueue,
         Entry, Link
<1> QED BY <1>1, <1>2

LEMMA WStep ==
  ASSUME GraphStoreAssumption, IInv, WInv, NEW t \in Thread, Begin(t) \/ Inside(t)
  PROVE  WInv'
<1>0. /\ th \in [Thread -> Call] /\ \A u \in Thread : Knows(th[u], Stored)
      /\ \A u \in Thread : u # t => th'[u] = th[u]
      /\ raced \subseteq raced'
  BY OnlyOwn, Races DEF IInv
<1>1. ASSUME NEW op, NEW pc, NEW n, NEW s, Enter(t, op, pc, n, s),
             op \in {"add", "update"} => n \in Node
      PROVE  WInv'
  <2>1. /\ th'[t].pc = pc /\ th'[t].op = op /\ th'[t].node = n
        /\ raced' = raced \cup Overlapping(op, n)
    BY <1>0, <1>1 DEF Enter
  <2>2. ASSUME NEW u \in Thread, Replacing(u), th[u].node = n, op \in {"add", "update"}
        PROVE  {n} \in raced'
    BY <2>1, <2>2 DEF Overlapping
  <2>3. ASSUME NEW u \in Thread, Adding(u), th[u].node # n, op = "add"
        PROVE  {n, th[u].node} \in raced'
    BY <2>1, <2>3 DEF Overlapping
  <2>4. ASSUME NEW u \in Thread, u # t PROVE Met(t, u)' /\ Met(u, t)'
    <3>1. th'[u] = th[u] /\ (Replacing(u)' <=> Replacing(u)) /\ (Adding(u)' <=> Adding(u))
      BY <1>0, <2>4 DEF Replacing, Adding, At
    <3>2. (Replacing(t)' => op \in {"add", "update"}) /\ (Adding(t)' => op = "add")
      BY <2>1 DEF Replacing, Adding, At
    <3>3. Met(t, u)'
      BY <2>1, <2>2, <2>3, <3>1, <3>2 DEF Met
    <3>4. {n, th[u].node} = {th[u].node, n}
      OBVIOUS
    <3>5. Met(u, t)'
      BY <2>1, <2>2, <2>3, <3>1, <3>2, <3>4 DEF Met
    <3> QED BY <3>3, <3>5
  <2>5. ASSUME NEW u \in Thread, NEW w \in Thread, u # w, u # t, w # t PROVE Met(u, w)'
    BY <1>0, <2>5 DEF WInv, Met, Replacing, Adding, At
  <2>6. raced' \subseteq SUBSET Node
    <3>1. \A u \in Thread : Adding(u) => th[u].node \in Node
      BY <1>0 DEF Adding, At, Knows
    <3>2. Overlapping(op, n) \subseteq SUBSET Node
      BY <1>1, <3>1 DEF Overlapping
    <3> QED BY <2>1, <3>2 DEF WInv
  <2> QED BY <2>4, <2>5, <2>6 DEF WInv
<1>2. CASE Begin(t)
  BY <1>1, <1>2 DEF Begin, AddNode, UpdateNodeState, GetNode, Prune
<1>3. CASE Inside(t)
  <2>1. raced' = raced
    BY <1>3, Races
  <2>2. (Replacing(t)' => Replacing(t)) /\ (Adding(t)' => Adding(t))
        /\ (th'[t].pc # "idle" => th'[t].node = th[t].node)
    <3>1. th[t].pc \in PC
      BY <1>0 DEF Call
    <3>2. CASE th'[t].pc = "idle"
      BY <3>2 DEF Replacing, Adding, At
    <3>3. CASE th'[t].pc # "idle"
      <4>1. th[t].pc # "idle" /\ th'[t].op = th[t].op /\ th'[t].node = th[t].node
            /\ (th'[t].pc \in Writes => th[t].pc \in Writes)
        BY <1>3, <3>3, Carries
      <4>2. th'[t].pc \in PC
        BY <1>3, IInvNext DEF IInv, Call
      <4> QED BY <3>1, <4>1, <4>2 DEF Replacing, Adding, At, Writes, PC, Lookups
    <3> QED BY <3>2, <3>3
  <2>3. ASSUME NEW u \in Thread, NEW w \in Thread, u # w PROVE Met(u, w)'
    <3>1. \A v \in Thread : /\ Replacing(v)' => Replacing(v) /\ th'[v].node = th[v].node
                            /\ Adding(v)' => Adding(v) /\ th'[v].node = th[v].node
      BY <1>0, <2>2 DEF Replacing, Adding, At
    <3> QED BY <2>1, <2>3, <3>1 DEF WInv, Met
  <2> QED BY <2>1, <2>3 DEF WInv
<1> QED BY <1>2, <1>3
-----------------------------------------------------------------------------
(* The edges.  A stored vertex without an entry is still being added; a child
   being linked has the edges of the parents it has done, unless a parent had
   no entry, and then the two were added at once. *)

Attached(p, c) == (p \in DOMAIN edges /\ c \in edges[p]) \/ {p, c} \in raced

Late == {"cache", "enqueue", "entry", "reread", "link"}

AddedAt(t, n, where) == th[t].op = "add" /\ th[t].node = n /\ th[t].pc \in where

Entered ==
  \A p \in Stored :
    p \in DOMAIN edges \/ \E t \in Thread : AddedAt(t, p, {"cache", "enqueue", "entry"})

Linking(t) ==
  /\ th[t].pc \in {"reread", "link"} => th[t].node \in DOMAIN edges
  /\ th[t].pc = "link" =>
       \A p \in Parents[th[t].node] \ th[t].todo : Attached(p, th[t].node)

Joined ==
  \A c \in Stored : \A p \in Parents[c] :
    Attached(p, c) \/ \E t \in Thread : AddedAt(t, c, Late)

EInv ==
  /\ Entered
  /\ \A t \in Thread : Linking(t)
  /\ Joined

\* A step of t that takes no edge away, and leaves the adding of a vertex only
\* once its entry is made and its parents are attached.
LEMMA EdgesStep ==
  ASSUME EInv, NEW t \in Thread, \A u \in Thread : u # t => th'[u] = th[u],
         \A n \in Stored' \ Stored : AddedAt(t, n, {"cache"})',
         DOMAIN edges \subseteq DOMAIN edges',
         \A p \in DOMAIN edges : edges[p] \subseteq edges'[p],
         raced \subseteq raced',
         \A n : AddedAt(t, n, {"cache", "enqueue", "entry"})
                  => n \in DOMAIN edges' \/ AddedAt(t, n, {"cache", "enqueue", "entry"})',
         Linking(t)',
         \A n : AddedAt(t, n, Late)
                  => AddedAt(t, n, Late)' \/ \A p \in Parents[n] : Attached(p, n)'
  PROVE  EInv'
<1>1. \A p, c : Attached(p, c) => Attached(p, c)'
  BY DEF Attached
<1>2. \A u \in Thread : u # t => \A n, where : AddedAt(u, n, where) => AddedAt(u, n, where)'
  BY DEF AddedAt
<1>3. ASSUME NEW p \in Stored'
      PROVE  p \in DOMAIN edges' \/ \E u \in Thread : AddedAt(u, p, {"cache", "enqueue", "entry"})'
  <2>1. CASE p \in Stored
    BY <2>1, <1>2 DEF EInv, Entered
  <2>2. CASE p \notin Stored
    BY <1>3, <2>2 DEF AddedAt
  <2> QED BY <2>1, <2>2
<1>4. ASSUME NEW u \in Thread PROVE Linking(u)'
  <2>1. CASE u = t
    BY <2>1
  <2>2. CASE u # t
    BY <2>2, <1>1 DEF EInv, Linking
  <2> QED BY <2>1, <2>2
<1>5. ASSUME NEW c \in Stored', NEW p \in Parents[c]
      PROVE  Attached(p, c)' \/ \E u \in Thread : AddedAt(u, c, Late)'
  <2>1. CASE c \in Stored
    BY <2>1, <1>1, <1>2, <1>5 DEF EInv, Joined
  <2>2. CASE c \notin Stored
    BY <1>5, <2>2 DEF AddedAt, Late
  <2> QED BY <2>1, <2>2
<1> QED BY <1>3, <1>4, <1>5 DEF EInv, Entered, Joined

\* A step that leaves vertices and edges alone, by a call that is not adding
\* behind its store.
LEMMA EdgesAlone ==
  ASSUME EInv, NEW t \in Thread, \A u \in Thread : u # t => th'[u] = th[u],
         vertices' = vertices, edges' = edges, raced \subseteq raced',
         th[t].op = "add" => th[t].pc \notin Late,
         th'[t].pc \notin {"reread", "link"}
  PROVE  EInv'
<1>1. Stored' = Stored
  BY DEF Stored
<1>2. \A n : ~AddedAt(t, n, Late) /\ ~AddedAt(t, n, {"cache", "enqueue", "entry"})
  BY DEF AddedAt, Late
<1>3. Linking(t)'
  BY DEF Linking
<1> QED BY <1>1, <1>2, <1>3, EdgesStep

LEMMA EStep ==
  ASSUME GraphStoreAssumption, IInv, WInv, EInv, NEW t \in Thread, Begin(t) \/ Inside(t)
  PROVE  EInv'
<1> DEFINE c == th[t]
           To(pc) == [c EXCEPT !.pc = pc]
<1>0. /\ th \in [Thread -> Call] /\ c \in Call /\ Knows(c, Stored)
      /\ \A u \in Thread : u # t => th'[u] = th[u]
      /\ raced \subseteq raced'
      /\ Idle.pc = "idle"
  BY OnlyOwn, Races DEF IInv, Idle
<1>a. \A pc : To(pc).pc = pc /\ To(pc).op = c.op /\ To(pc).node = c.node
  BY <1>0 DEF Call
<1>b. ASSUME NEW pc, Goto(t, pc) PROVE th'[t] = To(pc)
  BY <1>0, <1>b DEF Goto
<1> HIDE DEF To
<1>1. CASE Begin(t)
  <2>1. /\ c.pc = "idle" /\ th'[t].pc \in {"exists", "fetch", "get", "prune"}
        /\ vertices' = vertices /\ edges' = edges
    BY <1>0, <1>1 DEF Begin, AddNode, UpdateNodeState, GetNode, Prune, Enter, At
  <2> QED BY <1>0, <2>1, EdgesAlone DEF Late
<1>2. CASE Lookup(t)
  <2>1. PICK n \in Wanted(t) : CacheHit(t, n) \/ CacheMiss(t, n) \/ ReadMain(t, n)
    BY <1>2 DEF Lookup
  <2>2. c.pc \in Lookups /\ vertices' = vertices /\ edges' = edges
    BY <1>2, <2>1 DEF Lookup, CacheHit, CacheMiss, ReadMain
  <2>3. CASE c.pc # "reread"
    <3>1. th'[t].pc \notin {"reread", "link"}
      <4>1. ASSUME NEW r, th'[t] = Answered(t, n, r) PROVE th'[t].pc \notin {"reread", "link"}
        <5>1. \/ th'[t] = Idle
              \/ \E todo : th'[t] = Onward(t, n, "full", todo) \/ th'[t] = Onward(t, n, "parents", todo)
          BY <2>2, <2>3, <4>1 DEF Answered, CheckParents, Lookups
        <5>2. \A pc, todo : Onward(t, n, pc, todo).pc = pc
          BY <1>0 DEF Onward, Call
        <5> QED BY <5>1, <5>2, <1>0
      <4>2. CASE CacheMiss(t, n)
        <5>1. th'[t] = [c EXCEPT !.missed = @ \cup {n}]
          BY <4>2, <1>0 DEF CacheMiss
        <5>2. th'[t].pc = c.pc
          BY <5>1, <1>0 DEF Call
        <5> QED BY <5>2, <2>2, <2>3 DEF Lookups
      <4>3. CASE CacheHit(t, n) \/ ReadMain(t, n)
        <5>1. \E r : th'[t] = Answered(t, n, r)
          BY <4>3, <1>0 DEF CacheHit, ReadMain
        <5> QED BY <5>1, <4>1
      <4> QED BY <2>1, <4>2, <4>3
    <3>2. c.pc \notin Late
      BY <2>2, <2>3 DEF Lookups, Late
    <3> QED BY <1>0, <2>2, <3>1, <3>2, EdgesAlone
  <2>4. CASE c.pc = "reread"
    <3>1. c.op = "add" /\ n = c.node /\ n \in Stored /\ n \in Node /\ n \in DOMAIN edges
      <4>1. c.op = "add" /\ n = c.node /\ n \in Stored
        BY <1>0, <2>4 DEF Knows, Wanted, At
      <4> QED BY <4>1, <2>4 DEF EInv, Linking, Stored
    <3>2. Stored' = Stored
      BY <2>2 DEF Stored
    <3>3. CASE CacheMiss(t, n)
      <4>1. th'[t] = [c EXCEPT !.missed = @ \cup {n}]
        BY <3>3, <1>0 DEF CacheMiss
      <4>2. th'[t].pc = c.pc /\ th'[t].op = c.op /\ th'[t].node = c.node
        BY <4>1, <1>0 DEF Call
      <4>3. Linking(t)'
        BY <2>2, <2>4, <3>1, <4>2 DEF Linking
      <4>4. \A m, where : AddedAt(t, m, where) => AddedAt(t, m, where)'
        BY <4>2 DEF AddedAt
      <4> QED BY <1>0, <2>2, <3>2, <4>3, <4>4, EdgesStep
    <3>4. ASSUME NEW r, r # None, th'[t] = Answered(t, n, r) PROVE EInv'
      <4>1. th'[t] = IF Parents[n] = {} THEN Idle ELSE Onward(t, n, "link", Parents[n])
        BY <2>4, <3>4 DEF Answered
      <4>2. CASE Parents[n] = {}
        <5>1. th'[t].pc = "idle"
          BY <4>1, <4>2, <1>0
        <5>2. Linking(t)'
          BY <5>1 DEF Linking
        <5>3. \A m : AddedAt(t, m, Late) => m = n
          BY <3>1 DEF AddedAt
        <5>4. \A m : ~AddedAt(t, m, {"cache", "enqueue", "entry"})
          BY <2>4 DEF AddedAt
        <5> QED BY <1>0, <2>2, <3>2, <4>2, <5>2, <5>3, <5>4, EdgesStep
      <4>3. CASE Parents[n] # {}
        <5>1. /\ th'[t].pc = "link" /\ th'[t].op = "add" /\ th'[t].node = n
              /\ th'[t].todo = Parents[n]
          BY <4>1, <4>3, <1>0, <3>1 DEF Onward, Call
        <5>2. Linking(t)'
          BY <2>2, <3>1, <5>1 DEF Linking
        <5>3. \A m : AddedAt(t, m, Late) => AddedAt(t, m, Late)'
          BY <3>1, <5>1 DEF AddedAt, Late
        <5>4. \A m : ~AddedAt(t, m, {"cache", "enqueue", "entry"})
          BY <2>4 DEF AddedAt
        <5> QED BY <1>0, <2>2, <3>2, <5>2, <5>3, <5>4, EdgesStep
      <4> QED BY <4>2, <4>3
    <3>5. CASE CacheHit(t, n)
      <4>1. Place(n) \in 1..Len(cache)
        BY <3>5 DEF CacheHit, Cached, Place
      <4>2. cache[Place(n)] \in [node : Stored, state : NodeState]
        BY <4>1, ElementOfSeq DEF IInv
      <4>3. CachedState(n) # None
        BY <4>2 DEF CachedState, NodeState, None
      <4>4. th'[t] = Answered(t, n, CachedState(n))
        BY <1>0, <3>5 DEF CacheHit
      <4> QED BY <3>4, <4>3, <4>4
    <3>6. CASE ReadMain(t, n)
      <4>1. th'[t] = Answered(t, n, vertices[n]) /\ vertices[n] # None
        BY <1>0, <3>1, <3>6 DEF ReadMain, Stored
      <4> QED BY <3>4, <4>1
    <3> QED BY <2>1, <3>3, <3>5, <3>6
  <2> QED BY <2>3, <2>4
<1>3. CASE CheckCapacity(t)
  <2>1. /\ th'[t] \in {To("prune"), To("store")} /\ c.pc = "full"
        /\ vertices' = vertices /\ edges' = edges
    BY <1>3, <1>b DEF CheckCapacity, At
  <2> QED BY <1>0, <1>a, <2>1, EdgesAlone DEF Late
<1>4. CASE Store(t)
  <2>1. /\ th'[t] = To("cache") /\ c.pc = "store" /\ edges' = edges
        /\ vertices' = [vertices EXCEPT ![c.node] = c.state]
    BY <1>4, <1>b DEF Store, At
  <2>2. c.op \in {"add", "update"} /\ (c.op = "update" => c.node \in Stored)
    BY <1>0, <2>1 DEF Knows, Checked, Call
  <2>3. \A n \in Stored' \ Stored : AddedAt(t, n, {"cache"})'
    <3>1. \A n \in Node : n # c.node => vertices'[n] = vertices[n]
      BY <2>1 DEF IInv
    <3>2. \A n \in Stored' \ Stored : n = c.node
      BY <3>1 DEF Stored
    <3> QED BY <1>a, <2>1, <2>2, <3>2 DEF AddedAt
  <2>4. Linking(t)'
    BY <1>a, <2>1 DEF Linking
  <2>5. \A n : ~AddedAt(t, n, Late) /\ ~AddedAt(t, n, {"cache", "enqueue", "entry"})
    BY <2>1 DEF AddedAt, Late
  <2> QED BY <1>0, <2>1, <2>3, <2>4, <2>5, EdgesStep
<1>5. CASE CacheNode(t)
  <2>1. th'[t] = To("enqueue") /\ c.pc = "cache" /\ edges' = edges /\ vertices' = vertices
    BY <1>5, <1>b DEF CacheNode, At
  <2>2. Stored' = Stored /\ Linking(t)'
    BY <1>a, <2>1 DEF Stored, Linking
  <2>3. \A n : /\ AddedAt(t, n, Late) => AddedAt(t, n, Late)'
               /\ AddedAt(t, n, {"cache", "enqueue", "entry"})
                    => AddedAt(t, n, {"cache", "enqueue", "entry"})'
    BY <1>a, <2>1 DEF AddedAt, Late
  <2> QED BY <1>0, <2>1, <2>2, <2>3, EdgesStep
<1>6. CASE Enqueue(t)
  <2>0. c.pc = "enqueue" /\ edges' = edges /\ vertices' = vertices
    BY <1>6 DEF Enqueue, At
  <2>1. CASE c.op = "add"
    <3>1. th'[t] = To("entry")
      BY <1>6, <1>b, <2>1 DEF Enqueue
    <3>2. Stored' = Stored /\ Linking(t)'
      BY <1>a, <2>0, <3>1 DEF Stored, Linking
    <3>3. \A n : /\ AddedAt(t, n, Late) => AddedAt(t, n, Late)'
                 /\ AddedAt(t, n, {"cache", "enqueue", "entry"})
                      => AddedAt(t, n, {"cache", "enqueue", "entry"})'
      BY <1>a, <2>0, <3>1 DEF AddedAt, Late
    <3> QED BY <1>0, <2>0, <3>2, <3>3, EdgesStep
  <2>2. CASE c.op # "add"
    <3>1. th'[t] = Idle
      BY <1>0, <1>6, <2>2 DEF Enqueue
    <3> QED BY <1>0, <2>0, <2>2, <3>1, EdgesAlone
  <2> QED BY <2>1, <2>2
<1>7. CASE LockQueue(t) \/ UnlockQueue(t)
  <2>1. /\ c.pc \in {"prune", "pop"} /\ edges' = edges /\ vertices' = vertices
        /\ th'[t] \in {Idle, To("store"), To("pop"), c}
    BY <1>0, <1>7, <1>b DEF LockQueue, UnlockQueue, At, Pruned, To
  <2> QED BY <1>0, <1>a, <2>1, EdgesAlone DEF Late
<1>8. CASE Pop(t)
  <2>1. /\ c.pc = "pop" /\ edges' = edges /\ vertices' = vertices
        /\ th'[t] = c \/ th'[t] = [c EXCEPT !.pc = "removing", !.todo = {Head(queue)}]
    BY <1>0, <1>8 DEF Pop, At
  <2>2. th'[t].pc \in {"pop", "removing"}
    BY <1>0, <2>1 DEF Call
  <2> QED BY <1>0, <2>1, <2>2, EdgesAlone DEF Late
<1>9. CASE Entry(t)
  <2>1. /\ th'[t] = To("reread") /\ c.pc = "entry" /\ vertices' = vertices
        /\ edges' = [n \in DOMAIN edges \cup {c.node} |-> IF n \in DOMAIN edges THEN edges[n] ELSE {}]
    BY <1>9, <1>b DEF Entry, At
  <2> HIDE DEF c
  <2>2. /\ DOMAIN edges' = DOMAIN edges \cup {c.node}
        /\ \A p \in DOMAIN edges : edges'[p] = edges[p]
    BY <2>1
  <2>3. Stored' = Stored /\ Linking(t)'
    BY <1>a, <2>1, <2>2 DEF Stored, Linking
  <2>4. \A n : /\ AddedAt(t, n, Late) => AddedAt(t, n, Late)'
               /\ AddedAt(t, n, {"cache", "enqueue", "entry"}) => n \in DOMAIN edges'
    BY <1>a, <2>1, <2>2 DEF AddedAt, Late, c
  <2> QED BY <1>0, <2>1, <2>2, <2>3, <2>4, EdgesStep
<1>10. CASE Link(t)
  <2>0. PICK n : n = c.node
    OBVIOUS
  <2>1. PICK p \in c.todo :
          /\ edges' = [m \in DOMAIN edges |-> edges[m] \cup {d \in {n} : m = p}]
          /\ th' = [th EXCEPT ![t] = IF c.todo = {p} THEN Idle
                                     ELSE Onward(t, p, "link", c.todo \ {p})]
    BY <1>10, <2>0 DEF Link
  <2>2. c.pc = "link" /\ vertices' = vertices /\ raced' = raced
    BY <1>10 DEF Link, At
  <2>3. /\ c.op = "add" /\ n \in DOMAIN edges /\ c.todo \subseteq Parents[n]
        /\ Parents[n] \subseteq Stored
        /\ \A q \in Parents[n] \ c.todo : Attached(q, n)
    BY <1>0, <2>0, <2>2 DEF Knows, Checked, EInv, Linking
  <2>3a. PICK todo : todo = c.todo
    OBVIOUS
  <2> HIDE DEF c
  <2>4. /\ DOMAIN edges' = DOMAIN edges
        /\ \A q \in DOMAIN edges : edges[q] \subseteq edges'[q]
        /\ p \in DOMAIN edges => n \in edges'[p]
    BY <2>1
  <2>5. Attached(p, n)'
    <3>1. CASE p \in DOMAIN edges
      BY <3>1, <2>4 DEF Attached
    <3>2. CASE p \notin DOMAIN edges
      <4>1. p \in Stored /\ p # n
        BY <2>3, <3>2
      <4>2. PICK u \in Thread : AddedAt(u, p, {"cache", "enqueue", "entry"})
        BY <3>2, <4>1 DEF EInv, Entered
      <4>3. Adding(u) /\ Adding(t) /\ th[u].node = p /\ th[t].node = n /\ u # t
        BY <2>0, <2>2, <2>3, <4>1, <4>2 DEF AddedAt, Adding, At, c
      <4>4. {p, n} \in raced
        BY <4>1, <4>3 DEF WInv, Met
      <4> QED BY <2>2, <4>4 DEF Attached
    <3> QED BY <3>1, <3>2
  <2>6. \A q \in Parents[n] \ (todo \ {p}) : Attached(q, n)'
    <3>1. \A q : Attached(q, n) => Attached(q, n)'
      BY <2>2, <2>4 DEF Attached
    <3> QED BY <2>3, <2>3a, <2>5, <3>1
  <2>7. Stored' = Stored /\ \A m : ~AddedAt(t, m, {"cache", "enqueue", "entry"})
    BY <2>2 DEF Stored, AddedAt, c
  <2>8. CASE c.todo = {p}
    <3>1. th'[t].pc = "idle"
      BY <1>0, <2>1, <2>8
    <3>2. Linking(t)' /\ \A q \in Parents[n] : Attached(q, n)'
      BY <3>1, <2>3a, <2>6, <2>8 DEF Linking
    <3>3. \A m : AddedAt(t, m, Late) => m = n
      BY <2>0 DEF AddedAt, c
    <3> QED BY <1>0, <2>2, <2>4, <2>7, <3>2, <3>3, EdgesStep
  <2>9. CASE c.todo # {p}
    <3>1. th'[t] = Onward(t, p, "link", c.todo \ {p})
      BY <1>0, <2>1, <2>9
    <3>2. /\ th'[t].pc = "link" /\ th'[t].op = "add" /\ th'[t].node = n
          /\ th'[t].todo = todo \ {p}
      BY <1>0, <2>0, <2>3, <2>3a, <3>1 DEF Onward, Call, c
    <3>3. Linking(t)'
      BY <2>3, <2>4, <2>6, <3>2 DEF Linking
    <3>4. \A m : AddedAt(t, m, Late) => AddedAt(t, m, Late)'
      BY <2>0, <3>2 DEF AddedAt, Late, c
    <3> QED BY <1>0, <2>2, <2>4, <2>7, <3>3, <3>4, EdgesStep
  <2> QED BY <2>8, <2>9
<1> QED BY <1>1, <1>2, <1>3, <1>4, <1>5, <1>6, <1>7, <1>8, <1>9, <1>10 DEF Inside

LEMMA Overlaps == Spec => [](WInv /\ EInv)
<1>1. Init => WInv /\ EInv
  <2> SUFFICES ASSUME Init PROVE WInv /\ EInv
    OBVIOUS
  <2>1. Stored = {} /\ \A t \in Thread : th[t].pc = "idle"
    BY DEF Init, Stored, Idle
  <2> QED BY <2>1 DEF Init, WInv, Met, Replacing, Adding, At, EInv, Entered, Linking, Joined
<1>2. IInv /\ WInv /\ EInv /\ [Next]_vars => (WInv /\ EInv)'
  <2> SUFFICES ASSUME IInv, WInv, EInv, [Next]_vars PROVE (WInv /\ EInv)'
    OBVIOUS
  <2>1. CASE UNCHANGED vars
    <3>1. WInv'
      BY <2>1 DEF vars, WInv, Met, Replacing, Adding, At
    <3>2. EInv'
      BY <2>1 DEF vars, EInv, Entered, Linking, Joined, Attached, AddedAt, Stored
    <3> QED BY <3>1, <3>2
  <2>2. ASSUME NEW t \in Thread, Begin(t) \/ Inside(t) PROVE (WInv /\ EInv)'
    BY <2>2, GraphStoreAssumption, WStep, EStep
  <2> QED BY <2>1, <2>2 DEF Next
<1> QED BY <1>1, <1>2, Inductive, PTL DEF Spec

\* Parents and edges tell the truth about what is stored, and no edge is
\* missing but those of parents added together with their child (add_node
\* stores a vertex before it makes its entry).
THEOREM LinksTrueAlways == Spec => []LinksTrue
<1>1. IInv /\ WInv /\ EInv => LinksTrue
  <2> SUFFICES ASSUME IInv, WInv, EInv PROVE LinksTrue
    OBVIOUS
  <2>1. \A t \in Thread, n \in Stored : AddedAt(t, n, Late) => Adding(t) /\ th[t].node = n
    BY DEF AddedAt, Late, Adding, At
  <2>2. EdgesComplete
    BY <2>1 DEF EInv, Joined, EdgesComplete, Attached
  <2> QED BY <2>2 DEF IInv, LinksTrue
<1> QED BY <1>1, Inductive, Overlaps, PTL

-----------------------------------------------------------------------------
(* The cache and the pruning queue. *)

\* A cache as LruCache keeps it.
Lru(c) ==
  /\ c \in Seq([node : Node, state : NodeState]) /\ Len(c) <= CacheDepth
  /\ \A i, j \in 1..Len(c) : c[i].node = c[j].node => i = j

\* The answer of the cache is the entry of that name.
LEMMA EntryAnswers ==
  ASSUME Lru(cache), NEW i \in 1..Len(cache)
  PROVE  Cached(cache[i].node) /\ CachedState(cache[i].node) = cache[i].state
BY DEF Lru, Cached, CachedState, Place

\* put answers for n from now on, and says nothing new about the others.
LEMMA PutAnswers ==
  ASSUME GraphStoreAssumption, Lru(cache), NEW n \in Node, NEW s \in NodeState, cache' = Put(n, s)
  PROVE  /\ Lru(cache') /\ Cached(n)' /\ CachedState(n)' = s
         /\ \A m : m # n /\ Cached(m)' => Cached(m) /\ CachedState(m)' = CachedState(m)
<1> DEFINE E == [node : Node, state : NodeState]
           new == [node |-> n, state |-> s]
           old == Others(n)
           rest == IF Len(old) < CacheDepth THEN old ELSE SubSeq(old, 1, CacheDepth - 1)
           k == Place(n)
<1>0. cache \in Seq(E) /\ CacheDepth \in Nat \ {0} /\ Len(cache) \in Nat /\ Len(cache) <= CacheDepth
  BY DEF Lru, GraphStoreAssumption
\* Where the entries of the rest were.
<1>1. /\ old \in Seq(E)
      /\ \A i \in 1..Len(old) :
           \E j \in 1..Len(cache) : old[i] = cache[j] /\ old[i].node # n
                                    /\ j = IF Cached(n) /\ i >= k THEN i + 1 ELSE i
  <2>1. CASE ~Cached(n)
    BY <2>1, <1>0 DEF Others, Cached
  <2>2. CASE Cached(n)
    <3>1. k \in 1..Len(cache) /\ cache[k].node = n
      BY <2>2 DEF Cached, Place
    <3>2. old = SubSeq(cache, 1, k - 1) \o SubSeq(cache, k + 1, Len(cache))
      BY <2>2 DEF Others, RemoveAt
    <3> HIDE DEF k, old, E
    <3>3. /\ SubSeq(cache, 1, k - 1) \in Seq(E) /\ Len(SubSeq(cache, 1, k - 1)) = k - 1
          /\ \A i \in 1..(k - 1) : SubSeq(cache, 1, k - 1)[i] = cache[i]
      BY <3>1, <1>0
    <3>4. /\ SubSeq(cache, k + 1, Len(cache)) \in Seq(E)
          /\ Len(SubSeq(cache, k + 1, Len(cache))) = Len(cache) - k
          /\ \A i \in 1..(Len(cache) - k) : SubSeq(cache, k + 1, Len(cache))[i] = cache[i + k]
      BY <3>1, <1>0
    <3>5. /\ old \in Seq(E) /\ Len(old) = Len(cache) - 1
          /\ \A i \in 1..Len(old) : old[i] = IF i < k THEN cache[i] ELSE cache[i + 1]
      <4> DEFINE left == SubSeq(cache, 1, k - 1)
                 right == SubSeq(cache, k + 1, Len(cache))
      <4>1. /\ left \in Seq(E) /\ Len(left) = k - 1 /\ \A i \in 1..(k - 1) : left[i] = cache[i]
            /\ right \in Seq(E) /\ Len(right) = Len(cache) - k
            /\ \A i \in 1..(Len(cache) - k) : right[i] = cache[i + k]
            /\ old = left \o right
        BY <3>2, <3>3, <3>4
      <4> HIDE DEF left, right
      <4>2. /\ old \in Seq(E) /\ Len(old) = Len(cache) - 1
            /\ \A i \in 1..Len(old) : old[i] = IF i <= Len(left) THEN left[i] ELSE right[i - Len(left)]
        <5>1. /\ old \in Seq(E) /\ Len(old) = Len(left) + Len(right)
              /\ \A i \in 1..Len(left) + Len(right) :
                   old[i] = IF i <= Len(left) THEN left[i] ELSE right[i - Len(left)]
          BY <4>1, ConcatProperties
        <5>2. Len(left) + Len(right) = Len(cache) - 1
          BY <4>1, <3>1, <1>0
        <5> QED BY <5>1, <5>2
      <4>3. ASSUME NEW i \in 1..Len(old), i >= k PROVE right[i - Len(left)] = cache[i + 1]
        <5>1. i - Len(left) \in 1..(Len(cache) - k) /\ i - Len(left) + k = i + 1
          BY <4>1, <4>2, <4>3, <3>1, <1>0
        <5> QED BY <5>1, <4>1
      <4> QED BY <4>1, <4>2, <4>3, <3>1, <1>0
    <3>6. \A j \in 1..Len(cache) : j # k => cache[j].node # n
      BY <3>1 DEF Lru
    <3>7. ASSUME NEW i \in 1..Len(old)
          PROVE  \E j \in 1..Len(cache) : old[i] = cache[j] /\ old[i].node # n
                                           /\ j = IF i >= k THEN i + 1 ELSE i
      <4> DEFINE j == IF i >= k THEN i + 1 ELSE i
      <4>1. j \in 1..Len(cache) /\ j # k /\ old[i] = cache[j]
        BY <3>1, <3>5, <3>7, <1>0
      <4> HIDE DEF j
      <4> QED BY <4>1, <3>6 DEF j
    <3> QED BY <2>2, <3>5, <3>7
  <2> QED BY <2>1, <2>2
<1>2. cache' = <<new>> \o rest
  BY DEF Put
<1>3. new \in E
  OBVIOUS
<1> HIDE DEF old, E, k
<1>4. /\ rest \in Seq(E) /\ Len(rest) \in Nat /\ Len(rest) <= CacheDepth - 1
      /\ \A i \in 1..Len(rest) : i \in 1..Len(old) /\ rest[i] = old[i]
  BY <1>0, <1>1
<1> HIDE DEF rest, new
<1>5. /\ cache' \in Seq(E) /\ Len(cache') = Len(rest) + 1 /\ cache'[1] = new
      /\ \A i \in 2..Len(cache') : i - 1 \in 1..Len(rest) /\ cache'[i] = rest[i - 1]
  BY <1>2, <1>3, <1>4
<1>6. \A i \in 2..Len(cache') : \E j \in 1..Len(cache) :
        cache'[i] = cache[j] /\ cache'[i].node # n /\ j = IF Cached(n) /\ i - 1 >= k THEN i ELSE i - 1
  <2> TAKE i \in 2..Len(cache')
  <2>1. i - 1 \in 1..Len(old) /\ cache'[i] = old[i - 1] /\ (i - 1) + 1 = i
    BY <1>4, <1>5
  <2>2. PICK j \in 1..Len(cache) :
          old[i - 1] = cache[j] /\ old[i - 1].node # n
          /\ j = IF Cached(n) /\ i - 1 >= k THEN (i - 1) + 1 ELSE i - 1
    BY <1>1, <2>1
  <2> QED BY <2>1, <2>2
<1>7. new.node = n /\ new.state = s
  BY DEF new
<1>8. \A i, j \in 1..Len(cache') : cache'[i].node = cache'[j].node => i = j
  <2>1. ASSUME NEW i \in 2..Len(cache'), NEW j \in 2..Len(cache'), cache'[i].node = cache'[j].node, i < j
        PROVE  FALSE
    <3>1. PICK a \in 1..Len(cache) :
            cache'[i] = cache[a] /\ a = IF Cached(n) /\ i - 1 >= k THEN i ELSE i - 1
      BY <1>6
    <3>2. PICK b \in 1..Len(cache) :
            cache'[j] = cache[b] /\ b = IF Cached(n) /\ j - 1 >= k THEN j ELSE j - 1
      BY <1>6
    <3>3. a = b
      BY <2>1, <3>1, <3>2 DEF Lru
    <3>4. Cached(n) => k \in Int
      BY <1>0 DEF k, Cached, Place
    <3> QED BY <2>1, <3>1, <3>2, <3>3, <3>4
  <2>2. \A i \in 2..Len(cache') : cache'[i].node # n
    BY <1>6
  <2>3. cache'[1].node = n /\ Len(cache') \in Nat
    BY <1>4, <1>5, <1>7
  <2> QED BY <2>1, <2>2, <2>3
<1>9. Lru(cache')
  BY <1>0, <1>4, <1>5, <1>8 DEF Lru, E
<1>10. 1 \in 1..Len(cache') /\ cache'[1].node = n /\ cache'[1].state = s
  BY <1>4, <1>5, <1>7
<1>11. Cached(n)' /\ CachedState(n)' = s
  BY <1>8, <1>10 DEF Cached, CachedState, Place
<1>12. ASSUME NEW m, m # n, Cached(m)' PROVE Cached(m) /\ CachedState(m)' = CachedState(m)
  <2>1. PICK i \in 1..Len(cache') : cache'[i].node = m /\ CachedState(m)' = cache'[i].state
    BY <1>12 DEF Cached, CachedState, Place
  <2>2. i \in 2..Len(cache')
    BY <2>1, <1>10, <1>12, <1>4, <1>5
  <2>3. PICK j \in 1..Len(cache) : cache'[i] = cache[j]
    BY <2>2, <1>6
  <2> QED BY <2>1, <2>3, EntryAnswers
<1> QED BY <1>9, <1>11, <1>12

-----------------------------------------------------------------------------
(* What a writer relies on when no other call writes its vertex meanwhile: the
   state it has read is still the stored one when it stores the next.  v are
   the vertices and x the calls that have overlapped. *)

Ahead == {"full", "prune", "pop", "store"}

Relies(c, v, x) == {c.node} \notin x =>
  /\ c.pc \in Ahead \cup {"parents"} /\ c.op = "add" => v[c.node] = None
  /\ c.pc \in Ahead /\ c.op = "update" => Legal(v[c.node], c.state)
  /\ c.pc = "cache" => v[c.node] = c.state

\* A cached copy is the stored state, or an earlier one while the writer is
\* between the two.
Copies ==
  \A m \in Node : {m} \notin raced /\ Cached(m) =>
    /\ Later(CachedState(m), vertices[m])
    /\ CachedState(m) = vertices[m] \/ \E t \in Thread : th[t].pc = "cache" /\ th[t].node = m

AInv ==
  /\ Lru(cache)
  /\ qlock \in Thread \cup {Nobody} /\ calls \in Nat
  /\ \A t \in Thread : Relies(th[t], vertices, raced)
  /\ Copies
  /\ FinalIsQueued

LEMMA IdleRelies == \A v, x : Relies(Idle, v, x)
BY DEF Relies, Idle, Ahead

\* Only a store changes a vertex, and it is the writer's own.
LEMMA OnlyStored ==
  ASSUME NEW t \in Thread, Begin(t) \/ Inside(t), ~Store(t)
  PROVE  vertices' = vertices
BY DEF Begin, AddNode, UpdateNodeState, GetNode, Prune, Enter, Inside, Lookup, CacheHit, CacheMiss,
       ReadMain, CheckCapacity, CacheNode, Enqueue, LockQueue, Pop, UnlockQueue, Entry, Link

\* What a call relies on does not change when more calls overlap.
LEMMA ReliesLess ==
  ASSUME NEW c, NEW v, NEW x, NEW y, Relies(c, v, x), x \subseteq y
  PROVE  Relies(c, v, y)
BY DEF Relies

\* Nobody else writes a writer's vertex, unless the two have overlapped.
LEMMA NoOther ==
  ASSUME WInv, NEW t \in Thread, NEW u \in Thread, t # u, {th[t].node} \notin raced,
         th[t].pc \in Writes, th[t].op \in {"add", "update"},
         th[u].pc \in Writes, th[u].op \in {"add", "update"}
  PROVE  th[t].node # th[u].node
BY DEF WInv, Met, Replacing, Writes

\* Who is between the store and the cache is a writer.
LEMMA AtCache ==
  ASSUME IInv, NEW t \in Thread, th[t].pc = "cache"
  PROVE  th[t].op \in {"add", "update"} /\ th[t].node \in Node /\ th[t].state \in NodeState
BY DEF IInv, Knows, Checked, Call

-----------------------------------------------------------------------------
\* A lookup's answer is the stored state when its caller is the only writer.
LEMMA AnswerIsStored ==
  ASSUME IInv, WInv, AInv, NEW t \in Thread, th[t].pc \in {"exists", "fetch"},
         Cached(th[t].node), {th[t].node} \notin raced
  PROVE  CachedState(th[t].node) = vertices[th[t].node]
<1>1. th[t].op \in {"add", "update"} /\ th[t].node \in Node
  BY DEF IInv, Knows
<1>2. ASSUME NEW u \in Thread, th[u].pc = "cache", th[u].node = th[t].node PROVE FALSE
  <2>1. u # t /\ th[u].op \in {"add", "update"}
    BY <1>2, AtCache
  <2> QED BY <1>1, <1>2, <2>1, NoOther DEF Writes
<1> QED BY <1>1, <1>2 DEF AInv, Copies

LEMMA AnsweredRelies ==
  ASSUME IInv, AInv, NEW t \in Thread, th[t].pc \in Lookups,
         NEW n \in Wanted(t), NEW r,
         th[t].pc \in {"exists", "fetch"} /\ {n} \notin raced => r = vertices[n]
  PROVE  Relies(Answered(t, n, r), vertices, raced)
<1> DEFINE c == th[t]
<1>1. c \in Call /\ Knows(c, Stored) /\ Relies(c, vertices, raced)
  BY DEF IInv, AInv
<1>2. ASSUME NEW pc, NEW todo
      PROVE  /\ Onward(t, n, pc, todo).pc = pc /\ Onward(t, n, pc, todo).op = c.op
             /\ Onward(t, n, pc, todo).node = c.node /\ Onward(t, n, pc, todo).state = c.state
  BY <1>1 DEF Onward, Call
<1>3. c.pc # "parents" => n = c.node
  BY DEF Wanted, At
<1>4. ASSUME NEW todo, c.op = "add", {c.node} \notin raced => vertices[c.node] = None
      PROVE  Relies(CheckParents(t, n, todo), vertices, raced)
  <2> DEFINE pc == IF todo = {} THEN "full" ELSE "parents"
             d == CheckParents(t, n, todo)
  <2>1. d.pc = pc /\ d.op = c.op /\ d.node = c.node /\ d.state = c.state
    BY <1>2 DEF CheckParents
  <2> HIDE DEF d
  <2>2. Relies(d, vertices, raced)
    BY <1>1, <1>4, <2>1 DEF Relies, Ahead
  <2> QED BY <2>2 DEF d
<1>5. CASE c.pc = "exists"
  BY <1>1, <1>3, <1>4, <1>5, IdleRelies DEF Answered, Knows
<1>6. CASE c.pc = "parents"
  <2>1. c.op = "add" /\ ({c.node} \notin raced => vertices[c.node] = None)
    BY <1>1, <1>6 DEF Knows, Relies
  <2>2. Relies(CheckParents(t, n, c.todo \ {n}), vertices, raced)
    BY <1>4, <1>6, <2>1
  <2> QED BY <1>6, <2>2, IdleRelies DEF Answered
<1>7. CASE c.pc = "fetch"
  <2> DEFINE d == Onward(t, n, "full", {})
  <2>1. c.op = "update" /\ n = c.node /\ ({n} \notin raced => r = vertices[n])
    BY <1>1, <1>3, <1>7 DEF Knows
  <2>2. d.pc = "full" /\ d.op = "update" /\ d.node = c.node /\ d.state = c.state
    BY <1>2, <2>1
  <2> HIDE DEF d
  <2>3. Legal(r, c.state) => Relies(d, vertices, raced)
    BY <1>1, <1>7, <2>1, <2>2 DEF Relies, Ahead
  <2>4. Answered(t, n, r) = Idle \/ (Answered(t, n, r) = d /\ Legal(r, c.state))
    BY <1>7 DEF Answered, d
  <2> QED BY <2>3, <2>4, IdleRelies
<1>8. CASE c.pc = "reread"
  <2> DEFINE d == Onward(t, n, "link", Parents[n])
  <2>1. d.pc = "link" /\ d.op = c.op /\ d.node = c.node
    BY <1>2
  <2> HIDE DEF d
  <2>2. Relies(d, vertices, raced)
    BY <1>1, <1>8, <2>1 DEF Relies, Ahead
  <2>3. Answered(t, n, r) \in {Idle, d}
    BY <1>8 DEF Answered, d
  <2> QED BY <2>2, <2>3, IdleRelies
<1>9. CASE c.pc = "get"
  BY <1>9, IdleRelies DEF Answered
<1> QED BY <1>5, <1>6, <1>7, <1>8, <1>9 DEF Lookups

\* A call that moves on by itself still relies on what it did.
LEMMA MovedRelies ==
  ASSUME AInv, NEW t \in Thread, NEW c, NEW v,
         c.op = th[t].op, c.node = th[t].node, c.state = th[t].state,
         \/ th[t].pc \in Ahead /\ c.pc \in Ahead /\ v = vertices
         \/ th[t].pc \in Lookups /\ c.pc = th[t].pc /\ v = vertices
         \/ c.pc \in {"enqueue", "entry", "reread", "link", "removing"}
         \/ c.pc = "cache" /\ v[c.node] = c.state
  PROVE  Relies(c, v, raced)
BY DEF AInv, Relies, Ahead, Lookups

LEMMA OwnRelies ==
  ASSUME IInv, WInv, AInv, NEW t \in Thread, Begin(t) \/ Inside(t)
  PROVE  Relies(th'[t], vertices', raced)
<1> DEFINE To(pc) == [th[t] EXCEPT !.pc = pc]
<1>0. th \in [Thread -> Call] /\ th[t] \in Call /\ Knows(th[t], Stored)
  BY DEF IInv
<1>a. \A pc : /\ To(pc).pc = pc /\ To(pc).op = th[t].op /\ To(pc).node = th[t].node
              /\ To(pc).state = th[t].state
  BY <1>0 DEF Call
<1>b. ASSUME NEW pc, Goto(t, pc) PROVE th'[t] = To(pc)
  BY <1>0, <1>b DEF Goto
<1> HIDE DEF To
<1>2. CASE Begin(t)
  <2>1. th'[t].pc \in {"exists", "fetch", "get"} \/ (th'[t].pc = "prune" /\ th'[t].op = "prune")
    BY <1>0, <1>2 DEF Begin, AddNode, UpdateNodeState, GetNode, Prune, Enter
  <2> QED BY <2>1 DEF Relies, Ahead
<1>3. CASE Lookup(t)
  <2>1. PICK n \in Wanted(t) : CacheHit(t, n) \/ CacheMiss(t, n) \/ ReadMain(t, n)
    BY <1>3 DEF Lookup
  <2>2. th[t].pc \in Lookups /\ vertices' = vertices
    BY <1>3, <2>1 DEF Lookup, CacheHit, CacheMiss, ReadMain
  <2>3. CASE CacheHit(t, n)
    <3>1. th[t].pc \in {"exists", "fetch"} /\ {n} \notin raced => CachedState(n) = vertices[n]
      BY <2>3, AnswerIsStored DEF Wanted, At, CacheHit
    <3>2. Relies(Answered(t, n, CachedState(n)), vertices, raced)
      BY <2>2, <3>1, AnsweredRelies
    <3>3. th'[t] = Answered(t, n, CachedState(n))
      BY <1>0, <2>3 DEF CacheHit
    <3> QED BY <2>2, <3>2, <3>3
  <2>4. CASE CacheMiss(t, n)
    <3> DEFINE c == [th[t] EXCEPT !.missed = @ \cup {n}]
    <3>1. th'[t] = c
      BY <1>0, <2>4 DEF CacheMiss
    <3>2. c.pc = th[t].pc /\ c.op = th[t].op /\ c.node = th[t].node /\ c.state = th[t].state
      BY <1>0 DEF Call
    <3> HIDE DEF c
    <3>3. Relies(c, vertices, raced)
      BY <2>2, <3>2, MovedRelies DEF Lookups
    <3> QED BY <2>2, <3>1, <3>3
  <2>5. CASE ReadMain(t, n)
    <3>1. Relies(Answered(t, n, vertices[n]), vertices, raced)
      BY <2>2, AnsweredRelies
    <3>2. th'[t] = Answered(t, n, vertices[n])
      BY <1>0, <2>5 DEF ReadMain
    <3> QED BY <2>2, <3>1, <3>2
  <2> QED BY <2>1, <2>3, <2>4, <2>5
<1>4. CASE CheckCapacity(t)
  <2>1. th'[t] \in {To("prune"), To("store")} /\ th[t].pc = "full" /\ vertices' = vertices
    BY <1>4, <1>b DEF CheckCapacity, At
  <2>2. Relies(To("prune"), vertices, raced) /\ Relies(To("store"), vertices, raced)
    BY <1>a, <2>1, MovedRelies DEF Ahead
  <2> QED BY <2>1, <2>2
<1>5. CASE Store(t)
  <2>1. th'[t] = To("cache") /\ th[t].pc = "store" /\ vertices' = [vertices EXCEPT ![th[t].node] = th[t].state]
    BY <1>5, <1>b DEF Store, At
  <2>2. th[t].node \in Node
    BY <1>0, <2>1 DEF Knows, Checked
  <2>3. vertices'[th[t].node] = th[t].state
    BY <2>1, <2>2 DEF IInv
  <2> HIDE DEF To
  <2>4. To("cache").pc = "cache" /\ vertices'[To("cache").node] = To("cache").state
    BY <1>a, <2>3
  <2>5. Relies(To("cache"), vertices', raced)
    BY <1>a, <2>4, MovedRelies
  <2> QED BY <2>1, <2>5
<1>6. CASE CacheNode(t)
  BY <1>6, <1>a, <1>b, MovedRelies DEF CacheNode, At
<1>7. CASE Enqueue(t)
  <2>1. CASE th[t].op = "add"
    BY <1>7, <2>1, <1>a, <1>b, MovedRelies DEF Enqueue, At
  <2>2. CASE th[t].op # "add"
    BY <1>0, <1>7, <2>2, IdleRelies DEF Enqueue
  <2> QED BY <2>1, <2>2
<1>8. ASSUME th[t].pc \in {"prune", "pop"} PROVE Relies(Pruned(t), vertices, raced)
  <2>1. Relies(To("store"), vertices, raced)
    BY <1>8, <1>a, MovedRelies DEF Ahead
  <2> QED BY <2>1, IdleRelies DEF Pruned, To
<1>9. CASE LockQueue(t)
  <2>1. CASE Size <= Threshold
    BY <1>0, <1>8, <1>9, <2>1 DEF LockQueue, At
  <2>2. CASE ~(Size <= Threshold)
    <3>1. th'[t] = To("pop") /\ th[t].pc = "prune" /\ vertices' = vertices
      BY <1>9, <1>b, <2>2 DEF LockQueue, At
    <3> QED BY <1>a, <3>1, MovedRelies DEF Ahead
  <2> QED BY <2>1, <2>2
<1>10. CASE Pop(t)
  <2> DEFINE c == [th[t] EXCEPT !.pc = "removing", !.todo = {Head(queue)}]
  <2>0. c.pc = "removing" /\ c.op = th[t].op /\ c.node = th[t].node /\ c.state = th[t].state
    BY <1>0 DEF Call
  <2>1. th'[t] = c \/ th' = th
    BY <1>0, <1>10 DEF Pop
  <2>2. th[t].pc = "pop" /\ vertices' = vertices
    BY <1>10 DEF Pop, At
  <2> HIDE DEF c
  <2>3. Relies(c, vertices, raced)
    BY <2>0, <2>2, MovedRelies
  <2> QED BY <2>1, <2>2, <2>3 DEF AInv
<1>11. CASE UnlockQueue(t)
  BY <1>0, <1>8, <1>11 DEF UnlockQueue, At
<1>12. CASE Entry(t)
  BY <1>12, <1>a, <1>b, MovedRelies DEF Entry, At
<1>13. CASE Link(t)
  <2>1. PICK p \in th[t].todo :
          th' = [th EXCEPT ![t] = IF th[t].todo = {p} THEN Idle
                                  ELSE Onward(t, p, "link", th[t].todo \ {p})]
    BY <1>13 DEF Link
  <2> DEFINE more == Onward(t, p, "link", th[t].todo \ {p})
  <2>2. more.pc = "link" /\ more.op = th[t].op /\ more.node = th[t].node /\ more.state = th[t].state
    BY <1>0 DEF Onward, Call
  <2>3. th'[t] \in {Idle, more}
    BY <1>0, <2>1
  <2> HIDE DEF more
  <2>4. \A v : Relies(more, v, raced)
    BY <1>13, <2>2, MovedRelies DEF Link, At
  <2> QED BY <2>3, <2>4, IdleRelies
<1> QED BY <1>2, <1>3, <1>4, <1>5, <1>6, <1>7, <1>9, <1>10, <1>11, <1>12, <1>13 DEF Inside

-----------------------------------------------------------------------------
(* The cache, and what it shows to a reader. *)

\* What a lookup would answer does not go back.
Onwards == \A m \in Node : {m} \notin raced => Later(Visible(m), Visible(m)')

LEMMA SameCache ==
  ASSUME AInv, cache' = cache, vertices' = vertices, raced \subseteq raced',
         \A u \in Thread : th[u].pc = "cache" => th'[u] = th[u]
  PROVE  Lru(cache') /\ Copies' /\ Onwards
<1>1. \A m : (Cached(m)' <=> Cached(m)) /\ CachedState(m)' = CachedState(m)
  BY DEF Cached, CachedState, Place
<1>2. \A m : Visible(m)' = Visible(m)
  BY <1>1 DEF Visible
<1> QED BY <1>1, <1>2 DEF AInv, Copies, Onwards, Later

\* Who is about to put something else stays there.
Undisturbed(n, s) ==
  \A u \in Thread :
    th[u].pc = "cache" /\ {th[u].node} \notin raced /\ (th[u].node # n \/ s # vertices[n])
      => th'[u] = th[u]

\* A put of the stored state, or of the copy that is there already, unless two
\* calls write the vertex.
Puts(n, s) ==
  /\ cache' = Put(n, s)
  /\ vertices' = vertices
  /\ {n} \in raced \/ s = vertices[n] \/ (Cached(n) /\ s = CachedState(n))
  /\ Undisturbed(n, s)
  /\ raced \subseteq raced'

LEMMA PutStep ==
  ASSUME GraphStoreAssumption, AInv, NEW n \in Node, NEW s \in NodeState, Puts(n, s)
  PROVE  Lru(cache') /\ Copies' /\ Onwards
<1> USE DEF Puts
<1>1. /\ Lru(cache') /\ Cached(n)' /\ CachedState(n)' = s
      /\ \A m : m # n /\ Cached(m)' => Cached(m) /\ CachedState(m)' = CachedState(m)
  BY PutAnswers DEF AInv
<1>2. ASSUME NEW m \in Node, {m} \notin raced, Cached(m)'
      PROVE  /\ Later(CachedState(m)', vertices'[m])
             /\ CachedState(m)' = vertices'[m] \/ \E u \in Thread : th'[u].pc = "cache" /\ th'[u].node = m
  <2>1. CASE CachedState(m)' = vertices[m]
    BY <2>1 DEF Later
  <2>2. CASE CachedState(m)' # vertices[m]
    <3>1. Cached(m) /\ CachedState(m)' = CachedState(m)
      BY <1>1, <1>2, <2>2
    <3>2. Later(CachedState(m), vertices[m])
          /\ \E u \in Thread : th[u].pc = "cache" /\ th[u].node = m
      BY <1>2, <2>2, <3>1 DEF AInv, Copies
    <3>3. \A u \in Thread : th[u].pc = "cache" /\ th[u].node = m => th'[u] = th[u]
      BY <1>1, <1>2, <2>2 DEF Undisturbed
    <3> QED BY <3>1, <3>2, <3>3
  <2> QED BY <2>1, <2>2
<1>3. ASSUME NEW m \in Node, {m} \notin raced PROVE Later(Visible(m), Visible(m)')
  <2>1. Cached(m) => Later(CachedState(m), vertices[m])
    BY <1>3 DEF AInv, Copies
  <2>2. CASE m = n
    BY <1>1, <1>3, <2>1, <2>2 DEF Visible, Later
  <2>3. CASE m # n
    BY <1>1, <2>1, <2>3 DEF Visible, Later
  <2> QED BY <2>2, <2>3
<1> QED BY <1>1, <1>2, <1>3 DEF Copies, Onwards

LEMMA StoreStep ==
  ASSUME IInv, WInv, AInv, NEW t \in Thread, Store(t)
  PROVE  Lru(cache') /\ Copies' /\ Onwards
<1> DEFINE n == th[t].node
           s == th[t].state
<1>1. /\ th[t].pc = "store" /\ cache' = cache /\ vertices' = [vertices EXCEPT ![n] = s]
      /\ th' = [th EXCEPT ![t].pc = "cache"] /\ raced' = raced
  BY DEF Store, At, Goto
<1>2. /\ th \in [Thread -> Call] /\ vertices \in [Node -> NodeState \cup {None}]
      /\ n \in Node /\ th[t].op \in {"add", "update"} /\ s \in NodeState
      /\ Relies(th[t], vertices, raced)
  BY <1>1 DEF IInv, AInv, Knows, Checked, Call
<1>3. /\ th'[t].pc = "cache" /\ th'[t].node = n
      /\ \A u \in Thread : u # t => th'[u] = th[u]
  BY <1>1, <1>2 DEF Call
<1>4. vertices'[n] = s /\ \A m \in Node : m # n => vertices'[m] = vertices[m]
  BY <1>1, <1>2
<1>5. \A m : (Cached(m)' <=> Cached(m)) /\ CachedState(m)' = CachedState(m)
  BY <1>1 DEF Cached, CachedState, Place
<1>6. ASSUME NEW u \in Thread, th[u].pc = "cache"
      PROVE  u # t /\ ({n} \notin raced => th[u].node # n)
  <2>1. u # t /\ th[u].op \in {"add", "update"}
    BY <1>1, <1>6, AtCache
  <2> QED BY <1>1, <1>2, <1>6, <2>1, NoOther DEF Writes
\* What is stored, and what is cached of it, is older.
<1>7. ASSUME {n} \notin raced PROVE Later(vertices[n], s)
  <2>1. CASE th[t].op = "add"
    BY <2>1, <1>1, <1>2, <1>7 DEF Relies, Ahead, Later
  <2>2. CASE th[t].op = "update"
    <3>1. Legal(vertices[n], s)
      BY <2>2, <1>1, <1>2, <1>7 DEF Relies, Ahead
    <3> QED BY <3>1 DEF Legal, Later, None
  <2> QED BY <1>2, <2>1, <2>2
<1>8. {n} \notin raced /\ Cached(n) => CachedState(n) = vertices[n]
  BY <1>2, <1>6 DEF AInv, Copies
<1> HIDE DEF n, s
<1>9. ASSUME NEW m \in Node, {m} \notin raced, Cached(m)
      PROVE  /\ Later(CachedState(m), vertices'[m])
             /\ CachedState(m) = vertices'[m] \/ \E u \in Thread : th'[u].pc = "cache" /\ th'[u].node = m
  <2>1. CASE m = n
    BY <2>1, <1>3, <1>4, <1>7, <1>8, <1>9
  <2>2. CASE m # n
    BY <2>2, <1>3, <1>4, <1>6, <1>9 DEF AInv, Copies
  <2> QED BY <2>1, <2>2
<1>10. \A m \in Node : {m} \notin raced => Later(Visible(m), Visible(m)')
  BY <1>4, <1>5, <1>7 DEF Visible, Later
<1> QED BY <1>1, <1>5, <1>9, <1>10 DEF AInv, Copies, Onwards

LEMMA CacheStep ==
  ASSUME GraphStoreAssumption, IInv, WInv, AInv, NEW t \in Thread, Begin(t) \/ Inside(t)
  PROVE  Lru(cache') /\ Copies' /\ Onwards
<1>0. (\A u \in Thread : u # t => th'[u] = th[u]) /\ raced \subseteq raced'
  BY OnlyOwn, Races
<1>1. ASSUME cache' = cache, vertices' = vertices, th[t].pc # "cache"
      PROVE  Lru(cache') /\ Copies' /\ Onwards
  BY <1>0, <1>1, SameCache
<1>2. CASE Lookup(t)
  <2>1. PICK n \in Wanted(t) : CacheHit(t, n) \/ CacheMiss(t, n) \/ ReadMain(t, n)
    BY <1>2 DEF Lookup
  <2>2. th[t].pc \in Lookups /\ vertices' = vertices
    BY <1>2, <2>1 DEF Lookup, CacheHit, CacheMiss, ReadMain
  <2>3. n \in Node /\ th[t].pc # "cache" /\ vertices[n] \in NodeState \cup {None}
    BY <2>2 DEF IInv, Wanted, At, Knows, Lookups, Call
  <2>4. CASE CacheHit(t, n)
    <3>1. CachedState(n) \in NodeState
      <4>1. Place(n) \in 1..Len(cache)
        BY <2>4 DEF CacheHit, Cached, Place
      <4>2. cache[Place(n)] \in [node : Node, state : NodeState]
        BY <4>1, ElementOfSeq DEF AInv, Lru
      <4> QED BY <4>2 DEF CachedState
    <3>2. Undisturbed(n, CachedState(n)) /\ cache' = Put(n, CachedState(n)) /\ Cached(n)
      BY <1>0, <2>3, <2>4 DEF Undisturbed, CacheHit
    <3>3. Puts(n, CachedState(n))
      BY <1>0, <2>2, <3>2 DEF Puts
    <3> QED BY <2>3, <3>1, <3>3, PutStep
  <2>5. CASE CacheMiss(t, n)
    BY <1>1, <2>2, <2>3, <2>5 DEF CacheMiss
  <2>6. CASE ReadMain(t, n)
    <3>1. CASE vertices[n] = None
      <4>1. cache' = cache
        BY <2>6, <3>1 DEF ReadMain
      <4> QED BY <4>1, <1>1, <2>2, <2>3
    <3>2. CASE vertices[n] # None
      <4>1. cache' = Put(n, vertices[n]) /\ vertices[n] \in NodeState
        BY <2>3, <2>6, <3>2 DEF ReadMain
      <4>2. \A u \in Thread : th[u].pc = "cache" => th'[u] = th[u]
        BY <1>0, <2>3
      <4>3. Puts(n, vertices[n])
        BY <1>0, <2>2, <4>1, <4>2 DEF Puts, Undisturbed
      <4> QED BY <2>3, <4>1, <4>3, PutStep
    <3> QED BY <3>1, <3>2
  <2> QED BY <2>1, <2>4, <2>5, <2>6
<1>3. CASE Store(t)
  BY <1>3, StoreStep
<1>4. CASE CacheNode(t)
  <2>1. th[t].pc = "cache" /\ cache' = Put(th[t].node, th[t].state) /\ vertices' = vertices
    BY <1>4 DEF CacheNode, At
  <2>2. th[t].node \in Node /\ th[t].state \in NodeState
    BY <2>1, AtCache
  <2>3. {th[t].node} \notin raced => th[t].state = vertices[th[t].node]
    BY <2>1 DEF AInv, Relies
  <2>4. Undisturbed(th[t].node, th[t].state)
    BY <1>0, <2>3 DEF Undisturbed
  <2>5. Puts(th[t].node, th[t].state)
    BY <1>0, <2>1, <2>3, <2>4 DEF Puts
  <2> QED BY <2>2, <2>5, PutStep
<1>5. CASE Begin(t)
  BY <1>1, <1>5 DEF Begin, AddNode, UpdateNodeState, GetNode, Prune, Enter, At
<1>6. CASE CheckCapacity(t) \/ Enqueue(t)
  BY <1>1, <1>6 DEF CheckCapacity, Enqueue, At
<1>7. CASE LockQueue(t) \/ Pop(t) \/ UnlockQueue(t)
  BY <1>1, <1>7 DEF LockQueue, Pop, UnlockQueue, At
<1>8. CASE Entry(t) \/ Link(t)
  BY <1>1, <1>8 DEF Entry, Link, At
<1> QED BY <1>2, <1>3, <1>4, <1>5, <1>6, <1>7, <1>8 DEF Inside

-----------------------------------------------------------------------------
(* The pruning queue, for any writers. *)

LEMMA QueueStep ==
  ASSUME IInv, FinalIsQueued, NEW t \in Thread, Begin(t) \/ Inside(t)
  PROVE  FinalIsQueued'
<1>0. /\ \A u \in Thread : u # t => th'[u] = th[u]
      /\ th \in [Thread -> Call] /\ queue \in Seq(Node) /\ Len(queue) \in Nat
  BY OnlyOwn DEF IInv
<1>1. ASSUME vertices' = vertices, queue' = queue, th[t].pc \notin {"cache", "enqueue", "removing"}
      PROVE  FinalIsQueued'
  BY <1>0, <1>1 DEF FinalIsQueued, Stored, At
<1>2. CASE Store(t)
  <2>1. /\ th[t].pc = "store" /\ queue' = queue /\ th'[t] = [th[t] EXCEPT !.pc = "cache"]
        /\ vertices' = [vertices EXCEPT ![th[t].node] = th[t].state]
    BY <1>0, <1>2 DEF Store, At, Goto
  <2>2. th'[t].pc = "cache" /\ th'[t].node = th[t].node
    BY <1>0, <2>1 DEF Call
  <2>3. \A m \in Node : m # th[t].node => vertices'[m] = vertices[m]
    BY <2>1 DEF IInv
  <2>4. ASSUME NEW m \in Stored, vertices[m] = "Final"
        PROVE  \/ \E i \in 1..Len(queue') : queue'[i] = m
               \/ \E u \in Thread : th'[u].node = m /\ th'[u].pc \in {"cache", "enqueue"}
               \/ \E u \in Thread : th'[u].pc = "removing" /\ m \in th'[u].todo
    <3>1. CASE \E i \in 1..Len(queue) : queue[i] = m
      BY <3>1, <2>1
    <3>2. CASE \E u \in Thread : th[u].node = m /\ th[u].pc \in {"cache", "enqueue"}
      BY <3>2, <1>0, <2>1
    <3>3. CASE \E u \in Thread : th[u].pc = "removing" /\ m \in th[u].todo
      BY <3>3, <1>0, <2>1
    <3> QED BY <3>1, <3>2, <3>3, <2>4 DEF FinalIsQueued, At
  <2>5. ASSUME NEW m \in Node, vertices'[m] = "Final", m # th[t].node
        PROVE  \/ \E i \in 1..Len(queue') : queue'[i] = m
               \/ \E u \in Thread : th'[u].node = m /\ th'[u].pc \in {"cache", "enqueue"}
               \/ \E u \in Thread : th'[u].pc = "removing" /\ m \in th'[u].todo
    BY <2>3, <2>4, <2>5 DEF Stored, None
  <2> QED BY <2>2, <2>5 DEF FinalIsQueued, Stored, At
<1>3. CASE CacheNode(t)
  <2>1. vertices' = vertices /\ queue' = queue /\ th[t].pc = "cache" /\ th'[t] = [th[t] EXCEPT !.pc = "enqueue"]
    BY <1>0, <1>3 DEF CacheNode, At, Goto
  <2>2. th'[t].pc = "enqueue" /\ th'[t].node = th[t].node
    BY <1>0, <2>1 DEF Call
  <2>3. ASSUME NEW m \in Stored, vertices[m] = "Final"
        PROVE  \/ \E i \in 1..Len(queue') : queue'[i] = m
               \/ \E u \in Thread : th'[u].node = m /\ th'[u].pc \in {"cache", "enqueue"}
               \/ \E u \in Thread : th'[u].pc = "removing" /\ m \in th'[u].todo
    <3>1. CASE \E i \in 1..Len(queue) : queue[i] = m
      BY <3>1, <2>1
    <3>2. CASE \E u \in Thread : th[u].node = m /\ th[u].pc \in {"cache", "enqueue"}
      <4>1. PICK u \in Thread : th[u].node = m /\ th[u].pc \in {"cache", "enqueue"}
        BY <3>2
      <4>2. th'[u].node = m /\ th'[u].pc \in {"cache", "enqueue"}
        BY <4>1, <1>0, <2>2
      <4> QED BY <4>2
    <3>3. CASE \E u \in Thread : th[u].pc = "removing" /\ m \in th[u].todo
      BY <3>3, <1>0, <2>1
    <3> QED BY <3>1, <3>2, <3>3, <2>3 DEF FinalIsQueued, At
  <2> QED BY <2>1, <2>3 DEF FinalIsQueued, Stored, At
<1>4. CASE Enqueue(t)
  <2>1. vertices' = vertices /\ queue' = Append(queue, th[t].node) /\ th[t].pc = "enqueue"
    BY <1>4 DEF Enqueue, At
  <2>2. th[t].node \in Node
    BY <2>1 DEF IInv, Knows, Checked
  <2>3. /\ Len(queue') = Len(queue) + 1 /\ queue'[Len(queue) + 1] = th[t].node
        /\ \A i \in 1..Len(queue) : queue'[i] = queue[i]
    BY <1>0, <2>1, <2>2, AppendProperties
  <2>4. /\ 1..Len(queue) \subseteq 1..Len(queue') /\ Len(queue) + 1 \in 1..Len(queue')
    BY <1>0, <2>3
  <2>5. ASSUME NEW m \in Stored, vertices[m] = "Final"
        PROVE  \/ \E i \in 1..Len(queue') : queue'[i] = m
               \/ \E u \in Thread : th'[u].node = m /\ th'[u].pc \in {"cache", "enqueue"}
               \/ \E u \in Thread : th'[u].pc = "removing" /\ m \in th'[u].todo
    <3>1. CASE \E i \in 1..Len(queue) : queue[i] = m
      BY <3>1, <2>3, <2>4
    <3>2. CASE \E u \in Thread : th[u].node = m /\ th[u].pc \in {"cache", "enqueue"}
      <4>1. PICK u \in Thread : th[u].node = m /\ th[u].pc \in {"cache", "enqueue"}
        BY <3>2
      <4>2. CASE u = t
        BY <4>1, <4>2, <2>3, <2>4
      <4>3. CASE u # t
        BY <4>1, <4>3, <1>0
      <4> QED BY <4>2, <4>3
    <3>3. CASE \E u \in Thread : th[u].pc = "removing" /\ m \in th[u].todo
      BY <3>3, <1>0, <2>1
    <3> QED BY <3>1, <3>2, <3>3, <2>5 DEF FinalIsQueued, At
  <2> QED BY <2>1, <2>5 DEF FinalIsQueued, Stored, At
<1>5. CASE Pop(t)
  <2> DEFINE h == Head(queue)
  <2>1. vertices' = vertices /\ queue # <<>> /\ queue' = Tail(queue) /\ th[t].pc = "pop"
    BY <1>5 DEF Pop, At
  <2>2. /\ h = queue[1] /\ Len(queue') = Len(queue) - 1 /\ Len(queue) >= 1
        /\ \A i \in 1..Len(queue') : queue'[i] = queue[i + 1]
    BY <1>0, <2>1, HeadTailProperties
  <2>3. vertices[h] = "Final" => th'[t].pc = "removing" /\ th'[t].todo = {h}
    BY <1>0, <1>5 DEF Pop, Call
  <2> HIDE DEF h
  <2>4. ASSUME NEW m \in Stored, vertices[m] = "Final"
        PROVE  \/ \E i \in 1..Len(queue') : queue'[i] = m
               \/ \E u \in Thread : th'[u].node = m /\ th'[u].pc \in {"cache", "enqueue"}
               \/ \E u \in Thread : th'[u].pc = "removing" /\ m \in th'[u].todo
    <3>1. CASE \E i \in 1..Len(queue) : queue[i] = m
      <4>1. PICK i \in 1..Len(queue) : queue[i] = m
        BY <3>1
      <4>2. CASE i = 1
        BY <4>1, <4>2, <2>2, <2>3, <2>4
      <4>3. CASE i # 1
        <5>1. i - 1 \in 1..Len(queue') /\ (i - 1) + 1 = i
          BY <4>3, <1>0, <2>2
        <5>2. queue'[i - 1] = m
          BY <4>1, <5>1, <2>2
        <5> QED BY <5>1, <5>2
      <4> QED BY <4>2, <4>3
    <3>2. CASE \E u \in Thread : th[u].node = m /\ th[u].pc \in {"cache", "enqueue"}
      BY <3>2, <1>0, <2>1
    <3>3. CASE \E u \in Thread : th[u].pc = "removing" /\ m \in th[u].todo
      BY <3>3, <1>0, <2>1
    <3> QED BY <3>1, <3>2, <3>3, <2>4 DEF FinalIsQueued, At
  <2> QED BY <2>1, <2>4 DEF FinalIsQueued, Stored, At
<1>6. CASE Begin(t)
  BY <1>1, <1>6 DEF Begin, AddNode, UpdateNodeState, GetNode, Prune, Enter, At
<1>7. CASE Lookup(t)
  BY <1>1, <1>7 DEF Lookup, Lookups, CacheHit, CacheMiss, ReadMain
<1>8. CASE CheckCapacity(t) \/ LockQueue(t) \/ UnlockQueue(t) \/ Entry(t) \/ Link(t)
  BY <1>1, <1>8 DEF CheckCapacity, LockQueue, UnlockQueue, Entry, Link, At
<1> QED BY <1>2, <1>3, <1>4, <1>5, <1>6, <1>7, <1>8 DEF Inside

-----------------------------------------------------------------------------
LEMMA AInit == ASSUME GraphStoreAssumption, Init PROVE AInv
<1>1. Lru(cache)
  BY DEF Init, Lru, GraphStoreAssumption
<1>2. Copies
  BY DEF Init, Copies, Cached
<1>3. FinalIsQueued
  BY DEF Init, FinalIsQueued, Stored
<1>4. \A t \in Thread : Relies(th[t], vertices, raced)
  BY IdleRelies DEF Init
<1> QED BY <1>1, <1>2, <1>3, <1>4 DEF Init, AInv

LEMMA AStep ==
  ASSUME GraphStoreAssumption, IInv, WInv, AInv, NEW t \in Thread, Begin(t) \/ Inside(t)
  PROVE  AInv'
<1>1. Lru(cache') /\ Copies' /\ FinalIsQueued'
  BY CacheStep, QueueStep DEF AInv
<1>2. ASSUME NEW u \in Thread PROVE Relies(th'[u], vertices', raced')
  <2>0. raced \subseteq raced'
    BY Races
  <2>1. CASE u = t
    BY <2>0, <2>1, OwnRelies, ReliesLess
  <2>2. CASE u # t
    <3>1. th'[u] = th[u] /\ Relies(th[u], vertices, raced)
      BY <2>2, OnlyOwn DEF AInv
    <3>2. CASE Store(t)
      <4>1. th[t].pc = "store" /\ vertices' = [vertices EXCEPT ![th[t].node] = th[t].state]
        BY <3>2 DEF Store, At
      <4>2. /\ th[t].op \in {"add", "update"} /\ th[t] \in Call
            /\ th[u] \in Call /\ Knows(th[u], Stored)
        BY <4>1 DEF IInv, Knows, Checked, Call
      <4>3. th[u].pc \in Writes /\ th[u].op \in {"add", "update"} /\ {th[u].node} \notin raced
              => th[u].node # th[t].node
        BY <2>2, <4>1, <4>2, NoOther DEF Writes
      <4>4. th[u].pc = "cache" => th[u].op \in {"add", "update"}
        BY AtCache
      <4>5. th[u].node # th[t].node => vertices'[th[u].node] = vertices[th[u].node]
        BY <4>1 DEF IInv
      <4>6. Relies(th'[u], vertices', raced)
        BY <3>1, <4>3, <4>4, <4>5 DEF Relies, Ahead, Writes
      <4> QED BY <2>0, <4>6, ReliesLess
    <3>3. CASE ~Store(t)
      <4>1. vertices' = vertices
        BY <3>3, OnlyStored
      <4> QED BY <2>0, <3>1, <4>1, ReliesLess
    <3> QED BY <3>2, <3>3
  <2> QED BY <2>1, <2>2
<1>3. qlock' \in Thread \cup {Nobody} /\ calls' \in Nat
  <2>1. CASE Begin(t)
    BY <2>1 DEF AInv, Begin, AddNode, UpdateNodeState, GetNode, Prune, Enter
  <2>2. CASE Inside(t)
    BY <2>2 DEF AInv, Inside, Lookup, CheckCapacity, Store, CacheNode, Enqueue, LockQueue, Pop,
                UnlockQueue, Entry, Link
  <2> QED BY <2>1, <2>2
<1> QED BY <1>1, <1>2, <1>3 DEF AInv

LEMMA Agreeing == Spec => []AInv
<1>1. Init => AInv
  BY AInit, GraphStoreAssumption
<1>2. IInv /\ WInv /\ AInv /\ [Next]_vars => AInv'
  <2> SUFFICES ASSUME IInv, WInv, AInv, [Next]_vars PROVE AInv'
    OBVIOUS
  <2>1. CASE UNCHANGED vars
    <3>1. Lru(cache') /\ Copies'
      BY <2>1, SameCache DEF vars
    <3>2. FinalIsQueued'
      BY <2>1 DEF vars, AInv, FinalIsQueued, Stored, At
    <3> QED BY <2>1, <3>1, <3>2 DEF vars, AInv
  <2>2. ASSUME NEW t \in Thread, Begin(t) \/ Inside(t) PROVE AInv'
    BY <2>2, AStep, GraphStoreAssumption
  <2> QED BY <2>1, <2>2 DEF Next
<1> QED BY <1>1, <1>2, Inductive, Overlaps, PTL DEF Spec

\* Whatever calls overlap, every Final vertex is where a prune will find it, and
\* the cache keeps no stale copy of a vertex but of those that two overlapping
\* calls of add_node or update_node_state have written.
THEOREM IndexesAgreeAlways == Spec => []IndexesAgree
<1>1. IInv /\ WInv /\ AInv => IndexesAgree
  <2> SUFFICES ASSUME IInv, WInv, AInv PROVE IndexesAgree
    OBVIOUS
  <2>1. TypeOK
    BY DEF IInv, WInv, AInv, TypeOK, Lru
  <2>2. CacheCoherent
    BY DEF AInv, Copies, CacheCoherent, Writing
  <2> QED BY <2>1, <2>2 DEF AInv, IndexesAgree
<1> QED BY <1>1, Inductive, Overlaps, Agreeing, PTL

\* No lookup is answered with an older state than a lookup before it, whatever
\* is cached, evicted or being written, until two calls that write the vertex
\* have overlapped.
THEOREM AnswersNeverRegressAlways == Spec => AnswersNeverRegress
<1>1. IInv /\ WInv /\ AInv /\ [Next]_vars => [Onwards]_vars
  BY CacheStep, GraphStoreAssumption DEF Next
<1>2. Onwards => \A n \in Node : {n} \notin raced => Later(Visible(n), Visible(n)')
  BY DEF Onwards
<1> QED BY <1>1, <1>2, Inductive, Overlaps, Agreeing, PTL DEF Spec, AnswersNeverRegress
=============================================================================
