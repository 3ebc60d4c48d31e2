-------------------------------- MODULE Dag --------------------------------
(***************************************************************************)
(* The asynchronous local DAG of core/dag/src/dag.rs: replicas of type Dag *)
(* shared by tokio tasks, each of which runs one submit_message or one     *)
(* sync_state call.                                                        *)
(*                                                                         *)
(* A step of the model is what a task does between two of its awaits: it   *)
(* takes a permit of the semaphore, takes the graph lock (an async RwLock, *)
(* so a task can be descheduled while holding it), waits for the consensus *)
(* mutex, and so on.  A task can be dropped at any await, which is what    *)
(* tokio::time::timeout or an aborted JoinHandle does; its guards are then *)
(* released by their destructors.                                          *)
(*                                                                         *)
(* A vertex is the message it was built from: a record with an id, a set   *)
(* of parent ids and a body, which stands for the payload and timestamp    *)
(* (the signature is always empty).  The HashMap of a replica is a set of  *)
(* vertices.  The map is a public field, so a caller can fill it with      *)
(* vertices no check has seen: the replicas of Foreign start with such a   *)
(* map, and sync_state must not let it into the others.                    *)
(***************************************************************************)
EXTENDS Naturals, FiniteSets

CONSTANTS
  Replicas,       \* the Dag instances
  Tasks,          \* the tokio tasks, each makes one call
  Ids,            \* vertex identifiers
  Bodies,         \* payload + timestamp
  Messages,       \* the messages clients submit
  MaxConcurrent,  \* permits of a replica's semaphore (Dag::new)
  Foreign,        \* replicas whose public vertices map was filled by hand
  Nobody          \* the holder of a free lock

Vertex == [id : Ids, parents : SUBSET Ids, body : Bodies]

ASSUME DagAssumption ==
  /\ Messages \subseteq Vertex
  /\ MaxConcurrent \in Nat \ {0}
  /\ Foreign \subseteq Replicas
  /\ Nobody \notin Tasks
  /\ IsFiniteSet(Tasks)

VARIABLES
  vertices,   \* vertices[r]: the graph of replica r
  tracked,    \* tracked[r]: the ids in QRAvalanche::vertices, all Pending
  tips,       \* tips[r]: QRAvalanche::tips
  permits,    \* permits[r]: permits left in the semaphore
  writer,     \* writer[r]: the task that holds r's write guard, or Nobody
  readers,    \* readers[r]: the tasks that hold a read guard of r
  call,       \* call[t]: the call t makes
  pc,         \* pc[t]: where t stands in it
  snapshot,   \* snapshot[t]: other_vertices of a sync_state call
  outcome     \* outcome[t]: what the call returned

graphVars == <<vertices, tracked, tips>>
lockVars  == <<permits, writer, readers>>
taskVars  == <<call, pc, snapshot, outcome>>
vars == <<vertices, tracked, tips, permits, writer, readers,
          call, pc, snapshot, outcome>>

SubmitCall == [op : {"submit"}, on : Replicas, msg : Messages]
SyncCall   == [op : {"sync"}, on : Replicas, from : Replicas]
NoCall     == [op |-> "none"]

IdsOf(g) == {v.id : v \in g}

Stage == {"idle", "permit", "lock", "check", "consensus",
          "read", "clone", "relock", "merge", "done"}

\* The awaits of the two calls, where a task can be dropped.
Awaiting == {"permit", "lock", "consensus", "read", "relock"}

Outcome == {"none", "ok", "conflict", "invalid", "cancelled"}

\* Every variable has the values its Rust type allows and no replica has
\* more permits than its semaphore was made with (dag.rs:46-66).
TypeOK ==
  /\ vertices \in [Replicas -> SUBSET Messages]
  /\ tracked  \in [Replicas -> SUBSET Ids]
  /\ tips     \in [Replicas -> SUBSET Ids]
  /\ permits  \in [Replicas -> 0 .. MaxConcurrent]
  /\ writer   \in [Replicas -> Tasks \cup {Nobody}]
  /\ readers  \in [Replicas -> SUBSET Tasks]
  /\ call     \in [Tasks -> SubmitCall \cup SyncCall \cup {NoCall}]
  /\ pc       \in [Tasks -> Stage]
  /\ snapshot \in [Tasks -> SUBSET Messages]
  /\ outcome  \in [Tasks -> Outcome]

(***************************************************************************)
(* The structural checks.                                                  *)
(***************************************************************************)
Closed(g) == \A v \in g : v.parents \subseteq IdsOf(g)

\* No cycle: every nonempty part of g has a vertex none of whose parents
\* is in that part.
WellFounded(g) ==
  \A S \in (SUBSET g) \ {{}} :
    \E v \in S : v.parents \cap IdsOf(S) = {}

\* sync_state's loop adds to "resolved" the vertices whose parents are all
\* resolved, until nothing changes; it resolves the whole of g exactly when
\* g is closed and has no cycle (DagResolve compares the two).
Resolvable(g) == Closed(g) /\ WellFounded(g)

Conflicting(g, h) == \E v \in g, w \in h : v.id = w.id /\ v # w

\* The staged union of sync_state: the vertices of h that g lacks.
Union(g, h) == g \cup {w \in h : w.id \notin IdsOf(g)}

\* Mutant: the graph lock is taken as if it were a read lock.
LockShared(r) == readers[r] = {}

LockFree(r) == writer[r] = Nobody /\ readers[r] = {}

(***************************************************************************)
(* submit_message.                                                         *)
(***************************************************************************)
StartSubmit(t, r, m) ==
  /\ pc[t] = "idle"
  /\ call' = [call EXCEPT ![t] = [op |-> "submit", on |-> r, msg |-> m]]
  /\ pc' = [pc EXCEPT ![t] = "permit"]
  /\ UNCHANGED <<graphVars, lockVars, snapshot, outcome>>

AcquirePermit(t) ==
  LET r == call[t].on IN
  /\ pc[t] = "permit"
  /\ permits[r] > 0
  /\ permits' = [permits EXCEPT ![r] = @ - 1]
  /\ pc' = [pc EXCEPT ![t] = "lock"]
  /\ UNCHANGED <<graphVars, writer, readers, call, snapshot, outcome>>

AcquireWrite(t) ==
  LET r == call[t].on IN
  /\ pc[t] = "lock"
  /\ LockFree(r)
  /\ writer' = [writer EXCEPT ![r] = t]
  /\ pc' = [pc EXCEPT ![t] = "check"]
  /\ UNCHANGED <<graphVars, permits, readers, call, snapshot, outcome>>

\* Ends a submit_message call: the write guard and the permit are dropped.
FinishSubmit(t, result) ==
  LET r == call[t].on IN
  /\ writer' = [writer EXCEPT ![r] = Nobody]
  /\ permits' = [permits EXCEPT ![r] = @ + 1]
  /\ pc' = [pc EXCEPT ![t] = "done"]
  /\ outcome' = [outcome EXCEPT ![t] = result]
  /\ UNCHANGED <<readers, call, snapshot>>

KnownId(r, m) == m.id \in IdsOf(vertices[r])
\* Mutant: a message may name parents the graph does not have.
OwnParent(r, m) == m.id \in m.parents

BadParents(r, m) ==
  \/ m.id \in m.parents
  \/ ~(m.parents \subseteq IdsOf(vertices[r]))

\* The early returns, in the order of the code: a known id is a conflict
\* whatever its parents are.
RejectSubmit(t) ==
  LET r == call[t].on
      m == call[t].msg
  IN
  /\ pc[t] = "check"
  /\ KnownId(r, m) \/ BadParents(r, m)
  /\ FinishSubmit(t, IF KnownId(r, m) THEN "conflict" ELSE "invalid")
  /\ UNCHANGED graphVars

PassChecks(t) ==
  LET r == call[t].on
      m == call[t].msg
  IN
  /\ pc[t] = "check"
  /\ ~KnownId(r, m)
  /\ ~BadParents(r, m)
  /\ pc' = [pc EXCEPT ![t] = "consensus"]
  /\ UNCHANGED <<graphVars, lockVars, call, snapshot, outcome>>

\* process_vertex under the consensus mutex, then the insertion: there is
\* no await between the two.  process_vertex adds the id to the tips and
\* leaves its parents there.
Admit(t) ==
  LET r == call[t].on
      m == call[t].msg
  IN
  /\ pc[t] = "consensus"
  /\ tracked' = [tracked EXCEPT ![r] = @ \cup {m.id}]
  /\ tips' = [tips EXCEPT ![r] = @ \cup {m.id}]
  /\ vertices' = [vertices EXCEPT ![r] = {v \in @ : v.id # m.id} \cup {m}]
  /\ FinishSubmit(t, "ok")

(***************************************************************************)
(* sync_state.                                                             *)
(***************************************************************************)
StartSync(t, r, s) ==
  /\ pc[t] = "idle"
  /\ call' = [call EXCEPT ![t] = [op |-> "sync", on |-> r, from |-> s]]
  /\ pc' = [pc EXCEPT ![t] = "read"]
  /\ UNCHANGED <<graphVars, lockVars, snapshot, outcome>>

AcquireRead(t) ==
  LET s == call[t].from IN
  /\ pc[t] = "read"
  /\ writer[s] = Nobody
  /\ readers' = [readers EXCEPT ![s] = @ \cup {t}]
  /\ pc' = [pc EXCEPT ![t] = "clone"]
  /\ UNCHANGED <<graphVars, permits, writer, call, snapshot, outcome>>

\* Mutant: the read guard lives until the call returns.
CloneKeepingGuard(t) ==
  LET s == call[t].from IN
  /\ pc[t] = "clone"
  /\ snapshot' = [snapshot EXCEPT ![t] = vertices[s]]
  /\ pc' = [pc EXCEPT ![t] = "relock"]
  /\ UNCHANGED <<graphVars, permits, writer, readers, call, outcome>>

\* The snapshot is taken and the read guard dropped before the write lock
\* is asked for.
CloneOther(t) ==
  LET s == call[t].from IN
  /\ pc[t] = "clone"
  /\ snapshot' = [snapshot EXCEPT ![t] = vertices[s]]
  /\ readers' = [readers EXCEPT ![s] = @ \ {t}]
  /\ pc' = [pc EXCEPT ![t] = "relock"]
  /\ UNCHANGED <<graphVars, permits, writer, call, outcome>>

AcquireSyncWrite(t) ==
  LET r == call[t].on IN
  /\ pc[t] = "relock"
  /\ LockFree(r)
  /\ writer' = [writer EXCEPT ![r] = t]
  /\ pc' = [pc EXCEPT ![t] = "merge"]
  /\ UNCHANGED <<graphVars, permits, readers, call, snapshot, outcome>>

FinishSync(t, result) ==
  /\ writer' = [writer EXCEPT ![call[t].on] = Nobody]
  /\ pc' = [pc EXCEPT ![t] = "done"]
  /\ outcome' = [outcome EXCEPT ![t] = result]
  /\ UNCHANGED <<permits, readers, call, snapshot>>

RefuseSync(t) ==
  LET r == call[t].on IN
  /\ pc[t] = "merge"
  /\ \/ /\ Conflicting(vertices[r], snapshot[t])
        /\ FinishSync(t, "conflict")
     \/ /\ ~Conflicting(vertices[r], snapshot[t])
        /\ ~Resolvable(Union(vertices[r], snapshot[t]))
        /\ FinishSync(t, "invalid")
  /\ UNCHANGED graphVars

\* Mutant: the snapshot replaces the graph.
CommitSnapshot(t) ==
  LET r == call[t].on IN
  /\ pc[t] = "merge"
  /\ ~Conflicting(vertices[r], snapshot[t])
  /\ Resolvable(Union(vertices[r], snapshot[t]))
  /\ vertices' = [vertices EXCEPT ![r] = snapshot[t]]
  /\ FinishSync(t, "ok")
  /\ UNCHANGED <<tracked, tips>>

\* The consensus instance is not told of the merged vertices.
CommitSync(t) ==
  LET r == call[t].on IN
  /\ pc[t] = "merge"
  /\ ~Conflicting(vertices[r], snapshot[t])
  /\ Resolvable(Union(vertices[r], snapshot[t]))
  /\ vertices' = [vertices EXCEPT ![r] = Union(@, snapshot[t])]
  /\ FinishSync(t, "ok")
  /\ UNCHANGED <<tracked, tips>>

(***************************************************************************)
(* The future of a call is dropped at an await: whatever guard it holds is *)
(* released.                                                               *)
(***************************************************************************)
HoldsPermit(t) == call[t].op = "submit" /\ pc[t] \in {"lock", "check", "consensus"}

\* Mutant: a call dropped while it waits for consensus keeps its permit.
DropKeepingPermit(t) ==
  /\ pc[t] \in Awaiting
  /\ writer' = [r \in Replicas |-> IF writer[r] = t THEN Nobody ELSE writer[r]]
  /\ pc' = [pc EXCEPT ![t] = "done"]
  /\ outcome' = [outcome EXCEPT ![t] = "cancelled"]
  /\ UNCHANGED <<graphVars, permits, readers, call, snapshot>>

Drop(t) ==
  /\ pc[t] \in Awaiting
  /\ writer' = [r \in Replicas |-> IF writer[r] = t THEN Nobody ELSE writer[r]]
  /\ permits' = IF HoldsPermit(t) THEN [permits EXCEPT ![call[t].on] = @ + 1]
                                  ELSE permits
  /\ pc' = [pc EXCEPT ![t] = "done"]
  /\ outcome' = [outcome EXCEPT ![t] = "cancelled"]
  /\ UNCHANGED <<graphVars, readers, call, snapshot>>

-----------------------------------------------------------------------------
\* A HashMap holds one vertex per id.
IsMap(g) == \A v, w \in g : v.id = w.id => v = w

Init ==
  /\ vertices \in [Replicas -> {g \in SUBSET Messages : IsMap(g)}]
  /\ \A r \in Replicas \ Foreign : vertices[r] = {}
  /\ tracked  = [r \in Replicas |-> {}]
  /\ tips     = [r \in Replicas |-> {}]
  /\ permits  = [r \in Replicas |-> MaxConcurrent]
  /\ writer   = [r \in Replicas |-> Nobody]
  /\ readers  = [r \in Replicas |-> {}]
  /\ call     = [t \in Tasks |-> NoCall]
  /\ pc       = [t \in Tasks |-> "idle"]
  /\ snapshot = [t \in Tasks |-> {}]
  /\ outcome  = [t \in Tasks |-> "none"]

Start(t) ==
  \/ \E r \in Replicas, m \in Messages : StartSubmit(t, r, m)
  \/ \E r, s \in Replicas : StartSync(t, r, s)

\* What a started task does by itself, once it is scheduled.
Step(t) ==
  \/ AcquirePermit(t)
  \/ AcquireWrite(t)
  \/ RejectSubmit(t)
  \/ PassChecks(t)
  \/ Admit(t)
  \/ AcquireRead(t)
  \/ CloneOther(t)
  \/ AcquireSyncWrite(t)
  \/ RefuseSync(t)
  \/ CommitSync(t)

Next == \E t \in Tasks : Start(t) \/ Step(t) \/ Drop(t)

Spec == Init /\ [][Next]_vars

\* The runtime polls every task that can make progress; nobody is obliged
\* to start a call or to drop one.
FairSpec == Spec /\ \A t \in Tasks : WF_vars(Step(t))

-----------------------------------------------------------------------------
(***************************************************************************)
(* What the module promises.                                               *)
(***************************************************************************)
Honest == Replicas \ Foreign

Submitted(t, r) == call[t].op = "submit" /\ call[t].on = r /\ outcome[t] = "ok"

\* The graph of a replica nobody wrote by hand is at every moment a map, is
\* closed under parents and has no cycle, whatever races and whatever graph
\* it is synchronised with (the checks of submit_message, dag.rs:76-88, and
\* the validation of the union, dag.rs:117-135).
GraphSound ==
  \A r \in Honest : IsMap(vertices[r]) /\ Resolvable(vertices[r])

\* Of the calls that submit the same id to one replica at most one returns
\* Ok: the check of dag.rs:76 and the insertion of dag.rs:94 are under one
\* write lock although the consensus lock is awaited in between.
OneWinner ==
  \A t, u \in Tasks, r \in Replicas :
    /\ Submitted(t, r) /\ Submitted(u, r)
    /\ call[t].msg.id = call[u].msg.id
    => t = u

\* What a call that returned Ok put in the graph is still there, unchanged,
\* after everything that happened since ("Return only after local admission
\* succeeds", dag.rs:68).
AnswersHold ==
  \A t \in Tasks :
    outcome[t] = "ok" =>
      IF call[t].op = "submit" THEN call[t].msg \in vertices[call[t].on]
                               ELSE snapshot[t] \subseteq vertices[call[t].on]

\* The consensus instance of a replica tracks exactly the vertices whose
\* submit_message returned Ok: a call dropped while it waits for the
\* consensus lock (dag.rs:93) leaves no trace in it.
ConsensusTracksAdmitted ==
  \A r \in Replicas :
    tracked[r] = {call[t].msg.id : t \in {u \in Tasks : Submitted(u, r)}}

\* A call dropped at any of its awaits gives its permit and its guards
\* back: no permit is lost or made up (the RAII guards of dag.rs:70-75), and
\* nobody who is done holds a lock.
NothingLeaks ==
  \A r \in Replicas :
    /\ permits[r] + Cardinality({t \in Tasks : HoldsPermit(t) /\ call[t].on = r})
         = MaxConcurrent
    /\ \A t \in Tasks : pc[t] = "done" => writer[r] # t /\ t \notin readers[r]

\* Between replicas that only went through the API a synchronisation fails
\* with a conflict or not at all: the union of two sound graphs that agree
\* on their common ids has no cycle and no missing parent, however much both
\* changed between the snapshot (dag.rs:102) and the lock (dag.rs:103).
HonestSyncIsValid ==
  \A t \in Tasks :
    call[t].op = "sync" /\ call[t].on \in Honest /\ call[t].from \in Honest
      => outcome[t] # "invalid"

\* The three together: what the calls on replicas that only went through the
\* API answer is true, when they answer and ever after.
AnswersTrue == AnswersHold /\ OneWinner /\ HonestSyncIsValid

\* And these: however calls end, dropped ones included, nothing is left of
\* them but what they answered.
EndsClean == TypeOK /\ ConsensusTracksAdmitted /\ NothingLeaks

\* Every call that starts returns, whatever the others do: a task that syncs
\* with itself or two replicas that sync with each other do not wait for
\* each other's guards (dag.rs:100-101).
CallsReturn == \A t \in Tasks : pc[t] # "idle" ~> pc[t] = "done"

\* The honest replicas are append-only graphs (AppendOnlyDag).
Abstract == INSTANCE AppendOnlyDag
              WITH Owners <- Honest, graph <- [r \in Honest |-> vertices[r]]
RefinesAppendOnlyDag == Abstract!Spec
=============================================================================
