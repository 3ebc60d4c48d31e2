----------------------------- MODULE DagProofs -----------------------------
(***************************************************************************)
(* Proofs about Dag, for any replicas, tasks, messages and number of       *)
(* permits.  The inductive invariant adds to the type correctness what the *)
(* write guard protects: a task that passed the checks of submit_message   *)
(* still holds the guard, so what it checked is still true when it         *)
(* inserts, however long it waited for the consensus lock.                 *)
(***************************************************************************)
EXTENDS Dag, FiniteSetTheorems, TLAPS

\* The operation of a started task is the one its place in the code is in.
StagesMatch ==
  \A t \in Tasks :
    /\ pc[t] \in {"permit", "lock", "check", "consensus"} => call[t] \in SubmitCall
    /\ pc[t] \in {"read", "clone", "relock", "merge"} => call[t] \in SyncCall
    /\ pc[t] = "idle" => call[t] = NoCall /\ snapshot[t] = {}
    /\ pc[t] = "done" => call[t] \in SubmitCall \cup SyncCall
    /\ outcome[t] # "none" => pc[t] = "done"

\* Who is inside a critical section holds the write guard of its replica.
GuardHeld ==
  \A t \in Tasks :
    pc[t] \in {"check", "consensus", "merge"} => writer[call[t].on] = t

\* What submit_message checked holds until it inserts.
ChecksStand ==
  \A t \in Tasks :
    pc[t] = "consensus" =>
      /\ ~KnownId(call[t].on, call[t].msg)
      /\ ~BadParents(call[t].on, call[t].msg)

\* Every map is a map, and the snapshot of an honest replica is sound.
MapsAndSnapshots ==
  /\ \A r \in Replicas : IsMap(vertices[r])
  /\ \A t \in Tasks :
       /\ IsMap(snapshot[t])
       /\ call[t].op = "sync" /\ call[t].from \in Honest => Resolvable(snapshot[t])

\* TypeOK but for the bound on the permits, which is a matter of counting.
Types ==
  /\ vertices \in [Replicas -> SUBSET Messages]
  /\ tracked  \in [Replicas -> SUBSET Ids]
  /\ tips     \in [Replicas -> SUBSET Ids]
  /\ writer   \in [Replicas -> Tasks \cup {Nobody}]
  /\ readers  \in [Replicas -> SUBSET Tasks]
  /\ call     \in [Tasks -> SubmitCall \cup SyncCall \cup {NoCall}]
  /\ pc       \in [Tasks -> Stage]
  /\ snapshot \in [Tasks -> SUBSET Messages]
  /\ outcome  \in [Tasks -> Outcome]

Control == Types /\ StagesMatch
IndInv  == Control /\ GuardHeld /\ ChecksStand /\ MapsAndSnapshots /\ GraphSound

-----------------------------------------------------------------------------
(***************************************************************************)
(* Graphs.                                                                 *)
(***************************************************************************)

\* A sound graph stays sound when a vertex with a fresh id, no self-loop and
\* known parents is inserted (submit_message).
LEMMA InsertSound ==
  ASSUME NEW g \in SUBSET Vertex, NEW m \in Vertex,
         IsMap(g), Resolvable(g),
         m.id \notin IdsOf(g), m.id \notin m.parents, m.parents \subseteq IdsOf(g)
  PROVE  IsMap(g \cup {m}) /\ Resolvable(g \cup {m})
<1>1. IsMap(g \cup {m})
  BY DEF IsMap, IdsOf
<1>2. Closed(g \cup {m})
  BY DEF Resolvable, Closed, IdsOf
<1>3. WellFounded(g \cup {m})
  <2> SUFFICES ASSUME NEW T \in (SUBSET (g \cup {m})) \ {{}}
               PROVE  \E v \in T : v.parents \cap IdsOf(T) = {}
    BY DEF WellFounded
  <2>1. CASE T \cap g = {}
    <3>1. T = {m}
      BY <2>1
    <3>2. IdsOf(T) = {m.id}
      BY <3>1 DEF IdsOf
    <3> QED BY <3>1, <3>2
  <2>2. CASE T \cap g # {}
    <3>1. PICK v \in T \cap g : v.parents \cap IdsOf(T \cap g) = {}
      BY <2>2 DEF Resolvable, WellFounded
    <3>2. v.parents \subseteq IdsOf(g)
      BY DEF Resolvable, Closed
    <3>3. IdsOf(T) \subseteq IdsOf(T \cap g) \cup {m.id}
      BY DEF IdsOf
    <3>4. m.id \notin v.parents
      BY <3>2
    <3>5. v.parents \cap IdsOf(T) = {}
      BY <3>1, <3>3, <3>4
    <3> QED BY <3>5
  <2> QED BY <2>1, <2>2
<1> QED BY <1>1, <1>2, <1>3 DEF Resolvable

\* The staged union of two maps is a map.
LEMMA UnionIsMap ==
  ASSUME NEW g \in SUBSET Vertex, NEW h \in SUBSET Vertex, IsMap(g), IsMap(h)
  PROVE  IsMap(Union(g, h))
BY DEF IsMap, Union, IdsOf

\* The union of two sound graphs that agree on their common ids is sound: a
\* path that enters the part of g never leaves it.
LEMMA UnionSound ==
  ASSUME NEW g \in SUBSET Vertex, NEW h \in SUBSET Vertex,
         Resolvable(g), Resolvable(h), ~Conflicting(g, h)
  PROVE  Resolvable(Union(g, h))
<1> DEFINE u == Union(g, h)
<1>1. IdsOf(u) = IdsOf(g) \cup IdsOf(h)
  BY DEF Union, IdsOf
<1>2. Closed(u)
  BY <1>1 DEF Resolvable, Closed, Union
<1>3. WellFounded(u)
  <2> SUFFICES ASSUME NEW T \in (SUBSET u) \ {{}}
               PROVE  \E v \in T : v.parents \cap IdsOf(T) = {}
    BY DEF WellFounded
  <2>1. CASE T \cap g = {}
    <3>1. T \in (SUBSET h) \ {{}}
      BY <2>1 DEF Union
    <3> QED BY <3>1 DEF Resolvable, WellFounded
  <2>2. CASE T \cap g # {}
    <3>1. PICK v \in T \cap g : v.parents \cap IdsOf(T \cap g) = {}
      BY <2>2 DEF Resolvable, WellFounded
    <3>2. v.parents \subseteq IdsOf(g)
      BY DEF Resolvable, Closed
    <3>3. \A w \in T : w.id \in IdsOf(g) => w.id \in IdsOf(T \cap g)
      BY DEF Union, IdsOf
    <3> QED BY <3>1, <3>2, <3>3 DEF IdsOf
  <2> QED BY <2>1, <2>2
<1> QED BY <1>2, <1>3 DEF Resolvable

-----------------------------------------------------------------------------
(***************************************************************************)
(* The inductive invariant.                                                *)
(***************************************************************************)

LEMMA MessagesAreVertices ==
  /\ Messages \subseteq Vertex
  /\ \A m \in Messages : m.id \in Ids /\ m.parents \subseteq Ids
BY DagAssumption DEF Vertex

LEMMA InitIndInv == Init => IndInv
<1> SUFFICES ASSUME Init PROVE IndInv
  OBVIOUS
<1> USE DEF Init
<1>1. Types
  BY DEF Types, Stage, Outcome
<1>2. StagesMatch
  BY DEF StagesMatch
<1>3. GuardHeld /\ ChecksStand
  BY DEF GuardHeld, ChecksStand
<1>4. IsMap({}) /\ Resolvable({})
  BY DEF IsMap, Resolvable, Closed, WellFounded
<1>5. MapsAndSnapshots
  BY <1>4 DEF MapsAndSnapshots
<1>6. GraphSound
  BY <1>4 DEF GraphSound, Honest
<1> QED BY <1>1, <1>2, <1>3, <1>5, <1>6 DEF IndInv, Control

\* One step keeps the types and the correspondence of calls and places.
LEMMA NextControl ==
  ASSUME Control, [Next]_vars
  PROVE  Control'
<1> USE DEF Control, Types, StagesMatch, Stage, Outcome, SubmitCall, SyncCall, NoCall
<1>1. CASE UNCHANGED vars
  BY <1>1 DEF vars
<1>2. ASSUME NEW t \in Tasks, NEW r \in Replicas, NEW m \in Messages, StartSubmit(t, r, m)
      PROVE  Control'
  BY <1>2 DEF StartSubmit, graphVars, lockVars
<1>3. ASSUME NEW t \in Tasks, AcquirePermit(t) PROVE Control'
  BY <1>3 DEF AcquirePermit, graphVars
<1>4. ASSUME NEW t \in Tasks, AcquireWrite(t) PROVE Control'
  BY <1>4 DEF AcquireWrite, graphVars
<1>5. ASSUME NEW t \in Tasks, RejectSubmit(t) PROVE Control'
  BY <1>5 DEF RejectSubmit, FinishSubmit, graphVars
<1>6. ASSUME NEW t \in Tasks, PassChecks(t) PROVE Control'
  BY <1>6 DEF PassChecks, graphVars, lockVars
<1>7. ASSUME NEW t \in Tasks, Admit(t) PROVE Control'
  BY <1>7, MessagesAreVertices DEF Admit, FinishSubmit
<1>8. ASSUME NEW t \in Tasks, NEW r \in Replicas, NEW s \in Replicas, StartSync(t, r, s)
      PROVE  Control'
  BY <1>8 DEF StartSync, graphVars, lockVars
<1>9. ASSUME NEW t \in Tasks, AcquireRead(t) PROVE Control'
  BY <1>9 DEF AcquireRead, graphVars
<1>10. ASSUME NEW t \in Tasks, CloneOther(t) PROVE Control'
  BY <1>10 DEF CloneOther, graphVars
<1>11. ASSUME NEW t \in Tasks, AcquireSyncWrite(t) PROVE Control'
  BY <1>11 DEF AcquireSyncWrite, graphVars
<1>12. ASSUME NEW t \in Tasks, RefuseSync(t) PROVE Control'
  BY <1>12 DEF RefuseSync, FinishSync, graphVars
<1>13. ASSUME NEW t \in Tasks, CommitSync(t) PROVE Control'
  BY <1>13 DEF CommitSync, FinishSync, Union
<1>14. ASSUME NEW t \in Tasks, Drop(t) PROVE Control'
  BY <1>14 DEF Drop, Awaiting, graphVars
<1> QED
  BY <1>1, <1>2, <1>3, <1>4, <1>5, <1>6, <1>7, <1>8, <1>9, <1>10, <1>11, <1>12,
     <1>13, <1>14 DEF Next, Start, Step

\* The guard of a critical section is not taken away, and what was checked
\* under it does not change.
LEMMA NextGuards ==
  ASSUME IndInv, [Next]_vars
  PROVE  GuardHeld' /\ ChecksStand'
<1> USE DEF IndInv, Control, Types, GuardHeld, ChecksStand, KnownId, BadParents
<1>n. Nobody \notin Tasks
  BY DagAssumption
<1>1. CASE UNCHANGED vars
  BY <1>1 DEF vars
<1>2. ASSUME NEW t \in Tasks, NEW r \in Replicas, NEW m \in Messages, StartSubmit(t, r, m)
      PROVE  GuardHeld' /\ ChecksStand'
  BY <1>2 DEF StartSubmit, graphVars, lockVars
<1>3. ASSUME NEW t \in Tasks, AcquirePermit(t) PROVE GuardHeld' /\ ChecksStand'
  BY <1>3 DEF AcquirePermit, graphVars
<1>4. ASSUME NEW t \in Tasks, AcquireWrite(t) PROVE GuardHeld' /\ ChecksStand'
  BY <1>4, <1>n DEF AcquireWrite, graphVars, LockFree, StagesMatch, SubmitCall
<1>5. ASSUME NEW t \in Tasks, RejectSubmit(t) PROVE GuardHeld' /\ ChecksStand'
  BY <1>5 DEF RejectSubmit, FinishSubmit, graphVars
<1>6. ASSUME NEW t \in Tasks, PassChecks(t) PROVE GuardHeld' /\ ChecksStand'
  BY <1>6 DEF PassChecks, graphVars, lockVars
<1>7. ASSUME NEW t \in Tasks, Admit(t) PROVE GuardHeld' /\ ChecksStand'
  BY <1>7 DEF Admit, FinishSubmit
<1>8. ASSUME NEW t \in Tasks, NEW r \in Replicas, NEW s \in Replicas, StartSync(t, r, s)
      PROVE  GuardHeld' /\ ChecksStand'
  BY <1>8 DEF StartSync, graphVars, lockVars
<1>9. ASSUME NEW t \in Tasks, AcquireRead(t) PROVE GuardHeld' /\ ChecksStand'
  BY <1>9 DEF AcquireRead, graphVars
<1>10. ASSUME NEW t \in Tasks, CloneOther(t) PROVE GuardHeld' /\ ChecksStand'
  BY <1>10 DEF CloneOther, graphVars
<1>11. ASSUME NEW t \in Tasks, AcquireSyncWrite(t) PROVE GuardHeld' /\ ChecksStand'
  BY <1>11, <1>n DEF AcquireSyncWrite, graphVars, LockFree, StagesMatch, SyncCall
<1>12. ASSUME NEW t \in Tasks, RefuseSync(t) PROVE GuardHeld' /\ ChecksStand'
  <2>1. /\ writer' = [writer EXCEPT ![call[t].on] = Nobody]
        /\ pc' = [pc EXCEPT ![t] = "done"]
        /\ vertices' = vertices /\ call' = call /\ pc[t] = "merge"
    BY <1>12 DEF RefuseSync, FinishSync, graphVars
  <2> QED BY <2>1
<1>13. ASSUME NEW t \in Tasks, CommitSync(t) PROVE GuardHeld' /\ ChecksStand'
  BY <1>13 DEF CommitSync, FinishSync
<1>14. ASSUME NEW t \in Tasks, Drop(t) PROVE GuardHeld' /\ ChecksStand'
  BY <1>14 DEF Drop, graphVars, StagesMatch, SubmitCall, SyncCall
<1> QED
  BY <1>1, <1>2, <1>3, <1>4, <1>5, <1>6, <1>7, <1>8, <1>9, <1>10, <1>11, <1>12,
     <1>13, <1>14 DEF Next, Start, Step

\* The three steps that change a graph or a snapshot.
LEMMA AdmitInserts ==
  ASSUME IndInv, NEW t \in Tasks, Admit(t)
  PROVE  /\ call[t] \in SubmitCall
         /\ call[t].msg.id \notin IdsOf(vertices[call[t].on])
         /\ vertices' = [vertices EXCEPT ![call[t].on] = @ \cup {call[t].msg}]
         /\ GraphSound' /\ MapsAndSnapshots'
<1> DEFINE r == call[t].on
           m == call[t].msg
<1> USE DEF IndInv, Control, Types
<1>1. call[t] \in SubmitCall /\ pc[t] = "consensus"
  BY DEF Admit, StagesMatch
<1>2. r \in Replicas /\ m \in Messages
  BY <1>1 DEF SubmitCall
<1>3. m.id \notin IdsOf(vertices[r]) /\ m.id \notin m.parents
      /\ m.parents \subseteq IdsOf(vertices[r])
  BY <1>1 DEF ChecksStand, KnownId, BadParents
<1>4. {v \in vertices[r] : v.id # m.id} = vertices[r]
  BY <1>3 DEF IdsOf
<1>5. vertices' = [vertices EXCEPT ![r] = @ \cup {m}]
  BY <1>4, <1>2 DEF Admit
<1>6. call' = call /\ snapshot' = snapshot
  BY DEF Admit, FinishSubmit
<1>7. vertices[r] \in SUBSET Vertex /\ m \in Vertex
  BY <1>2, MessagesAreVertices
<1>8. IsMap(vertices[r] \cup {m})
  BY <1>2, <1>3 DEF MapsAndSnapshots, IsMap, IdsOf
<1>9. r \in Honest => Resolvable(vertices[r] \cup {m})
  BY <1>2, <1>3, <1>7, InsertSound DEF GraphSound
<1>10. GraphSound'
  BY <1>2, <1>5, <1>8, <1>9 DEF GraphSound, Honest
<1>11. MapsAndSnapshots'
  BY <1>2, <1>5, <1>6, <1>8 DEF MapsAndSnapshots
<1> QED BY <1>1, <1>3, <1>5, <1>10, <1>11

LEMMA CommitMerges ==
  ASSUME IndInv, NEW t \in Tasks, CommitSync(t)
  PROVE  GraphSound' /\ MapsAndSnapshots'
<1> DEFINE r == call[t].on
           u == Union(vertices[r], snapshot[t])
<1> USE DEF IndInv, Control, Types
<1>1. call[t] \in SyncCall
  BY DEF CommitSync, StagesMatch
<1>2. r \in Replicas
  BY <1>1 DEF SyncCall
<1>3. IsMap(u)
  BY <1>2, UnionIsMap, MessagesAreVertices DEF MapsAndSnapshots
<1>4. Resolvable(u)
  BY DEF CommitSync
<1>5. vertices' = [vertices EXCEPT ![r] = u] /\ call' = call /\ snapshot' = snapshot
  BY DEF CommitSync, FinishSync
<1>6. GraphSound'
  BY <1>2, <1>3, <1>4, <1>5 DEF GraphSound, Honest
<1>7. MapsAndSnapshots'
  BY <1>2, <1>3, <1>5 DEF MapsAndSnapshots
<1> QED BY <1>6, <1>7

LEMMA CloneCopies ==
  ASSUME IndInv, NEW t \in Tasks, CloneOther(t)
  PROVE  GraphSound' /\ MapsAndSnapshots'
<1> DEFINE s == call[t].from
<1> USE DEF IndInv, Control, Types
<1>1. s \in Replicas
  BY DEF CloneOther, StagesMatch, SyncCall
<1>2. vertices' = vertices /\ call' = call /\ snapshot' = [snapshot EXCEPT ![t] = vertices[s]]
  BY DEF CloneOther, graphVars
<1>3. IsMap(vertices[s]) /\ (s \in Honest => Resolvable(vertices[s]))
  BY <1>1 DEF MapsAndSnapshots, GraphSound
<1> QED BY <1>2, <1>3 DEF GraphSound, MapsAndSnapshots

\* Every other step leaves graphs and snapshots alone; a call that starts
\* has no snapshot yet.
LEMMA StartsEmpty ==
  ASSUME IndInv, NEW t \in Tasks, pc[t] = "idle", NEW c \in SubmitCall \cup SyncCall,
         call' = [call EXCEPT ![t] = c], UNCHANGED <<vertices, snapshot>>,
         snapshot[t] = {}
  PROVE  GraphSound' /\ MapsAndSnapshots'
<1>1. Resolvable({})
  BY DEF Resolvable, Closed, WellFounded
<1> QED BY <1>1 DEF IndInv, Control, Types, GraphSound, MapsAndSnapshots


LEMMA NextGraphs ==
  ASSUME IndInv, [Next]_vars
  PROVE  GraphSound' /\ MapsAndSnapshots'
<1>0. ASSUME UNCHANGED <<vertices, call, snapshot>>
      PROVE  GraphSound' /\ MapsAndSnapshots'
  BY <1>0 DEF IndInv, GraphSound, MapsAndSnapshots
<1>1. CASE UNCHANGED vars
  BY <1>0, <1>1 DEF vars
<1>2. ASSUME NEW t \in Tasks, NEW r \in Replicas, NEW m \in Messages, StartSubmit(t, r, m)
      PROVE  GraphSound' /\ MapsAndSnapshots'
  <2>1. [op |-> "submit", on |-> r, msg |-> m] \in SubmitCall
    BY DEF SubmitCall
  <2> QED
    BY <1>2, <2>1, StartsEmpty DEF StartSubmit, graphVars, IndInv, Control, StagesMatch
<1>3. ASSUME NEW t \in Tasks, NEW r \in Replicas, NEW s \in Replicas, StartSync(t, r, s)
      PROVE  GraphSound' /\ MapsAndSnapshots'
  <2>1. [op |-> "sync", on |-> r, from |-> s] \in SyncCall
    BY DEF SyncCall
  <2> QED
    BY <1>3, <2>1, StartsEmpty DEF StartSync, graphVars, IndInv, Control, StagesMatch
<1>4. ASSUME NEW t \in Tasks, Admit(t) PROVE GraphSound' /\ MapsAndSnapshots'
  BY <1>4, AdmitInserts
<1>5. ASSUME NEW t \in Tasks, CloneOther(t) PROVE GraphSound' /\ MapsAndSnapshots'
  BY <1>5, CloneCopies
<1>6. ASSUME NEW t \in Tasks, CommitSync(t) PROVE GraphSound' /\ MapsAndSnapshots'
  BY <1>6, CommitMerges
<1>7. ASSUME NEW t \in Tasks,
             \/ AcquirePermit(t) \/ AcquireWrite(t) \/ RejectSubmit(t) \/ PassChecks(t)
             \/ AcquireRead(t) \/ AcquireSyncWrite(t) \/ RefuseSync(t) \/ Drop(t)
      PROVE  UNCHANGED <<vertices, call, snapshot>>
  BY <1>7 DEF AcquirePermit, AcquireWrite, RejectSubmit, PassChecks, AcquireRead,
              AcquireSyncWrite, RefuseSync, Drop, FinishSubmit, FinishSync, graphVars, lockVars
<1> QED
  BY <1>0, <1>1, <1>2, <1>3, <1>4, <1>5, <1>6, <1>7 DEF Next, Start, Step

THEOREM Inductive == Spec => []IndInv
<1>1. IndInv /\ [Next]_vars => IndInv'
  BY NextControl, NextGuards, NextGraphs DEF IndInv
<1> QED BY InitIndInv, <1>1, PTL DEF Spec

\* The graph of every replica that is only changed through the API is at
\* every moment closed, acyclic and has one vertex per id, however submits,
\* syncs and cancellations interleave and whatever graph a peer holds
\* (submit_message and sync_state, dag.rs:69-137).
THEOREM GraphSoundAlways == Spec => []GraphSound
BY Inductive, PTL DEF IndInv


-----------------------------------------------------------------------------
(***************************************************************************)
(* What the answers say.                                                   *)
(***************************************************************************)

\* No step takes a vertex away from a replica.
LEMMA GraphsGrow ==
  ASSUME IndInv, [Next]_vars, NEW r \in Replicas
  PROVE  vertices[r] \subseteq vertices'[r]
<1> USE DEF IndInv, Control, Types
<1>1. ASSUME NEW t \in Tasks, Admit(t) PROVE vertices[r] \subseteq vertices'[r]
  BY <1>1, AdmitInserts
<1>2. ASSUME NEW t \in Tasks, CommitSync(t) PROVE vertices[r] \subseteq vertices'[r]
  BY <1>2 DEF CommitSync, Union
<1>3. ASSUME vertices' = vertices PROVE vertices[r] \subseteq vertices'[r]
  BY <1>3
<1>4. ASSUME NEW t \in Tasks,
             \/ AcquirePermit(t) \/ AcquireWrite(t) \/ RejectSubmit(t) \/ PassChecks(t)
             \/ AcquireRead(t) \/ AcquireSyncWrite(t) \/ RefuseSync(t) \/ Drop(t)
             \/ CloneOther(t) \/ Start(t)
      PROVE  vertices' = vertices
  BY <1>4 DEF AcquirePermit, AcquireWrite, RejectSubmit, PassChecks, AcquireRead, CloneOther,
              AcquireSyncWrite, RefuseSync, Drop, Start, StartSubmit, StartSync, graphVars
<1>5. CASE UNCHANGED vars
  BY <1>5 DEF vars
<1> QED BY <1>1, <1>2, <1>3, <1>4, <1>5 DEF Next, Step

\* A step that ends a call with Ok is Admit or CommitSync; every other step
\* leaves the set of calls that returned Ok as it is.
LEMMA OkFrom ==
  ASSUME IndInv, [Next]_vars, NEW t \in Tasks, outcome'[t] = "ok", outcome[t] # "ok"
  PROVE  /\ Admit(t) \/ CommitSync(t)
         /\ \A u \in Tasks : outcome'[u] = "ok" => u = t \/ outcome[u] = "ok"
         /\ call' = call /\ snapshot' = snapshot
<1> USE DEF IndInv, Control, Types
<1>1. PICK u \in Tasks : Start(u) \/ Step(u) \/ Drop(u)
  BY DEF Next, vars
<1>2. ASSUME Admit(u) \/ CommitSync(u)
      PROVE  /\ outcome' = [outcome EXCEPT ![u] = "ok"]
             /\ call' = call /\ snapshot' = snapshot
  BY <1>2 DEF Admit, CommitSync, FinishSubmit, FinishSync
<1>3. ASSUME ~(Admit(u) \/ CommitSync(u))
      PROVE  outcome'[t] # "ok"
  <2>1. \/ outcome' = outcome
        \/ \E o \in {"conflict", "invalid", "cancelled"} : outcome' = [outcome EXCEPT ![u] = o]
    BY <1>1, <1>3 DEF Start, Step, StartSubmit, StartSync, AcquirePermit, AcquireWrite,
       RejectSubmit, PassChecks, AcquireRead, CloneOther, AcquireSyncWrite, RefuseSync, Drop,
       FinishSubmit, FinishSync
  <2> QED BY <2>1
<1> QED BY <1>2, <1>3

\* A call that returned Ok does not change any more.
LEMMA OkFinal ==
  ASSUME IndInv, [Next]_vars, NEW t \in Tasks, outcome[t] = "ok"
  PROVE  outcome'[t] = "ok" /\ call'[t] = call[t] /\ snapshot'[t] = snapshot[t]
<1> USE DEF IndInv, Control, Types
<1>1. pc[t] = "done"
  BY DEF StagesMatch
<1>2. CASE UNCHANGED vars
  BY <1>2 DEF vars
<1>3. ASSUME NEW u \in Tasks, Start(u) \/ Step(u) \/ Drop(u)
      PROVE  outcome'[t] = "ok" /\ call'[t] = call[t] /\ snapshot'[t] = snapshot[t]
  <2>1. u # t
    BY <1>1, <1>3 DEF Start, Step, StartSubmit, StartSync, AcquirePermit, AcquireWrite,
       RejectSubmit, PassChecks, Admit, AcquireRead, CloneOther, AcquireSyncWrite, RefuseSync,
       CommitSync, Drop, Awaiting
  <2>2. /\ outcome' = outcome \/ \E o \in Outcome : outcome' = [outcome EXCEPT ![u] = o]
        /\ call' = call \/ \E c \in SubmitCall \cup SyncCall : call' = [call EXCEPT ![u] = c]
        /\ snapshot' = snapshot
           \/ \E g \in SUBSET Messages : snapshot' = [snapshot EXCEPT ![u] = g]
    <3>1. CASE Start(u)
      BY <3>1 DEF Start, StartSubmit, StartSync, SubmitCall, SyncCall
    <3>2. CASE CloneOther(u)
      BY <3>2 DEF CloneOther, StagesMatch, SyncCall
    <3>3. CASE Drop(u)
      BY <3>3 DEF Drop, Outcome
    <3>4. CASE RefuseSync(u) \/ RejectSubmit(u) \/ Admit(u) \/ CommitSync(u)
      BY <3>4 DEF RefuseSync, RejectSubmit, Admit, CommitSync, FinishSubmit, FinishSync, Outcome
    <3>5. CASE \/ AcquirePermit(u) \/ AcquireWrite(u) \/ PassChecks(u)
               \/ AcquireRead(u) \/ AcquireSyncWrite(u)
      BY <3>5 DEF AcquirePermit, AcquireWrite, PassChecks, AcquireRead, AcquireSyncWrite
    <3> QED BY <1>3, <3>1, <3>2, <3>3, <3>4, <3>5 DEF Step
  <2> QED BY <2>1, <2>2
<1> QED BY <1>2, <1>3 DEF Next

LEMMA NextAnswersHold ==
  ASSUME IndInv, AnswersHold, [Next]_vars
  PROVE  AnswersHold'
<1> SUFFICES ASSUME NEW t \in Tasks, outcome'[t] = "ok"
             PROVE  IF call'[t].op = "submit" THEN call'[t].msg \in vertices'[call'[t].on]
                    ELSE snapshot'[t] \subseteq vertices'[call'[t].on]
  BY DEF AnswersHold
<1> USE DEF IndInv, Control, Types
<1>1. CASE outcome[t] = "ok"
  <2>1. call[t].on \in Replicas
    BY <1>1 DEF StagesMatch, SubmitCall, SyncCall
  <2> QED BY <1>1, <2>1, OkFinal, GraphsGrow DEF AnswersHold
<1>2. CASE Admit(t)
  BY <1>2, AdmitInserts DEF SubmitCall, Admit, FinishSubmit
<1>3. CASE CommitSync(t)
  <2>1. call[t] \in SyncCall /\ call' = call /\ snapshot' = snapshot
    BY <1>3 DEF CommitSync, FinishSync, StagesMatch
  <2>2. call[t].on \in Replicas /\ call[t].op = "sync"
    BY <2>1 DEF SyncCall
  <2>3. vertices'[call[t].on] = Union(vertices[call[t].on], snapshot[t])
    BY <1>3, <2>2 DEF CommitSync
  <2>4. snapshot[t] \subseteq Union(vertices[call[t].on], snapshot[t])
    BY <1>3 DEF CommitSync, Conflicting, Union, IdsOf
  <2> QED BY <2>1, <2>2, <2>3, <2>4
<1> QED BY <1>1, <1>2, <1>3, OkFrom

LEMMA NextOneWinner ==
  ASSUME IndInv, AnswersHold, OneWinner, [Next]_vars
  PROVE  OneWinner'
<1> SUFFICES ASSUME NEW t \in Tasks, NEW u \in Tasks, NEW r \in Replicas,
                    Submitted(t, r)', Submitted(u, r)',
                    call'[t].msg.id = call'[u].msg.id,
                    outcome[u] # "ok", t # u
             PROVE  FALSE
  <2>1. ASSUME NEW t \in Tasks, NEW u \in Tasks, NEW r \in Replicas,
               Submitted(t, r)', Submitted(u, r)', call'[t].msg.id = call'[u].msg.id,
               outcome[u] = "ok", outcome[t] = "ok"
        PROVE  t = u
    BY <2>1, OkFinal DEF OneWinner, Submitted
  <2> QED BY <2>1 DEF OneWinner, Submitted
<1> USE DEF IndInv, Control, Types
<1>1. /\ Admit(u) \/ CommitSync(u)
      /\ outcome[t] = "ok" /\ call' = call
  BY OkFrom DEF Submitted
<1>2. call[u].op = "submit" /\ call[t].op = "submit" /\ call[u].on = r /\ call[t].on = r
  BY <1>1 DEF Submitted
<1>3. Admit(u)
  BY <1>1, <1>2 DEF CommitSync, StagesMatch, SyncCall
<1>4. call[t].msg \in vertices[r]
  BY <1>1, <1>2 DEF AnswersHold
<1>5. call[u].msg.id \notin IdsOf(vertices[r])
  BY <1>2, <1>3, AdmitInserts
<1> QED BY <1>1, <1>4, <1>5 DEF IdsOf

LEMMA NextHonestSync ==
  ASSUME IndInv, HonestSyncIsValid, [Next]_vars
  PROVE  HonestSyncIsValid'
<1> SUFFICES ASSUME NEW t \in Tasks, call'[t].op = "sync", call'[t].on \in Honest,
                    call'[t].from \in Honest, outcome'[t] = "invalid"
             PROVE  FALSE
  BY DEF HonestSyncIsValid
<1> USE DEF IndInv, Control, Types
<1>1. CASE UNCHANGED vars
  BY <1>1 DEF vars, HonestSyncIsValid
<1>2. ASSUME NEW u \in Tasks, RefuseSync(u) PROVE FALSE
  <2>1. /\ call' = call
        /\ \/ outcome' = [outcome EXCEPT ![u] = "conflict"]
           \/ /\ outcome' = [outcome EXCEPT ![u] = "invalid"]
              /\ ~Conflicting(vertices[call[u].on], snapshot[u])
              /\ ~Resolvable(Union(vertices[call[u].on], snapshot[u]))
    BY <1>2 DEF RefuseSync, FinishSync
  <2>2. u = t /\ outcome[t] # "invalid"
    BY <2>1 DEF HonestSyncIsValid
  <2>3. /\ ~Conflicting(vertices[call[t].on], snapshot[t])
        /\ ~Resolvable(Union(vertices[call[t].on], snapshot[t]))
    BY <2>1, <2>2
  <2>4. Resolvable(vertices[call[t].on]) /\ Resolvable(snapshot[t])
    BY <2>1 DEF GraphSound, MapsAndSnapshots
  <2>5. vertices[call[t].on] \subseteq Vertex /\ snapshot[t] \subseteq Vertex
    BY <2>1, MessagesAreVertices DEF Honest
  <2> QED BY <2>3, <2>4, <2>5, UnionSound
<1>3. ASSUME NEW u \in Tasks, RejectSubmit(u) PROVE FALSE
  <2>1. call' = call /\ call[u].op = "submit"
        /\ \E o \in Outcome : outcome' = [outcome EXCEPT ![u] = o]
    BY <1>3 DEF RejectSubmit, FinishSubmit, Outcome, StagesMatch, SubmitCall
  <2> QED BY <2>1 DEF HonestSyncIsValid
<1>4. ASSUME NEW u \in Tasks, Start(u) PROVE FALSE
  <2>1. outcome' = outcome /\ pc[u] = "idle"
        /\ \E c \in SubmitCall \cup SyncCall : call' = [call EXCEPT ![u] = c]
    BY <1>4 DEF Start, StartSubmit, StartSync, SubmitCall, SyncCall
  <2> QED BY <2>1 DEF StagesMatch, HonestSyncIsValid
<1>5. ASSUME NEW u \in Tasks,
             \/ AcquirePermit(u) \/ AcquireWrite(u) \/ PassChecks(u) \/ AcquireRead(u)
             \/ CloneOther(u) \/ AcquireSyncWrite(u) \/ Admit(u) \/ CommitSync(u) \/ Drop(u)
      PROVE  FALSE
  <2>1. /\ call' = call
        /\ outcome' = outcome \/ \E o \in {"ok", "cancelled"} : outcome' = [outcome EXCEPT ![u] = o]
    BY <1>5 DEF AcquirePermit, AcquireWrite, PassChecks, AcquireRead, CloneOther,
       AcquireSyncWrite, Admit, CommitSync, Drop, FinishSubmit, FinishSync
  <2> QED BY <2>1 DEF HonestSyncIsValid
<1> QED BY <1>1, <1>2, <1>3, <1>4, <1>5 DEF Next, Step

LEMMA InitAnswers == Init => AnswersHold /\ OneWinner /\ HonestSyncIsValid
BY DEF Init, AnswersHold, OneWinner, HonestSyncIsValid, Submitted

\* What a call that returned Ok put into a graph stays in it, unchanged
\* (submit_message, sync_state).
THEOREM AnswersHoldAlways == Spec => []AnswersHold
BY Inductive, InitAnswers, NextAnswersHold, PTL DEF Spec

\* Two calls never both succeed in giving one id to one replica, although
\* the consensus lock is awaited between the check and the insertion
\* (dag.rs:76-94).
THEOREM OneWinnerAlways == Spec => []OneWinner
BY Inductive, InitAnswers, NextAnswersHold, NextOneWinner, PTL DEF Spec

\* Replicas that are only changed through the API never refuse each other's
\* graphs as malformed; the validation loop (dag.rs:118-134) only ever
\* rejects maps somebody wrote by hand.
THEOREM HonestSyncIsValidAlways == Spec => []HonestSyncIsValid
BY Inductive, InitAnswers, NextHonestSync, PTL DEF Spec

\* All that the answers of the calls say.
THEOREM AnswersTrueAlways == Spec => []AnswersTrue
<1>1. AnswersHold /\ OneWinner /\ HonestSyncIsValid => AnswersTrue
  BY DEF AnswersTrue
<1> QED BY <1>1, AnswersHoldAlways, OneWinnerAlways, HonestSyncIsValidAlways, PTL


-----------------------------------------------------------------------------
(***************************************************************************)
(* Guards and permits.                                                     *)
(***************************************************************************)

Holders(r) == {t \in Tasks : HoldsPermit(t) /\ call[t].on = r}

\* Only a task inside a critical section holds a guard.
GuardsUsed ==
  \A r \in Replicas, t \in Tasks :
    /\ writer[r] = t => pc[t] \in {"check", "consensus", "merge"} /\ call[t].on = r
    /\ t \in readers[r] => pc[t] = "clone" /\ call[t].from = r

PermitsCounted ==
  \A r \in Replicas :
    permits[r] \in Nat /\ permits[r] + Cardinality(Holders(r)) = MaxConcurrent

Counted == GuardsUsed /\ permits \in [Replicas -> Nat] /\ PermitsCounted

LEMMA HoldersFinite == \A r : IsFiniteSet(Holders(r)) /\ Cardinality(Holders(r)) \in Nat
<1> SUFFICES ASSUME NEW r PROVE IsFiniteSet(Holders(r)) /\ Cardinality(Holders(r)) \in Nat
  OBVIOUS
<1>1. Holders(r) \subseteq Tasks /\ IsFiniteSet(Tasks)
  BY DagAssumption DEF Holders
<1> QED BY <1>1, FS_Subset, FS_CardinalityType

LEMMA NextGuardsUsed ==
  ASSUME IndInv, GuardsUsed, [Next]_vars
  PROVE  GuardsUsed'
<1> USE DEF IndInv, Control, Types, GuardsUsed
<1>n. Nobody \notin Tasks
  BY DagAssumption
<1>1. CASE UNCHANGED vars
  BY <1>1 DEF vars
<1>2. ASSUME NEW t \in Tasks, Start(t) PROVE GuardsUsed'
  BY <1>2 DEF Start, StartSubmit, StartSync, lockVars
<1>3. ASSUME NEW t \in Tasks, AcquirePermit(t) PROVE GuardsUsed'
  BY <1>3 DEF AcquirePermit
<1>4. ASSUME NEW t \in Tasks, AcquireWrite(t) PROVE GuardsUsed'
  BY <1>4 DEF AcquireWrite
<1>5. ASSUME NEW t \in Tasks, RejectSubmit(t) PROVE GuardsUsed'
  BY <1>5, <1>n DEF RejectSubmit, FinishSubmit, GuardHeld
<1>6. ASSUME NEW t \in Tasks, PassChecks(t) PROVE GuardsUsed'
  BY <1>6 DEF PassChecks, lockVars
<1>7. ASSUME NEW t \in Tasks, Admit(t) PROVE GuardsUsed'
  BY <1>7, <1>n DEF Admit, FinishSubmit, GuardHeld
<1>8. ASSUME NEW t \in Tasks, AcquireRead(t) PROVE GuardsUsed'
  BY <1>8 DEF AcquireRead
<1>9. ASSUME NEW t \in Tasks, CloneOther(t) PROVE GuardsUsed'
  BY <1>9 DEF CloneOther
<1>10. ASSUME NEW t \in Tasks, AcquireSyncWrite(t) PROVE GuardsUsed'
  BY <1>10 DEF AcquireSyncWrite
<1>11. ASSUME NEW t \in Tasks, RefuseSync(t) \/ CommitSync(t) PROVE GuardsUsed'
  <2>1. /\ writer' = [writer EXCEPT ![call[t].on] = Nobody]
        /\ pc' = [pc EXCEPT ![t] = "done"] /\ pc[t] = "merge"
        /\ readers' = readers /\ call' = call
    BY <1>11 DEF RefuseSync, CommitSync, FinishSync
  <2> QED BY <2>1, <1>n DEF GuardHeld
<1>12. ASSUME NEW t \in Tasks, Drop(t) PROVE GuardsUsed'
  BY <1>12, <1>n DEF Drop, Awaiting
<1> QED
  BY <1>1, <1>2, <1>3, <1>4, <1>5, <1>6, <1>7, <1>8, <1>9, <1>10, <1>11, <1>12
  DEF Next, Step

\* t takes a permit of q, t gives one back, nobody does either.
Takes(t, q) ==
  /\ permits[q] > 0 /\ permits' = [permits EXCEPT ![q] = @ - 1]
  /\ t \notin Holders(q) /\ Holders(q)' = Holders(q) \cup {t}
  /\ \A r \in Replicas \ {q} : Holders(r)' = Holders(r)

Returns(t, q) ==
  /\ permits' = [permits EXCEPT ![q] = @ + 1]
  /\ t \in Holders(q) /\ Holders(q)' = Holders(q) \ {t}
  /\ \A r \in Replicas \ {q} : Holders(r)' = Holders(r)

Keeps == permits' = permits /\ \A r \in Replicas : Holders(r)' = Holders(r)

LEMMA PermitSteps ==
  ASSUME IndInv, [Next]_vars, permits \in [Replicas -> Nat]
  PROVE  \/ \E t \in Tasks, q \in Replicas : Takes(t, q) \/ Returns(t, q)
         \/ Keeps
<1> USE DEF IndInv, Control, Types, Holders, HoldsPermit
<1>1. CASE UNCHANGED vars
  BY <1>1 DEF vars, Keeps
<1>2. ASSUME NEW t \in Tasks, Start(t) PROVE Keeps
  BY <1>2 DEF Start, StartSubmit, StartSync, lockVars, Keeps
<1>3. ASSUME NEW t \in Tasks, AcquirePermit(t)
      PROVE  call[t].on \in Replicas /\ Takes(t, call[t].on)
  BY <1>3 DEF AcquirePermit, StagesMatch, SubmitCall, Takes
<1>4. ASSUME NEW t \in Tasks,
             HoldsPermit(t), pc' = [pc EXCEPT ![t] = "done"], call' = call,
             permits' = [permits EXCEPT ![call[t].on] = @ + 1]
      PROVE  call[t].on \in Replicas /\ Returns(t, call[t].on)
  BY <1>4 DEF StagesMatch, SubmitCall, Returns
<1>5. ASSUME NEW t \in Tasks,
             \/ AcquireWrite(t) \/ PassChecks(t) \/ AcquireRead(t) \/ CloneOther(t)
             \/ AcquireSyncWrite(t) \/ RefuseSync(t) \/ CommitSync(t)
             \/ Drop(t) /\ ~HoldsPermit(t)
      PROVE  Keeps
  <2>1. permits' = permits /\ call' = call
    BY <1>5 DEF AcquireWrite, PassChecks, AcquireRead, CloneOther, AcquireSyncWrite,
       RefuseSync, CommitSync, Drop, FinishSync, lockVars
  <2>2. \E s \in Stage : /\ pc' = [pc EXCEPT ![t] = s]
                         /\ HoldsPermit(t) => s \in {"check", "consensus"}
                         /\ ~HoldsPermit(t) => call[t].op # "submit" \/ s = "done"
    <3>1. CASE AcquireWrite(t) \/ PassChecks(t)
      BY <3>1 DEF AcquireWrite, PassChecks, Stage, StagesMatch, SubmitCall
    <3>2. CASE AcquireRead(t) \/ CloneOther(t) \/ AcquireSyncWrite(t) \/ RefuseSync(t) \/ CommitSync(t)
      <4>1. call[t] \in SyncCall /\ \E s \in Stage : pc' = [pc EXCEPT ![t] = s]
        BY <3>2 DEF AcquireRead, CloneOther, AcquireSyncWrite, RefuseSync, CommitSync,
           FinishSync, Stage, StagesMatch
      <4> QED BY <4>1 DEF SyncCall
    <3>3. CASE Drop(t) /\ ~HoldsPermit(t)
      BY <3>3 DEF Drop, Stage
    <3> QED BY <1>5, <3>1, <3>2, <3>3
  <2> QED BY <2>1, <2>2 DEF Keeps
<1>6. ASSUME NEW t \in Tasks, RejectSubmit(t) \/ Admit(t) \/ (Drop(t) /\ HoldsPermit(t))
      PROVE  call[t].on \in Replicas /\ Returns(t, call[t].on)
  <2>1. /\ HoldsPermit(t) /\ pc' = [pc EXCEPT ![t] = "done"] /\ call' = call
        /\ permits' = [permits EXCEPT ![call[t].on] = @ + 1]
    BY <1>6 DEF RejectSubmit, Admit, Drop, FinishSubmit, StagesMatch, SubmitCall
  <2> QED BY <2>1, <1>4
<1>7. \/ UNCHANGED vars
      \/ \E t \in Tasks :
           \/ Start(t) \/ AcquirePermit(t) \/ AcquireWrite(t) \/ RejectSubmit(t) \/ PassChecks(t)
           \/ Admit(t) \/ AcquireRead(t) \/ CloneOther(t) \/ AcquireSyncWrite(t)
           \/ RefuseSync(t) \/ CommitSync(t) \/ Drop(t)
  BY DEF Next, Step
<1> HIDE DEF IndInv, Control, Types, Holders, HoldsPermit
<1> QED BY <1>1, <1>2, <1>3, <1>5, <1>6, <1>7

LEMMA NextPermits ==
  ASSUME IndInv, permits \in [Replicas -> Nat], PermitsCounted, [Next]_vars
  PROVE  permits' \in [Replicas -> Nat] /\ PermitsCounted'
<1>c. MaxConcurrent \in Nat /\ \A r \in Replicas : permits[r] \in Nat
      /\ permits[r] + Cardinality(Holders(r)) = MaxConcurrent
      /\ Cardinality(Holders(r)) \in Nat
  BY HoldersFinite, DagAssumption DEF PermitsCounted
<1>1. ASSUME NEW t \in Tasks, NEW q \in Replicas, Takes(t, q)
      PROVE  permits' \in [Replicas -> Nat] /\ PermitsCounted'
  <2>1. Cardinality(Holders(q)') = Cardinality(Holders(q)) + 1
    BY <1>1, HoldersFinite, FS_AddElement DEF Takes
  <2>2. permits' \in [Replicas -> Nat] /\ permits'[q] = permits[q] - 1
    BY <1>1, <1>c DEF Takes
  <2>3. permits'[q] + Cardinality(Holders(q)') = MaxConcurrent
    BY <2>1, <2>2, <1>c
  <2>4. \A r \in Replicas \ {q} : permits'[r] + Cardinality(Holders(r)') = MaxConcurrent
    BY <1>1, <1>c DEF Takes
  <2> QED BY <2>2, <2>3, <2>4 DEF PermitsCounted
<1>2. ASSUME NEW t \in Tasks, NEW q \in Replicas, Returns(t, q)
      PROVE  permits' \in [Replicas -> Nat] /\ PermitsCounted'
  <2>1. Cardinality(Holders(q)') = Cardinality(Holders(q)) - 1
    BY <1>2, HoldersFinite, FS_RemoveElement DEF Returns
  <2>2. permits' \in [Replicas -> Nat] /\ permits'[q] = permits[q] + 1
    BY <1>2, <1>c DEF Returns
  <2>3. permits'[q] + Cardinality(Holders(q)') = MaxConcurrent
    BY <2>1, <2>2, <1>c
  <2>4. \A r \in Replicas \ {q} : permits'[r] + Cardinality(Holders(r)') = MaxConcurrent
    BY <1>2, <1>c DEF Returns
  <2> QED BY <2>2, <2>3, <2>4 DEF PermitsCounted
<1>3. ASSUME Keeps
      PROVE  permits' \in [Replicas -> Nat] /\ PermitsCounted'
  BY <1>3 DEF PermitsCounted, Keeps
<1> QED BY <1>1, <1>2, <1>3, PermitSteps

LEMMA InitCounted == Init => Counted
<1> SUFFICES ASSUME Init PROVE Counted
  OBVIOUS
<1>1. GuardsUsed
  BY DagAssumption DEF Init, GuardsUsed
<1>2. \A r \in Replicas : Holders(r) = {}
  BY DEF Init, Holders, HoldsPermit
<1>3. permits = [r \in Replicas |-> MaxConcurrent] /\ MaxConcurrent \in Nat
  BY DagAssumption DEF Init
<1>4. \A r \in Replicas : Cardinality(Holders(r)) = 0
  BY <1>2, FS_EmptySet
<1>5. PermitsCounted /\ permits \in [Replicas -> Nat]
  BY <1>3, <1>4 DEF PermitsCounted
<1> QED BY <1>1, <1>5 DEF Counted

THEOREM CountedAlways == Spec => []Counted
<1>1. IndInv /\ Counted /\ [Next]_vars => Counted'
  BY NextGuardsUsed, NextPermits DEF Counted
<1> QED BY Inductive, InitCounted, <1>1, PTL DEF Spec

\* A call dropped at any await gives back its permit and its guards: the
\* permits left and the tasks that hold one add up to the size of the
\* semaphore (dag.rs:60-66, 70-75).
THEOREM NothingLeaksAlways == Spec => []NothingLeaks
<1>1. IndInv /\ Counted => NothingLeaks
  BY DEF Counted, PermitsCounted, GuardsUsed, Holders, NothingLeaks
<1> QED BY Inductive, CountedAlways, <1>1, PTL

\* Type correctness, the bound on the permits included.
THEOREM TypeCorrect == Spec => []TypeOK
<1>1. IndInv /\ Counted => TypeOK
  <2> SUFFICES ASSUME IndInv, Counted PROVE TypeOK
    OBVIOUS
  <2>1. permits \in [Replicas -> 0 .. MaxConcurrent]
    BY HoldersFinite, DagAssumption DEF Counted, PermitsCounted
  <2> QED BY <2>1 DEF IndInv, Control, Types, TypeOK
<1> QED BY Inductive, CountedAlways, <1>1, PTL


-----------------------------------------------------------------------------
(***************************************************************************)
(* What the consensus instance is told.                                    *)
(***************************************************************************)

\* A step other than Admit leaves the instances and the admissions alone.
LEMMA TracksElsewhere ==
  ASSUME IndInv, [Next]_vars, NEW r \in Replicas, \A t \in Tasks : ~Admit(t)
  PROVE  tracked' = tracked /\ \A u \in Tasks : Submitted(u, r)' <=> Submitted(u, r)
<1> USE DEF IndInv, Control, Types
<1>1. tracked' = tracked
  <2>1. CASE UNCHANGED vars
    BY <2>1 DEF vars
  <2>2. ASSUME NEW t \in Tasks, Start(t) \/ Step(t) \/ Drop(t)
        PROVE  tracked' = tracked
    BY <2>2 DEF Start, Step, StartSubmit, StartSync, AcquirePermit, AcquireWrite, RejectSubmit,
       PassChecks, AcquireRead, CloneOther, AcquireSyncWrite, RefuseSync, CommitSync, Drop,
       graphVars
  <2> QED BY <2>1, <2>2 DEF Next
<1>2. ASSUME NEW u \in Tasks, Submitted(u, r)'
      PROVE  Submitted(u, r)
  <2>1. CASE outcome[u] = "ok"
    BY <1>2, <2>1, OkFinal DEF Submitted
  <2>2. CASE outcome[u] # "ok"
    <3>1. CommitSync(u) /\ call' = call
      BY <1>2, <2>2, OkFrom DEF Submitted
    <3>2. call[u].op = "sync"
      BY <3>1 DEF CommitSync, StagesMatch, SyncCall
    <3> QED BY <1>2, <3>1, <3>2 DEF Submitted
  <2> QED BY <2>1, <2>2
<1>3. ASSUME NEW u \in Tasks, Submitted(u, r)
      PROVE  Submitted(u, r)'
  BY <1>3, OkFinal DEF Submitted
<1> QED BY <1>1, <1>2, <1>3

LEMMA NextTracks ==
  ASSUME IndInv, ConsensusTracksAdmitted, [Next]_vars
  PROVE  ConsensusTracksAdmitted'
<1> SUFFICES ASSUME NEW r \in Replicas
             PROVE  tracked'[r]
                      = {call'[t].msg.id : t \in {u \in Tasks : Submitted(u, r)'}}
  BY DEF ConsensusTracksAdmitted
<1> USE DEF IndInv, Control, Types
<1>1. CASE \A t \in Tasks : ~Admit(t)
  <2>1. tracked' = tracked /\ \A u \in Tasks : Submitted(u, r)' <=> Submitted(u, r)
    BY <1>1, TracksElsewhere
  <2>2. \A u \in Tasks : Submitted(u, r) => call'[u] = call[u]
    BY OkFinal DEF Submitted
  <2> QED BY <2>1, <2>2 DEF ConsensusTracksAdmitted
<1>2. ASSUME NEW t \in Tasks, Admit(t)
      PROVE  tracked'[r] = {call'[u].msg.id : u \in {w \in Tasks : Submitted(w, r)'}}
  <2>1. /\ call' = call /\ outcome' = [outcome EXCEPT ![t] = "ok"]
        /\ tracked' = [tracked EXCEPT ![call[t].on] = @ \cup {call[t].msg.id}]
        /\ call[t].op = "submit" /\ call[t].on \in Replicas
    BY <1>2 DEF Admit, FinishSubmit, StagesMatch, SubmitCall
  <2>2. \A u \in Tasks :
          Submitted(u, r)' <=> Submitted(u, r) \/ (u = t /\ call[t].on = r)
    BY <2>1 DEF Submitted
  <2>3. tracked[r] = {call[u].msg.id : u \in {w \in Tasks : Submitted(w, r)}}
    BY DEF ConsensusTracksAdmitted
  <2>4. CASE call[t].on = r
    <3>1. tracked'[r] = tracked[r] \cup {call[t].msg.id}
      BY <2>1, <2>4 DEF IndInv
    <3> QED BY <2>1, <2>2, <2>3, <2>4, <3>1
  <2>5. CASE call[t].on # r
    <3>1. tracked'[r] = tracked[r]
      BY <2>1, <2>5
    <3> QED BY <2>1, <2>2, <2>3, <2>5, <3>1
  <2> QED BY <2>4, <2>5
<1> QED BY <1>1, <1>2

\* The consensus instance of a replica tracks exactly what was admitted there.
THEOREM ConsensusTracksAdmittedAlways == Spec => []ConsensusTracksAdmitted
<1>1. Init => ConsensusTracksAdmitted
  BY DEF Init, ConsensusTracksAdmitted, Submitted
<1> QED BY <1>1, Inductive, NextTracks, PTL DEF Spec

\* However calls end, nothing is left of them but what they answered.
THEOREM EndsCleanAlways == Spec => []EndsClean
<1>1. TypeOK /\ ConsensusTracksAdmitted /\ NothingLeaks => EndsClean
  BY DEF EndsClean
<1> QED BY <1>1, TypeCorrect, ConsensusTracksAdmittedAlways, NothingLeaksAlways, PTL


-----------------------------------------------------------------------------
(***************************************************************************)
(* The honest replicas implement append-only graphs.                       *)
(***************************************************************************)

\* What is added to a sound graph, when the result is a sound map, is fresh
\* and can be added parents first.
LEMMA GrowthIsGrounded ==
  ASSUME NEW g, NEW h, g \subseteq h, IsMap(h), Resolvable(h)
  PROVE  Abstract!Fresh(g, h \ g) /\ Abstract!Grounded(g, h \ g)
<1>1. Abstract!Fresh(g, h \ g)
  BY DEF Abstract!Fresh, Abstract!IdSet, IsMap
<1>2. \A v \in h \ g : v.parents \subseteq Abstract!IdSet(g) \cup Abstract!IdSet(h \ g)
  BY DEF Resolvable, Closed, IdsOf, Abstract!IdSet
<1>3. \A T \in (SUBSET (h \ g)) \ {{}} : \E v \in T : v.parents \cap Abstract!IdSet(T) = {}
  BY DEF Resolvable, WellFounded, IdsOf, Abstract!IdSet
<1> QED BY <1>1, <1>2, <1>3 DEF Abstract!Grounded

LEMMA OneGrows ==
  ASSUME IndInv, GraphSound', NEW q \in Replicas, NEW h,
         vertices' = [vertices EXCEPT ![q] = h], vertices[q] \subseteq h
  PROVE  [Abstract!Next]_([r \in Honest |-> vertices[r]])
<1> DEFINE G == [r \in Honest |-> vertices[r]]
<1> USE DEF IndInv, Control, Types
<1>1. CASE q \notin Honest
  <2>1. G' = G
    BY <1>1 DEF Honest
  <2> QED BY <2>1
<1>2. CASE q \in Honest
  <2>1. G'[q] = h /\ G[q] = vertices[q] /\ G' = [G EXCEPT ![q] = G'[q]]
    BY <1>2 DEF Honest
  <2>2. IsMap(h) /\ Resolvable(h)
    BY <1>2 DEF GraphSound
  <2>3. Abstract!Fresh(G[q], G'[q] \ G[q]) /\ Abstract!Grounded(G[q], G'[q] \ G[q])
    BY <2>1, <2>2, GrowthIsGrounded
  <2>4. Abstract!Grow(q)
    BY <2>1, <2>3 DEF Abstract!Grow
  <2> QED BY <1>2, <2>4 DEF Abstract!Next
<1> QED BY <1>1, <1>2

\* Seen from outside, submits and syncs only ever append to a sound graph.
THEOREM Refinement == Spec => RefinesAppendOnlyDag
<1>1. Init => Abstract!Init
  BY DEF Init, Abstract!Init, Honest
<1>2. ASSUME IndInv, [Next]_vars
      PROVE  [Abstract!Next]_([r \in Honest |-> vertices[r]])
  <2> USE DEF IndInv, Control, Types
  <2>1. GraphSound'
    BY <1>2, NextGraphs
  <2>2. CASE \E q \in Replicas, h \in SUBSET Messages :
               vertices' = [vertices EXCEPT ![q] = h] /\ vertices[q] \subseteq h
    BY <1>2, <2>1, <2>2, OneGrows
  <2>3. CASE vertices' = vertices
    BY <2>3
  <2>4. ASSUME NEW t \in Tasks, Admit(t)
        PROVE  \E q \in Replicas, h \in SUBSET Messages :
                 vertices' = [vertices EXCEPT ![q] = h] /\ vertices[q] \subseteq h
    <3>1. /\ call[t].on \in Replicas /\ call[t].msg \in Messages
          /\ vertices' = [vertices EXCEPT ![call[t].on] = @ \cup {call[t].msg}]
      BY <1>2, <2>4, AdmitInserts DEF SubmitCall
    <3>2. vertices[call[t].on] \cup {call[t].msg} \in SUBSET Messages
      BY <1>2, <3>1
    <3> QED BY <3>1, <3>2
  <2>5. ASSUME NEW t \in Tasks, CommitSync(t)
        PROVE  \E q \in Replicas, h \in SUBSET Messages :
                 vertices' = [vertices EXCEPT ![q] = h] /\ vertices[q] \subseteq h
    <3>1. /\ call[t].on \in Replicas
          /\ vertices' = [vertices EXCEPT ![call[t].on] = Union(@, snapshot[t])]
      BY <1>2, <2>5 DEF CommitSync, StagesMatch, SyncCall
    <3>2. /\ Union(vertices[call[t].on], snapshot[t]) \in SUBSET Messages
          /\ vertices[call[t].on] \subseteq Union(vertices[call[t].on], snapshot[t])
      BY <1>2, <3>1 DEF Union
    <3> QED BY <3>1, <3>2
  <2>6. ASSUME NEW t \in Tasks,
               \/ AcquirePermit(t) \/ AcquireWrite(t) \/ RejectSubmit(t) \/ PassChecks(t)
               \/ AcquireRead(t) \/ AcquireSyncWrite(t) \/ RefuseSync(t) \/ Drop(t)
               \/ CloneOther(t) \/ Start(t)
        PROVE  vertices' = vertices
    BY <2>6 DEF AcquirePermit, AcquireWrite, RejectSubmit, PassChecks, AcquireRead, CloneOther,
                AcquireSyncWrite, RefuseSync, Drop, Start, StartSubmit, StartSync, graphVars
  <2>7. CASE UNCHANGED vars
    BY <2>3, <2>7 DEF vars
  <2> QED BY <1>2, <2>2, <2>3, <2>4, <2>5, <2>6, <2>7 DEF Next, Step
<1> QED BY Inductive, <1>1, <1>2, PTL DEF Spec, RefinesAppendOnlyDag, Abstract!Spec

=============================================================================
