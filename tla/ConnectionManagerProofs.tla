----------------------- MODULE ConnectionManagerProofs -----------------------
(***************************************************************************)
(* Proofs about ConnectionManager, for any number of tasks, peers and      *)
(* calls, and any limits and thresholds.                                   *)
(***************************************************************************)
EXTENDS ConnectionManager, FiniteSetTheorems, TLAPS

Task == [pc : PC, peer : Peers \cup {NoPeer}, tries : 0 .. MaxRetries,
         info : Info, todo : SUBSET Peers]
Breaker == [state : {"none", "Closed", "Open", "Due", "HalfOpen"},
            failures : Nat, successes : Nat]

\* What a task carries where it is.
Carries(r) ==
  /\ r.pc # "idle" => r.peer \in Peers
  /\ r.pc = "stash" => r.info.status \in Statuses
  /\ r.pc = "unknown" => r.info.from = "updated"

\* What the breakers promise of one of them.
Counts(b) ==
  /\ Closed(b) <=> b.failures < FailureThreshold
  /\ b.state = "HalfOpen" => b.successes < SuccessThreshold

\* The shape of the state: TypeOK, with what the tasks carry.
Tables == conns \in [Peers -> Info] /\ pool \in [Peers -> Entry]
Counted == breaker \in [Peers -> Breaker] /\ \A p \in Peers : Counts(breaker[p])
Placed == th \in [Tasks -> Task] /\ \A t \in Tasks : Carries(th[t])
Noted == abandoned \subseteq Peers /\ calls \in 0 .. MaxCalls
Shape == Tables /\ Counted /\ Placed /\ Noted

-----------------------------------------------------------------------------
(* The breaker *)

LEMMA CircuitFields ==
  ASSUME NEW s \in {"none", "Closed", "Open", "Due", "HalfOpen"}, NEW n \in Nat, NEW k \in Nat
  PROVE  /\ Circuit(s, n, k) \in Breaker
         /\ Circuit(s, n, k).state = s
         /\ Circuit(s, n, k).failures = n
         /\ Circuit(s, n, k).successes = k
  BY DEF Circuit, Breaker

\* A circuit that is allowed through keeps what is promised of it.
LEMMA AllowingKeeps ==
  ASSUME NEW b \in Breaker, Counts(b)
  PROVE  AfterAllowing(b) \in Breaker /\ Counts(AfterAllowing(b))
<1>1. CASE b.state = "Due"
  BY <1>1, ConnectionManagerAssumption
  DEF AfterAllowing, Circuit, Counts, Closed, Breaker
<1>2. CASE b.state # "Due"
  BY <1>2 DEF AfterAllowing
<1> QED
  BY <1>1, <1>2

\* So does a circuit that is given a result.
LEMMA RecordingKeeps ==
  ASSUME NEW b \in Breaker, Counts(b), NEW success \in BOOLEAN
  PROVE  Recorded(b, success) \in Breaker /\ Counts(Recorded(b, success))
<1> USE ConnectionManagerAssumption
<1>1. Succeeded(b) \in Breaker /\ Counts(Succeeded(b))
  <2>1. CASE Closed(b)
    <3>1. Succeeded(b) = Circuit("Closed", 0, b.successes)
      BY <2>1 DEF Succeeded, Closed
    <3> QED
      BY <3>1 DEF Circuit, Counts, Closed, Breaker
  <2>2. CASE b.state = "HalfOpen" /\ b.successes + 1 >= SuccessThreshold
    <3>1. Succeeded(b) = Circuit("Closed", 0, b.successes + 1)
      BY <2>2 DEF Succeeded, Closed
    <3> QED
      BY <3>1 DEF Circuit, Counts, Closed, Breaker
  <2>3. CASE b.state = "HalfOpen" /\ ~(b.successes + 1 >= SuccessThreshold)
    <3>1. Succeeded(b) = Circuit("HalfOpen", b.failures, b.successes + 1)
      BY <2>3 DEF Succeeded, Closed
    <3> QED
      BY <2>3, <3>1 DEF Circuit, Counts, Closed, Breaker
  <2>4. CASE ~Closed(b) /\ b.state # "HalfOpen"
    BY <2>4 DEF Succeeded
  <2> QED
    BY <2>1, <2>2, <2>3, <2>4
<1>2. Failed(b) \in Breaker /\ Counts(Failed(b))
  <2>1. CASE Closed(b) /\ b.failures + 1 >= FailureThreshold
    <3>1. Failed(b) = Circuit("Open", b.failures + 1, b.successes)
      BY <2>1 DEF Failed, Closed
    <3> QED
      BY <2>1, <3>1 DEF Circuit, Counts, Closed, Breaker
  <2>2. CASE Closed(b) /\ ~(b.failures + 1 >= FailureThreshold)
    <3>1. Failed(b) = Circuit("Closed", b.failures + 1, b.successes)
      BY <2>2 DEF Failed, Closed
    <3> QED
      BY <2>2, <3>1 DEF Circuit, Counts, Closed, Breaker
  <2>3. CASE b.state = "HalfOpen"
    <3>1. Failed(b) = Circuit("Open", b.failures + 1, b.successes)
      BY <2>3 DEF Failed, Closed
    <3> QED
      BY <2>3, <3>1 DEF Circuit, Counts, Closed, Breaker
  <2>4. CASE ~Closed(b) /\ b.state # "HalfOpen"
    BY <2>4 DEF Failed
  <2> QED
    BY <2>1, <2>2, <2>3, <2>4
<1> QED
  BY <1>1, <1>2 DEF Recorded

\* What a step does to one breaker keeps Counted.
LEMMA OneBreaker ==
  ASSUME Counted, NEW p \in Peers, NEW b \in Breaker, Counts(b),
         breaker' = [breaker EXCEPT ![p] = b]
  PROVE  Counted'
  BY DEF Counted, Counts, Closed

-----------------------------------------------------------------------------
(* The records *)

LEMMA AwayIsTask == Away \in Task /\ Away.pc = "idle" /\ Carries(Away)
  BY ConnectionManagerAssumption DEF Away, Task, PC, Info, NoConn, Carries

LEMMA NewIsInfo ==
  ASSUME NEW status \in Statuses, NEW from \in Froms
  PROVE  /\ New(status, from) \in Info /\ New(status, from).status = status
         /\ New(status, from).from = from
  BY DEF New, Made, Info

LEMMA OutcomeIsInfo ==
  ASSUME NEW info \in Outcomes
  PROVE  /\ info \in Info /\ info.status \in {"Connected", "Down"}
         /\ info.from = "checked"
<1>1. PICK status \in {"Connected", "Down"}, healthy \in BOOLEAN :
        info = Made(status, healthy, "checked")
  BY DEF Outcomes, New
<1> QED
  BY <1>1 DEF Made, Info, Statuses, Froms

\* An entry of the table that is none is the empty one.
LEMMA InfoFields ==
  ASSUME NEW i \in Info
  PROVE  /\ i.healthy => i.status \in Statuses
         /\ i.from \in {"checked", "told"} => i.status # "none"
         /\ i.status # "none" => i \in [status : Statuses, healthy : BOOLEAN, from : Froms]
  BY DEF Info, NoConn, Statuses

LEMMA EntryFields ==
  ASSUME NEW e \in Entry
  PROVE  /\ e.fresh => e.status # "none"
         /\ e.healthy => e.status # "none"
         /\ e.status # "none" => e \in [status : Statuses, healthy : BOOLEAN, fresh : BOOLEAN]
  BY DEF Entry, NoEntry, Statuses

\* Where a step leaves task t, if it leaves it with r.
LEMMA OneTask ==
  ASSUME Placed, NEW t \in Tasks, NEW r \in Task, Carries(r),
         th' = [th EXCEPT ![t] = r]
  PROVE  Placed' /\ th'[t] = r /\ \A u \in Tasks \ {t} : th'[u] = th[u]
  BY DEF Placed, Carries

\* A task goes on, to a place that asks no more of what it carries.
LEMMA Gone ==
  ASSUME Placed, NEW t \in Tasks, NEW pc \in PC \ {"idle", "stash", "unknown"},
         th[t].pc # "idle", Goto(t, pc)
  PROVE  /\ Placed' /\ th'[t].pc = pc /\ th'[t].peer = th[t].peer
         /\ \A u \in Tasks \ {t} : th'[u] = th[u]
<1> DEFINE r == [th[t] EXCEPT !.pc = pc]
<1>1. r \in Task /\ r.pc = pc /\ r.peer = th[t].peer
  BY DEF Placed, Task
<1>2. Carries(r)
  BY <1>1 DEF Placed, Carries
<1>3. th' = [th EXCEPT ![t] = r]
  BY DEF Goto
<1> QED
  BY <1>1, <1>2, <1>3, OneTask

\* A task leaves, or tries again.
LEMMA Left ==
  ASSUME Placed, NEW t \in Tasks, Leave(t)
  PROVE  Placed' /\ th'[t].pc = "idle" /\ \A u \in Tasks \ {t} : th'[u] = th[u]
  BY AwayIsTask, OneTask DEF Leave

LEMMA FailedAgain ==
  ASSUME Placed, NEW t \in Tasks, th[t].pc # "idle", Fail(t)
  PROVE  /\ Placed' /\ th'[t].pc \in {"idle", "breaker"}
         /\ \A u \in Tasks \ {t} : th'[u] = th[u]
<1>1. CASE th[t].tries > 1
  <2> DEFINE k == th[t].tries - 1
             r == [th[t] EXCEPT !.pc = "breaker", !.tries = k, !.info = NoConn]
  <2>1. k \in 0 .. MaxRetries
    BY <1>1, ConnectionManagerAssumption DEF Placed, Task
  <2>2. th' = [th EXCEPT ![t] = r]
    BY <1>1 DEF Fail
  <2> HIDE DEF k
  <2>3. r \in Task /\ r.pc = "breaker" /\ r.peer = th[t].peer
    BY <2>1 DEF Placed, Task, PC, Info
  <2>4. Carries(r)
    BY <2>3 DEF Placed, Carries
  <2> QED
    BY <2>2, <2>3, <2>4, OneTask
<1>2. CASE ~(th[t].tries > 1)
  BY <1>2, AwayIsTask, OneTask DEF Fail
<1> QED
  BY <1>1, <1>2

-----------------------------------------------------------------------------
(* What a step of task t may do to what the invariants are about *)

Same(t) == \A u \in Tasks \ {t} : th'[u] = th[u]
Passing(r) == r.pc \in {"insert", "connecting"}
Taken == Checked \cup {th[t].peer : t \in Passed}
Unfit(e) == e.status # "none" /\ ~Reusable(e)
Waits(c) == c.status = "Connecting" /\ c.from = "checked"

\* A pooled entry that is read and unfit stays so, and so is one that t hangs on.
HangsTame(t) ==
  /\ \A p \in Peers : Reading(p) /\ Unfit(pool[p]) => Unfit(pool'[p])
  /\ th'[t].pc = "hung" => Unfit(pool'[th'[t].peer])

\* No peer is newly taken.
LimitTame(t) ==
  /\ Passing(th'[t]) => Passing(th[t]) /\ th'[t].peer = th[t].peer
  /\ \A p \in Peers : conns'[p].from \in {"checked", "told"} =>
       conns[p].from \in {"checked", "told"} \/ (Passing(th[t]) /\ th[t].peer = p)

\* An entry that waits is waited for.
WaitTame(t) ==
  /\ abandoned \subseteq abandoned'
  /\ Passing(th[t]) =>
       \/ Passing(th'[t]) /\ th'[t].peer = th[t].peer
       \/ th[t].peer \in abandoned'
       \/ ~Waits(conns'[th[t].peer])
  /\ \A p \in Peers : Waits(conns'[p]) =>
       Waits(conns[p]) \/ (Passing(th'[t]) /\ th'[t].peer = p)

LEMMA HungKept ==
  ASSUME Placed, HungForGood, NEW t \in Tasks, Same(t), HangsTame(t)
  PROVE  HungForGood'
<1> SUFFICES ASSUME NEW u \in Tasks, th'[u].pc = "hung"
             PROVE  Unfit(pool'[th'[u].peer])
  BY DEF HungForGood, At, Unfit, Reusable
<1>1. CASE u = t
  BY <1>1 DEF HangsTame
<1>2. CASE u # t
  <2>1. th'[u] = th[u]
    BY <1>2 DEF Same
  <2>2. th[u].peer \in Peers /\ Reading(th[u].peer)
    BY <2>1 DEF Placed, Carries, Reading
  <2>3. Unfit(pool[th[u].peer])
    BY <2>1 DEF HungForGood, At, Unfit
  <2> QED
    BY <2>1, <2>2, <2>3 DEF HangsTame
<1> QED
  BY <1>1, <1>2

LEMMA WaitKept ==
  ASSUME Placed, ConnectingInFlight, NEW t \in Tasks, Same(t), WaitTame(t)
  PROVE  ConnectingInFlight'
<1> SUFFICES ASSUME NEW p \in Peers, Waits(conns'[p]), p \notin abandoned'
             PROVE  \E u \in Tasks : Passing(th'[u]) /\ th'[u].peer = p
  BY DEF ConnectingInFlight, Waits, Passed, Passing
<1>1. CASE Passing(th'[t]) /\ th'[t].peer = p
  BY <1>1
<1>2. CASE ~(Passing(th'[t]) /\ th'[t].peer = p)
  <2>1. Waits(conns[p]) /\ p \notin abandoned
    BY <1>2 DEF WaitTame
  <2>2. PICK u \in Tasks : Passing(th[u]) /\ th[u].peer = p
    BY <2>1 DEF ConnectingInFlight, Waits, Passed, Passing
  <2>3. u # t
    BY <1>2, <2>2 DEF WaitTame
  <2> QED
    BY <2>2, <2>3 DEF Same
<1> QED
  BY <1>1, <1>2

LEMMA TakenKept ==
  ASSUME Placed, NEW t \in Tasks, Same(t), LimitTame(t)
  PROVE  Taken' \subseteq Taken
<1> SUFFICES ASSUME NEW p \in Taken'
             PROVE  p \in Taken
  OBVIOUS
<1>1. CASE p \in Checked'
  BY <1>1 DEF Checked, Taken, LimitTame, Passed, Passing
<1>2. CASE p \in {th'[u].peer : u \in Passed'}
  <2>1. PICK u \in Tasks : Passing(th'[u]) /\ th'[u].peer = p
    BY <1>2 DEF Passed, Passing
  <2>2. Passing(th[u]) /\ th[u].peer = p
    BY <2>1 DEF Same, LimitTame
  <2> QED
    BY <2>2 DEF Taken, Passed, Passing
<1> QED
  BY <1>1, <1>2 DEF Taken

LEMMA LimitKept ==
  ASSUME Placed, LimitRace, Taken' \subseteq Taken
  PROVE  LimitRace'
<1>1. Taken \subseteq Peers
  BY DEF Taken, Checked, Passed, Placed, Carries
<1>2. IsFiniteSet(Taken)
  BY <1>1, FS_Subset, ConnectionManagerAssumption
<1>3. /\ IsFiniteSet(Taken') /\ Cardinality(Taken') <= Cardinality(Taken)
      /\ Cardinality(Taken') \in Nat /\ Cardinality(Taken) \in Nat
  BY <1>2, FS_Subset, FS_CardinalityType
<1>4. Cardinality(Tasks) \in Nat
  BY FS_CardinalityType, ConnectionManagerAssumption
<1>5. Cardinality(Taken) <= MaxConnections + Cardinality(Tasks) - 1
  BY DEF LimitRace, Taken
<1>6. Cardinality(Taken') <= MaxConnections + Cardinality(Tasks) - 1
  BY <1>3, <1>4, <1>5, ConnectionManagerAssumption
<1> QED
  BY <1>6 DEF LimitRace, Taken

\* A pass of the limit takes one more peer than there were connections, besides
\* those of the tasks that passed before: no more than there are tasks.
LEMMA LimitPassed ==
  ASSUME Shape, Placed', NEW t \in Tasks, PassLimit(t)
  PROVE  LimitRace'
<1> DEFINE P == Passed'
           I == {th'[u].peer : u \in P}
           f == [u \in P |-> th'[u].peer]
<1>1. /\ IsFiniteSet(Known) /\ Cardinality(Known) \in Nat
      /\ Cardinality(Known) < MaxConnections
  <2>1. IsFiniteSet(Known)
    BY FS_Subset, ConnectionManagerAssumption DEF Known
  <2> QED
    BY <2>1, FS_CardinalityType DEF PassLimit
<1>2. /\ IsFiniteSet(Checked') /\ Cardinality(Checked') \in Nat
      /\ Cardinality(Checked') <= Cardinality(Known)
  <2>1. Checked' \subseteq Known
    BY InfoFields DEF PassLimit, maps, Checked, Known, Shape, Tables
  <2> QED
    BY <1>1, <2>1, FS_Subset, FS_CardinalityType
<1>3. /\ IsFiniteSet(I) /\ Cardinality(I) \in Nat /\ Cardinality(Tasks) \in Nat
      /\ Cardinality(I) <= Cardinality(Tasks)
  <2>1. /\ IsFiniteSet(P) /\ Cardinality(P) \in Nat /\ Cardinality(Tasks) \in Nat
        /\ Cardinality(P) <= Cardinality(Tasks)
    BY FS_Subset, FS_CardinalityType, ConnectionManagerAssumption DEF Passed
  <2>2. f \in Surjection(P, I)
    BY DEF Surjection
  <2>3. IsFiniteSet(I) /\ Cardinality(I) <= Cardinality(P)
    BY <2>1, <2>2, FS_Surjection
  <2> QED
    BY <2>1, <2>3, FS_CardinalityType
<1>4. /\ Cardinality(Checked' \cup I) =
           Cardinality(Checked') + Cardinality(I) - Cardinality(Checked' \cap I)
      /\ Cardinality(Checked' \cap I) \in Nat
  BY <1>2, <1>3, FS_Union, FS_Intersection, FS_CardinalityType
<1> HIDE DEF I
<1>5. Cardinality(Checked' \cup I) <= MaxConnections + Cardinality(Tasks) - 1
  BY <1>1, <1>2, <1>3, <1>4, ConnectionManagerAssumption
<1> QED
  BY <1>5 DEF LimitRace, I

-----------------------------------------------------------------------------
(* The steps of connect *)

Tame(t) == Same(t) /\ HangsTame(t) /\ LimitTame(t) /\ WaitTame(t)

LEMMA Quiet ==
  ASSUME NEW t \in Tasks, Same(t), UNCHANGED <<conns, pool, abandoned>>,
         ~Passing(th[t]), ~Passing(th'[t]), th'[t].pc # "hung"
  PROVE  Tame(t)
  BY DEF Tame, HangsTame, LimitTame, WaitTame, Reading, Unfit, Reusable

LEMMA AdmitStep ==
  ASSUME Shape, NEW t \in Tasks, Admit(t)
  PROVE  Shape' /\ Tame(t)
<1> DEFINE p == th[t].peer
<1>1. /\ Placed' /\ th'[t].pc = "pool" /\ Same(t)
  BY Gone DEF Admit, At, Shape, PC, Same
<1>2. p \in Peers /\ breaker[p] \in Breaker /\ Counts(breaker[p])
  BY DEF Admit, At, Shape, Placed, Carries, Counted
<1>3. Counted'
  BY <1>2, AllowingKeeps, OneBreaker DEF Admit, Shape
<1>4. Tame(t)
  BY <1>1, Quiet DEF Admit, At, Passing
<1> QED
  BY <1>1, <1>3, <1>4 DEF Admit, Shape, Tables, Noted

LEMMA NoSuccessStep ==
  ASSUME Shape, NEW t \in Tasks, Refuse(t) \/ AtLimit(t)
  PROVE  Shape' /\ Tame(t)
<1>1. Placed' /\ th'[t].pc \in {"idle", "breaker"} /\ Same(t)
  BY FailedAgain DEF Refuse, AtLimit, At, Shape, Same
<1>2. Tame(t)
  BY <1>1, Quiet DEF Refuse, AtLimit, At, Passing, maps
<1> QED
  BY <1>1, <1>2 DEF Refuse, AtLimit, maps, Shape, Tables, Counted, Noted, Counts, Closed

LEMMA ReuseStep ==
  ASSUME Shape, NEW t \in Tasks, Reuse(t)
  PROVE  Shape' /\ Tame(t)
<1> DEFINE p == th[t].peer
           c == [status |-> pool[p].status, healthy |-> TRUE, from |-> "reused"]
<1>1. Placed' /\ th'[t].pc = "reused" /\ Same(t)
  BY Gone DEF Reuse, At, Shape, PC, Same
<1>2. p \in Peers /\ conns' = [conns EXCEPT ![p] = c] /\ ~Passing(th[t])
  BY DEF Reuse, At, Shape, Placed, Carries, Passing
<1>3. c \in Info
  BY <1>2, EntryFields DEF Reuse, Reusable, Shape, Tables, Info, Froms
<1>4. c.from = "reused"
  OBVIOUS
<1> HIDE DEF c
<1>5. Tables' /\ conns'[p] = c /\ \A q \in Peers \ {p} : conns'[q] = conns[q]
  BY <1>2, <1>3 DEF Reuse, Shape, Tables
<1>6. Tame(t)
  BY <1>1, <1>2, <1>4, <1>5
  DEF Tame, HangsTame, LimitTame, WaitTame, Waits, Passing, Reuse, Reading, Unfit, Reusable
<1> QED
  BY <1>1, <1>5, <1>6 DEF Reuse, Shape, Counted, Noted, Counts, Closed

LEMMA RecordReuseStep ==
  ASSUME Shape, NEW t \in Tasks, RecordReuse(t)
  PROVE  Shape' /\ Tame(t)
<1> DEFINE p == th[t].peer
<1>1. Placed' /\ th'[t].pc = "idle" /\ Same(t)
  BY Left DEF RecordReuse, Shape, Same
<1>2. p \in Peers /\ breaker[p] \in Breaker /\ Counts(breaker[p])
  BY DEF RecordReuse, At, Shape, Placed, Carries, Counted
<1>3. Counted'
  <2>1. CASE breaker[p].state = "none"
    BY <2>1 DEF RecordReuse, Shape, Counted, Counts, Closed
  <2>2. CASE breaker[p].state # "none"
    BY <1>2, <2>2, RecordingKeeps, OneBreaker DEF RecordReuse, Shape
  <2> QED
    BY <2>1, <2>2
<1>4. Tame(t)
  BY <1>1, Quiet DEF RecordReuse, At, Passing
<1> QED
  BY <1>1, <1>3, <1>4 DEF RecordReuse, Shape, Tables, Noted

LEMMA HangStep ==
  ASSUME Shape, NEW t \in Tasks, Hang(t)
  PROVE  Shape' /\ Tame(t)
<1>1. /\ Placed' /\ th'[t].pc = "hung" /\ th'[t].peer = th[t].peer /\ Same(t)
  BY Gone DEF Hang, At, Shape, PC, Same
<1>2. Tame(t)
  BY <1>1 DEF Tame, HangsTame, LimitTame, WaitTame, Passing, Hang, At, maps, Unfit, Reusable
<1> QED
  BY <1>1, <1>2 DEF Hang, maps, Shape, Tables, Counted, Noted, Counts, Closed

LEMMA MissStep ==
  ASSUME Shape, NEW t \in Tasks, Miss(t)
  PROVE  Shape' /\ Tame(t)
<1>1. Placed' /\ th'[t].pc = "limit" /\ Same(t)
  BY Gone DEF Miss, At, Shape, PC, Same
<1>2. Tame(t)
  BY <1>1, Quiet DEF Miss, At, Passing, maps
<1> QED
  BY <1>1, <1>2 DEF Miss, maps, Shape, Tables, Counted, Noted, Counts, Closed

LEMMA PassLimitStep ==
  ASSUME Shape, NEW t \in Tasks, PassLimit(t)
  PROVE  Shape' /\ LimitRace' /\ Same(t) /\ HangsTame(t) /\ WaitTame(t)
<1>1. Placed' /\ th'[t].pc = "insert" /\ Same(t)
  BY Gone DEF PassLimit, At, Shape, PC, Same
<1>2. HangsTame(t) /\ WaitTame(t)
  BY <1>1
  DEF HangsTame, WaitTame, Waits, Passing, PassLimit, At, maps, Reading, Unfit, Reusable
<1>3. Shape'
  BY <1>1 DEF PassLimit, maps, Shape, Tables, Counted, Noted, Counts, Closed
<1> QED
  BY <1>1, <1>2, <1>3, LimitPassed

LEMMA InsertStep ==
  ASSUME Shape, NEW t \in Tasks, InsertConnecting(t)
  PROVE  Shape' /\ Tame(t)
<1> DEFINE p == th[t].peer
           c == New("Connecting", "checked")
<1>1. /\ Placed' /\ th'[t].pc = "connecting" /\ th'[t].peer = p /\ Same(t)
  BY Gone DEF InsertConnecting, At, Shape, PC, Same
<1>2. p \in Peers /\ c \in Info
  BY NewIsInfo DEF InsertConnecting, At, Shape, Placed, Carries, Statuses, Froms
<1> HIDE DEF c
<1>3. Tables' /\ \A q \in Peers \ {p} : conns'[q] = conns[q]
  BY <1>2 DEF InsertConnecting, Shape, Tables, c
<1>4. Tame(t)
  BY <1>1, <1>3
  DEF Tame, HangsTame, LimitTame, WaitTame, Waits, Passing, InsertConnecting, At, Reading,
      Unfit, Reusable
<1> QED
  BY <1>1, <1>3, <1>4 DEF InsertConnecting, Shape, Counted, Noted, Counts, Closed

LEMMA LandStep ==
  ASSUME Shape, NEW t \in Tasks, NEW c \in Outcomes, Land(t, c)
  PROVE  Shape' /\ Tame(t)
<1> DEFINE p == th[t].peer
           r == [th[t] EXCEPT !.pc = "record", !.info = c]
<1>1. p \in Peers /\ c \in Info /\ c.status # "Connecting" /\ Passing(th[t])
  BY OutcomeIsInfo DEF Land, At, Shape, Placed, Carries, Passing
<1>2. conns' = [conns EXCEPT ![p] = c] /\ th' = [th EXCEPT ![t] = r]
  BY DEF Land
<1>3. r \in Task /\ r.pc = "record" /\ r.peer = p
  BY <1>1 DEF Shape, Placed, Task, PC
<1>4. Carries(r)
  BY <1>1, <1>3 DEF Carries
<1> HIDE DEF r
<1>5. Placed' /\ th'[t] = r /\ Same(t)
  BY <1>2, <1>3, <1>4, OneTask DEF Shape, Same
<1>6. Tables' /\ conns'[p] = c /\ \A q \in Peers \ {p} : conns'[q] = conns[q]
  BY <1>1, <1>2 DEF Land, Shape, Tables
<1>7. Tame(t)
  BY <1>1, <1>3, <1>5, <1>6
  DEF Tame, HangsTame, LimitTame, WaitTame, Waits, Passing, Land, Reading, Unfit, Reusable
<1> QED
  BY <1>5, <1>6, <1>7 DEF Land, Shape, Counted, Noted, Counts, Closed

LEMMA RecordStep ==
  ASSUME Shape, NEW t \in Tasks, Record(t)
  PROVE  Shape' /\ Tame(t)
<1> DEFINE p == th[t].peer
           success == th[t].info.status = "Connected"
<1>1. Placed' /\ th'[t].pc \in {"idle", "breaker"} /\ Same(t)
  BY Left, FailedAgain DEF Record, At, Shape, Same
<1>2. p \in Peers /\ breaker[p] \in Breaker /\ Counts(breaker[p])
  BY DEF Record, At, Shape, Placed, Carries, Counted
<1>3. breaker' = [breaker EXCEPT ![p] = Recorded(@, success)] /\ success \in BOOLEAN
  BY DEF Record
<1> HIDE DEF success
<1>4. Counted'
  BY <1>2, <1>3, RecordingKeeps, OneBreaker DEF Shape
<1>5. Tame(t)
  BY <1>1, Quiet DEF Record, At, Passing
<1> QED
  BY <1>1, <1>4, <1>5 DEF Record, Shape, Tables, Noted

LEMMA DropStep ==
  ASSUME Shape, NEW t \in Tasks, Drop(t)
  PROVE  Shape' /\ Tame(t)
<1>1. Placed' /\ th'[t].pc = "idle" /\ Same(t)
  BY Left DEF Drop, Shape, Same
<1>2. /\ abandoned' \subseteq Peers /\ abandoned \subseteq abandoned'
      /\ Passing(th[t]) => th[t].peer \in abandoned'
  BY DEF Drop, At, Shape, Placed, Carries, Noted, Passing
<1>3. Tame(t)
  BY <1>1, <1>2
  DEF Tame, HangsTame, LimitTame, WaitTame, Passing, Drop, maps, Reading, Unfit, Reusable
<1> QED
  BY <1>1, <1>2, <1>3 DEF Drop, maps, Shape, Tables, Counted, Noted, Counts, Closed

-----------------------------------------------------------------------------
(* The steps of the other operations *)

LEMMA ConnectStep ==
  ASSUME Shape, NEW t \in Tasks, NEW p \in Peers, NEW tries \in {1, MaxRetries},
         Connect(t, p, tries)
  PROVE  Shape' /\ Tame(t)
<1> DEFINE r == [th[t] EXCEPT !.pc = "breaker", !.peer = p, !.tries = tries]
<1>1. th' = [th EXCEPT ![t] = r]
  BY DEF Connect
<1>2. tries \in 0 .. MaxRetries
  BY ConnectionManagerAssumption
<1>3. r \in Task /\ r.pc = "breaker" /\ r.peer = p
  BY <1>2 DEF Shape, Placed, Task, PC
<1>4. Carries(r)
  BY <1>3 DEF Carries
<1> HIDE DEF r
<1>5. Placed' /\ th'[t] = r /\ Same(t)
  BY <1>1, <1>3, <1>4, OneTask DEF Shape, Same
<1>6. Tame(t)
  BY <1>3, <1>5, Quiet DEF Connect, Begin, At, Passing, maps
<1>7. Noted'
  BY ConnectionManagerAssumption DEF Connect, Begin, Shape, Noted
<1> QED
  BY <1>5, <1>6, <1>7 DEF Connect, maps, Shape, Tables, Counted, Counts, Closed

\* An entry that is removed is no hazard to any invariant.
LEMMA Removed ==
  ASSUME Shape, NEW t \in Tasks, NEW p \in Peers, NEW r \in Task, Carries(r),
         ~Passing(th[t]), ~Passing(r), r.pc # "hung",
         conns' = [conns EXCEPT ![p] = NoConn], th' = [th EXCEPT ![t] = r],
         UNCHANGED <<pool, breaker, abandoned>>, Noted'
  PROVE  Shape' /\ Tame(t)
<1>1. Placed' /\ th'[t] = r /\ Same(t)
  BY OneTask DEF Shape, Same
<1>2. Tables' /\ conns'[p] = NoConn /\ \A q \in Peers \ {p} : conns'[q] = conns[q]
  BY DEF Shape, Tables, Info
<1>3. NoConn.status = "none" /\ NoConn.from = "none"
  BY DEF NoConn
<1>4. Tame(t)
  BY <1>1, <1>2, <1>3
  DEF Tame, HangsTame, LimitTame, WaitTame, Waits, Passing, Reading, Unfit, Reusable
<1> QED
  BY <1>1, <1>2, <1>4 DEF Shape, Counted, Counts, Closed

LEMMA RecoverStep ==
  ASSUME Shape, NEW t \in Tasks, NEW p \in Peers, Recover(t, p)
  PROVE  Shape' /\ Tame(t)
<1> DEFINE r == [th[t] EXCEPT !.pc = "unpool", !.peer = p]
<1>1. r \in Task /\ r.pc = "unpool" /\ r.peer = p
  BY DEF Shape, Placed, Task, PC
<1>2. Carries(r) /\ ~Passing(r) /\ ~Passing(th[t])
  BY <1>1 DEF Carries, Passing, Recover, Begin, At
<1>3. Noted'
  BY ConnectionManagerAssumption DEF Recover, Begin, Shape, Noted
<1>4. r.pc # "hung" /\ th' = [th EXCEPT ![t] = r]
  BY <1>1 DEF Recover
<1> HIDE DEF r
<1> QED
  BY <1>1, <1>2, <1>3, <1>4, Removed DEF Recover

LEMMA DisconnectStep ==
  ASSUME Shape, NEW t \in Tasks, NEW p \in Peers, Disconnect(t, p)
  PROVE  Shape' /\ Tame(t)
<1> DEFINE pc == IF conns[p].healthy THEN "stash" ELSE "clean"
           r == [th[t] EXCEPT !.pc = pc, !.peer = p, !.info = conns[p], !.todo = Peers]
<1>1. pc \in {"stash", "clean"} /\ pc \in PC /\ conns[p] \in Info
      /\ (pc = "stash" => conns[p].status \in Statuses)
  BY InfoFields DEF Shape, Tables, PC
<1>2. th' = [th EXCEPT ![t] = r]
  BY DEF Disconnect
<1> HIDE DEF pc
<1>3. r \in Task /\ r.pc = pc /\ r.peer = p /\ r.info = conns[p]
  BY <1>1 DEF Shape, Placed, Task
<1>4. Carries(r) /\ ~Passing(r) /\ ~Passing(th[t]) /\ r.pc # "hung"
  BY <1>1, <1>3 DEF Carries, Passing, Disconnect, Begin, At
<1>5. Noted'
  BY ConnectionManagerAssumption DEF Disconnect, Begin, Shape, Noted
<1> HIDE DEF r
<1> QED
  BY <1>2, <1>3, <1>4, <1>5, Removed DEF Disconnect

\* A step that writes the pooled entry of p, which no one reads.
LEMMA Pooled ==
  ASSUME Shape, NEW t \in Tasks, NEW p \in Peers, ~Reading(p),
         pool' \in [Peers -> Entry], \A q \in Peers \ {p} : pool'[q] = pool[q],
         Placed', Same(t), ~Passing(th[t]), ~Passing(th'[t]), th'[t].pc # "hung",
         UNCHANGED <<conns, breaker, abandoned, calls>>
  PROVE  Shape' /\ Tame(t)
<1>1. Tame(t)
  BY DEF Tame, HangsTame, LimitTame, WaitTame, Waits
<1> QED
  BY <1>1 DEF Shape, Tables, Counted, Noted, Counts, Closed

LEMMA UnpoolStep ==
  ASSUME Shape, NEW t \in Tasks, Unpool(t)
  PROVE  Shape' /\ Tame(t)
<1> DEFINE r == [th[t] EXCEPT !.pc = "breaker", !.tries = MaxRetries]
           p == th[t].peer
<1>1. MaxRetries \in 0 .. MaxRetries
  BY ConnectionManagerAssumption
<1>2. r \in Task /\ r.pc = "breaker" /\ r.peer = p
  BY <1>1 DEF Shape, Placed, Task, PC
<1>3. p \in Peers /\ ~Passing(th[t])
  BY DEF Carries, Passing, Unpool, At, Shape, Placed
<1>4. Carries(r)
  BY <1>2, <1>3 DEF Carries
<1>5. th' = [th EXCEPT ![t] = r]
  BY DEF Unpool
<1> HIDE DEF r
<1>6. Placed' /\ th'[t] = r /\ Same(t)
  BY <1>2, <1>4, <1>5, OneTask DEF Shape, Same
<1>7. pool' \in [Peers -> Entry] /\ \A q \in Peers \ {p} : pool'[q] = pool[q]
  BY DEF Unpool, Shape, Tables, Entry
<1>8. ~Passing(th'[t]) /\ th'[t].pc # "hung"
  BY <1>2, <1>6 DEF Passing
<1> QED
  BY <1>3, <1>6, <1>7, <1>8, Pooled DEF Unpool

LEMMA StashStep ==
  ASSUME Shape, NEW t \in Tasks, Stash(t)
  PROVE  Shape' /\ Tame(t)
<1> DEFINE p == th[t].peer
           e == [status |-> th[t].info.status, healthy |-> TRUE, fresh |-> TRUE]
<1>1. Placed' /\ th'[t].pc = "clean" /\ Same(t)
  BY Gone DEF Stash, At, Shape, PC, Same
<1>2. p \in Peers /\ ~Passing(th[t]) /\ e \in Entry
  BY DEF Carries, Passing, Stash, At, Shape, Placed, Entry
<1>3. pool' = [pool EXCEPT ![p] = e]
  BY DEF Stash
<1> HIDE DEF e
<1>4. pool' \in [Peers -> Entry] /\ \A q \in Peers \ {p} : pool'[q] = pool[q]
  BY <1>2, <1>3 DEF Shape, Tables
<1>5. ~Passing(th'[t]) /\ th'[t].pc # "hung"
  BY <1>1 DEF Passing
<1> QED
  BY <1>1, <1>2, <1>4, <1>5, Pooled DEF Stash

LEMMA CleanStep ==
  ASSUME Shape, NEW t \in Tasks, NEW p \in Peers, Clean(t, p)
  PROVE  Shape' /\ Tame(t)
<1> DEFINE left == [th[t] EXCEPT !.todo = th[t].todo \ {p}]
           r == IF th[t].todo = {p} THEN Away ELSE left
<1>1. left \in Task /\ left.pc = "clean" /\ Carries(left)
  BY DEF Clean, At, Shape, Placed, Task, Carries
<1>2. r \in Task /\ Carries(r) /\ r.pc \in {"idle", "clean"}
  BY <1>1, AwayIsTask
<1>3. th' = [th EXCEPT ![t] = r]
  BY DEF Clean
<1> HIDE DEF r
<1>4. Placed' /\ th'[t] = r /\ Same(t)
  BY <1>2, <1>3, OneTask DEF Shape, Same
<1>5. pool' \in [Peers -> Entry] /\ \A q \in Peers \ {p} : pool'[q] = pool[q]
  BY DEF Clean, Shape, Tables, Entry
<1>6. ~Passing(th[t]) /\ ~Passing(th'[t]) /\ th'[t].pc # "hung"
  BY <1>2, <1>4 DEF Passing, Clean, At
<1>7. ~Reading(p)
  BY DEF Clean
<1> QED
  BY <1>4, <1>5, <1>6, <1>7, Pooled DEF Clean

LEMMA UpdateKnownStep ==
  ASSUME Shape, NEW t \in Tasks, NEW p \in Peers, NEW status \in Statuses,
         NEW measured \in BOOLEAN, UpdateKnown(t, p, status, measured)
  PROVE  Shape' /\ Tame(t)
<1> DEFINE from == Told(conns[p].from, status)
<1>1. PICK healthy \in BOOLEAN :
        conns' = [conns EXCEPT ![p] = Made(status, healthy, from)]
  <2>1. conns[p].healthy \in BOOLEAN
    BY InfoFields DEF UpdateKnown, Known, Shape, Tables
  <2> QED
    BY <2>1 DEF UpdateKnown
<1> DEFINE c == Made(status, healthy, from)
<1>2. conns' = [conns EXCEPT ![p] = c]
  BY <1>1
<1>3. /\ c \in Info /\ ~Waits(c)
      /\ c.from \in {"checked", "told"} => conns[p].from \in {"checked", "told"}
  <2>1. conns[p] \in [status : Statuses, healthy : BOOLEAN, from : Froms]
    BY InfoFields DEF UpdateKnown, Known, Shape, Tables
  <2>2. from \in Froms /\ (from = "checked" => status # "Connecting")
        /\ (from \in {"checked", "told"} => conns[p].from \in {"checked", "told"})
    BY <2>1 DEF Told, Froms
  <2> HIDE DEF from
  <2> QED
    BY <2>1, <2>2 DEF Info, Made, Waits
<1> HIDE DEF c
<1>4. Tables' /\ conns'[p] = c /\ \A q \in Peers \ {p} : conns'[q] = conns[q]
  BY <1>2, <1>3 DEF UpdateKnown, Shape, Tables
<1>5. Counted'
  <2>1. breaker[p] \in Breaker /\ Counts(breaker[p])
    BY DEF Shape, Counted
  <2>2. CASE measured /\ breaker[p].state # "none"
    <3> DEFINE success == status = "Connected"
    <3>1. breaker' = [breaker EXCEPT ![p] = Recorded(@, success)] /\ success \in BOOLEAN
      BY <2>2 DEF UpdateKnown
    <3> HIDE DEF success
    <3> QED
      BY <2>1, <3>1, RecordingKeeps, OneBreaker DEF Shape
  <2>3. CASE ~(measured /\ breaker[p].state # "none")
    BY <2>3 DEF UpdateKnown, Shape, Counted, Counts, Closed
  <2> QED
    BY <2>2, <2>3
<1>6. th' = th /\ pool' = pool /\ abandoned' = abandoned /\ ~Passing(th[t])
  BY DEF UpdateKnown, Begin, At, Passing
<1>7. Placed' /\ Same(t)
  BY <1>6 DEF Shape, Placed, Same, Carries
<1>8. Tame(t)
  BY <1>3, <1>4, <1>6, <1>7
  DEF Tame, HangsTame, LimitTame, WaitTame, Waits, Passing, Unfit, Reusable, UpdateKnown,
      Begin, At
<1>9. Noted'
  BY ConnectionManagerAssumption DEF UpdateKnown, Begin, Shape, Noted
<1> QED
  BY <1>4, <1>5, <1>7, <1>8, <1>9 DEF Shape

LEMMA UpdateUnknownStep ==
  ASSUME Shape, NEW t \in Tasks, NEW p \in Peers, NEW status \in Statuses,
         NEW measured \in BOOLEAN, UpdateUnknown(t, p, status, measured)
  PROVE  Shape' /\ Tame(t)
<1>1. PICK healthy \in BOOLEAN :
        th' = [th EXCEPT ![t].pc = "unknown", ![t].peer = p,
                         ![t].info = Made(status, healthy, "updated")]
  BY DEF UpdateUnknown
<1> DEFINE i == Made(status, healthy, "updated")
           r == [th[t] EXCEPT !.pc = "unknown", !.peer = p, !.info = i]
<1>2. i \in Info /\ i.from = "updated"
  BY DEF Info, Made, Froms
<1>3. th' = [th EXCEPT ![t] = r]
  BY <1>1
<1> HIDE DEF i
<1>4. r \in Task /\ r.pc = "unknown" /\ r.peer = p /\ r.info = i
  BY <1>2 DEF Shape, Placed, Task, PC
<1>5. Carries(r)
  BY <1>2, <1>4 DEF Carries
<1> HIDE DEF r
<1>6. Placed' /\ th'[t] = r /\ Same(t)
  BY <1>3, <1>4, <1>5, OneTask DEF Shape, Same
<1>7. Tame(t)
  BY <1>4, <1>6, Quiet DEF UpdateUnknown, Begin, At, Passing, maps
<1>8. Noted'
  BY ConnectionManagerAssumption DEF UpdateUnknown, Begin, Shape, Noted
<1> QED
  BY <1>6, <1>7, <1>8 DEF UpdateUnknown, maps, Shape, Tables, Counted, Counts, Closed

LEMMA InsertUnknownStep ==
  ASSUME Shape, NEW t \in Tasks, InsertUnknown(t)
  PROVE  Shape' /\ Tame(t)
<1> DEFINE p == th[t].peer
           c == th[t].info
<1>1. Placed' /\ th'[t].pc = "idle" /\ Same(t)
  BY Left DEF InsertUnknown, Shape, Same
<1>2. p \in Peers /\ c \in Info /\ c.from = "updated" /\ ~Passing(th[t])
  BY DEF InsertUnknown, At, Shape, Placed, Task, Carries, Passing
<1>3. Tables' /\ conns'[p] = c /\ \A q \in Peers \ {p} : conns'[q] = conns[q]
  BY <1>2 DEF InsertUnknown, Shape, Tables
<1>4. pool' = pool /\ abandoned' = abandoned
  BY DEF InsertUnknown
<1>5. Tame(t)
  BY <1>1, <1>2, <1>3, <1>4
  DEF Tame, HangsTame, LimitTame, WaitTame, Waits, Passing, Unfit, Reusable
<1> QED
  BY <1>1, <1>3, <1>5 DEF InsertUnknown, Shape, Counted, Noted, Counts, Closed

-----------------------------------------------------------------------------
(* Time passes *)

LEMMA AgeStep ==
  ASSUME Shape, HungForGood, ConnectingInFlight, LimitRace, NEW p \in Peers, Age(p)
  PROVE  Shape' /\ HungForGood' /\ ConnectingInFlight' /\ LimitRace'
<1> DEFINE c == [conns[p] EXCEPT !.healthy = FALSE]
<1>1. c \in Info /\ c.status = conns[p].status /\ c.from = conns[p].from
  <2>1. conns[p] \in [status : Statuses, healthy : BOOLEAN, from : Froms]
    BY InfoFields DEF Age, Shape, Tables, Statuses
  <2> QED
    BY <2>1 DEF Info
<1>2. conns' = [conns EXCEPT ![p] = c]
  BY DEF Age
<1> HIDE DEF c
<1>3. /\ Tables'
      /\ \A q \in Peers : conns'[q].status = conns[q].status /\ conns'[q].from = conns[q].from
  BY <1>1, <1>2 DEF Age, Shape, Tables
<1>4. Shape'
  BY <1>3 DEF Age, Shape, Counted, Placed, Noted, Counts, Closed, Carries
<1>5. HungForGood'
  BY DEF Age, HungForGood, At, Reusable
<1>6. ConnectingInFlight'
  BY <1>3 DEF Age, ConnectingInFlight, Passed
<1>7. Taken' \subseteq Taken
  BY <1>3 DEF Age, Taken, Checked, Passed
<1> QED
  BY <1>4, <1>5, <1>6, <1>7, LimitKept DEF Shape

LEMMA AgePooledStep ==
  ASSUME Shape, HungForGood, ConnectingInFlight, LimitRace, NEW p \in Peers, AgePooled(p)
  PROVE  Shape' /\ HungForGood' /\ ConnectingInFlight' /\ LimitRace'
<1>1. PICK e \in {[pool[p] EXCEPT !.fresh = FALSE], [pool[p] EXCEPT !.healthy = FALSE]} :
        pool' = [pool EXCEPT ![p] = e]
  BY DEF AgePooled
<1>2. pool[p].status # "none"
      /\ pool[p] \in [status : Statuses, healthy : BOOLEAN, fresh : BOOLEAN]
  BY EntryFields DEF AgePooled, Shape, Tables
<1>3. e \in Entry /\ e.status = pool[p].status /\ ~(e.fresh /\ e.healthy)
  BY <1>2 DEF Entry
<1>4. /\ Tables'
      /\ \A q \in Peers : Unfit(pool[q]) => Unfit(pool'[q])
  BY <1>1, <1>3 DEF AgePooled, Shape, Tables, Unfit, Reusable
<1>5. Shape'
  BY <1>4 DEF AgePooled, Shape, Counted, Placed, Noted, Counts, Closed, Carries
<1>6. HungForGood'
  <2> SUFFICES ASSUME NEW t \in Tasks, th'[t].pc = "hung"
               PROVE  Unfit(pool'[th'[t].peer])
    BY DEF HungForGood, At, Unfit, Reusable
  <2>1. th[t].peer \in Peers /\ Unfit(pool[th[t].peer])
    BY DEF AgePooled, HungForGood, At, Unfit, Shape, Placed, Carries
  <2> QED
    BY <1>4, <2>1 DEF AgePooled
<1>7. ConnectingInFlight'
  BY DEF AgePooled, ConnectingInFlight, Passed
<1>8. Taken' \subseteq Taken
  BY DEF AgePooled, Taken, Checked, Passed
<1> QED
  BY <1>5, <1>6, <1>7, <1>8, LimitKept DEF Shape

LEMMA BreakerTimeoutStep ==
  ASSUME Shape, HungForGood, ConnectingInFlight, LimitRace, NEW p \in Peers,
         BreakerTimeout(p)
  PROVE  Shape' /\ HungForGood' /\ ConnectingInFlight' /\ LimitRace'
<1> DEFINE b == [breaker[p] EXCEPT !.state = "Due"]
<1>1. breaker' = [breaker EXCEPT ![p] = b]
  BY DEF BreakerTimeout
<1>2. b \in Breaker /\ Counts(b)
  BY DEF BreakerTimeout, Shape, Counted, Breaker, Counts, Closed
<1> HIDE DEF b
<1>3. Counted'
  BY <1>1, <1>2, OneBreaker DEF Shape
<1>4. Shape'
  BY <1>3 DEF BreakerTimeout, Shape, Tables, Placed, Noted, Carries
<1>5. HungForGood' /\ ConnectingInFlight'
  BY DEF BreakerTimeout, HungForGood, At, Reusable, ConnectingInFlight, Passed
<1>6. Taken' \subseteq Taken
  BY DEF BreakerTimeout, Taken, Checked, Passed
<1> QED
  BY <1>4, <1>5, <1>6, LimitKept DEF Shape

-----------------------------------------------------------------------------
(* The theorems *)

\* The invariants and the shape of the state, together inductive.
IInv == Shape /\ HungForGood /\ ConnectingInFlight /\ LimitRace

LEMMA TameKeeps ==
  ASSUME IInv, Shape', NEW t \in Tasks, Tame(t)
  PROVE  IInv'
  BY HungKept, WaitKept, TakenKept, LimitKept DEF IInv, Shape, Tame

LEMMA Starts ==
  ASSUME Init
  PROVE  IInv
<1>1. Tables
  BY DEF Init, Tables, Info, Entry
<1>2. Counted
  BY ConnectionManagerAssumption DEF Init, Counted, NoBreaker, Breaker, Counts, Closed
<1>3. Placed
  BY AwayIsTask DEF Init, Placed
<1>4. Noted
  BY ConnectionManagerAssumption DEF Init, Noted
<1>5. Taken = {}
  BY AwayIsTask DEF Init, Taken, Checked, Passed, NoConn, Away
<1>6. LimitRace
  <2>1. Cardinality(Taken) = 0 /\ Cardinality(Tasks) \in Nat
    BY <1>5, FS_EmptySet, FS_CardinalityType, ConnectionManagerAssumption
  <2>2. Cardinality(Taken) <= MaxConnections + Cardinality(Tasks) - 1
    BY <2>1, ConnectionManagerAssumption
  <2> QED
    BY <2>2 DEF LimitRace, Taken
<1>7. HungForGood
  BY DEF Init, HungForGood, At, Away
<1>8. ConnectingInFlight
  BY DEF Init, ConnectingInFlight, NoConn
<1> QED
  BY <1>1, <1>2, <1>3, <1>4, <1>6, <1>7, <1>8 DEF IInv, Shape

LEMMA Steps ==
  ASSUME IInv, [Next]_vars
  PROVE  IInv'
<1> USE DEF IInv
<1>1. ASSUME NEW t \in Tasks, Connecting(t) PROVE IInv'
  <2>1. CASE Admit(t)
    BY <2>1, AdmitStep, TameKeeps
  <2>2. CASE Refuse(t) \/ AtLimit(t)
    BY <2>2, NoSuccessStep, TameKeeps
  <2>3. CASE Reuse(t)
    BY <2>3, ReuseStep, TameKeeps
  <2>4. CASE RecordReuse(t)
    BY <2>4, RecordReuseStep, TameKeeps
  <2>5. CASE Hang(t)
    BY <2>5, HangStep, TameKeeps
  <2>6. CASE Miss(t)
    BY <2>6, MissStep, TameKeeps
  <2>7. CASE PassLimit(t)
    BY <2>7, PassLimitStep, HungKept, WaitKept DEF Shape
  <2>8. CASE InsertConnecting(t)
    BY <2>8, InsertStep, TameKeeps
  <2>9. CASE Record(t)
    BY <2>9, RecordStep, TameKeeps
  <2>10. CASE Drop(t)
    BY <2>10, DropStep, TameKeeps
  <2>11. ASSUME NEW info \in Outcomes, Land(t, info) PROVE IInv'
    BY <2>11, LandStep, TameKeeps
  <2> QED
    BY <1>1, <2>1, <2>2, <2>3, <2>4, <2>5, <2>6, <2>7, <2>8, <2>9, <2>10, <2>11 DEF Connecting
<1>2. ASSUME NEW t \in Tasks, Unpool(t) \/ Stash(t) \/ InsertUnknown(t) PROVE IInv'
  BY <1>2, UnpoolStep, StashStep, InsertUnknownStep, TameKeeps
<1>3. ASSUME NEW t \in Tasks, NEW p \in Peers, NEW tries \in {1, MaxRetries},
             Connect(t, p, tries)
      PROVE  IInv'
  BY <1>3, ConnectStep, TameKeeps
<1>4. ASSUME NEW t \in Tasks, NEW p \in Peers,
             Recover(t, p) \/ Disconnect(t, p) \/ Clean(t, p)
      PROVE  IInv'
  BY <1>4, RecoverStep, DisconnectStep, CleanStep, TameKeeps
<1>5. ASSUME NEW t \in Tasks, NEW p \in Peers, NEW status \in Statuses,
             NEW measured \in BOOLEAN,
             UpdateKnown(t, p, status, measured) \/ UpdateUnknown(t, p, status, measured)
      PROVE  IInv'
  BY <1>5, UpdateKnownStep, UpdateUnknownStep, TameKeeps
<1>6. ASSUME NEW p \in Peers, Age(p) \/ AgePooled(p) \/ BreakerTimeout(p) PROVE IInv'
  BY <1>6, AgeStep, AgePooledStep, BreakerTimeoutStep
<1>7. CASE UNCHANGED vars
  <2>1. Shape'
    BY <1>7 DEF vars, maps, Shape, Tables, Counted, Placed, Noted, Counts, Closed, Carries
  <2>2. HungForGood'
    BY <1>7 DEF vars, maps, HungForGood, At, Reusable
  <2>3. ConnectingInFlight'
    BY <1>7 DEF vars, maps, ConnectingInFlight, Passed
  <2>4. LimitRace'
    BY <1>7 DEF vars, maps, LimitRace, Checked, Passed
  <2> QED
    BY <2>1, <2>2, <2>3, <2>4
<1> QED
  BY <1>1, <1>2, <1>3, <1>4, <1>5, <1>6, <1>7 DEF Next

THEOREM Inductive == Spec => []IInv
  BY Starts, Steps, PTL DEF Spec

LEMMA Counting == IInv => BreakerCounts
  BY DEF IInv, Shape, Tables, Counted, Placed, Noted, BreakerCounts, TypeOK, Counts,
         Breaker, Task

\* However late a result comes, a breaker is closed exactly while its count of
\* failures is below the threshold, and on trial only below the other one.
THEOREM BreakerCountsAlways == Spec => []BreakerCounts
  BY Inductive, Counting, PTL

\* The race for the last places is lost by no more than the tasks there are.
THEOREM LimitRaceAlways == Spec => []LimitRace
<1>1. IInv => LimitRace
  BY DEF IInv
<1> QED
  BY <1>1, Inductive, PTL

\* An entry of connect that says Connecting is waited for or was abandoned.
THEOREM ConnectingInFlightAlways == Spec => []ConnectingInFlight
<1>1. IInv => ConnectingInFlight
  BY DEF IInv
<1> QED
  BY <1>1, Inductive, PTL

\* A connect that hangs hangs on an entry that no step can make fit.
THEOREM HungForGoodAlways == Spec => []HungForGood
<1>1. IInv => HungForGood
  BY DEF IInv
<1> QED
  BY <1>1, Inductive, PTL
=============================================================================
