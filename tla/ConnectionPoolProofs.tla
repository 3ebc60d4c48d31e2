------------------------ MODULE ConnectionPoolProofs ------------------------
(***************************************************************************)
(* Proofs about ConnectionPool, for any number of tasks, peers, shards and *)
(* connections, and any sizes.                                             *)
(***************************************************************************)
EXTENDS ConnectionPool, FiniteSetTheorems, SequenceTheorems, TLAPS

Task == [pc : PC, peer : Peers, conn : Conns \cup {NoConn},
         at : 1 .. NumPeers + 1, sum : Nat]
Work == [pc : {"sleep", "clean", "total", "grow", "measure"},
         at : 1 .. NumPeers + 1, sum : Nat]

\* Where a task has a connection in its hand.
Holding == {"reused", "created", "using", "keep", "destroy", "push"}

\* The shape of the state: TypeOK without its bounds, and what the program
\* counters say of what they stand for.
Pools ==
  /\ known \subseteq Peers /\ expired \subseteq Conns
  /\ queue \in [Peers -> Seq(Conns)]
  /\ granted \in [Peers -> Nat] /\ permits \in [Peers -> Nat]
  /\ signal \in [Peers -> {"absent", "empty", "stored"}]
Placed ==
  /\ th \in [Tasks -> Task]
  /\ \A t \in Tasks : th[t].conn # NoConn <=> th[t].pc \in Holding
Sweeping == m \in Work /\ (m.pc \in {"clean", "measure"} => m.at \in Peers)
Shape == Pools /\ Placed /\ Sweeping

\* The permits of a peer, wherever they are, are as many as at the start.
Conserved ==
  \A p \in Peers : permits[p] + Cardinality(InFlight(p)) + granted[p] = MaxSize

\* Behind every connection of a peer stands a grant.
Backed ==
  \A p \in Peers : Len(queue[p]) + Cardinality(InHand(p)) <= granted[p]

\* OneHolder, position by position.
Separate ==
  /\ \A t, u \in Tasks : th[t].conn = th[u].conn => t = u \/ th[t].conn = NoConn
  /\ \A p \in Peers : \A i \in DOMAIN queue[p] : \A t \in Tasks : th[t].conn # queue[p][i]
  /\ \A p, q \in Peers : \A i \in DOMAIN queue[p], j \in DOMAIN queue[q] :
       queue[p][i] = queue[q][j] => p = q /\ i = j

IndInv == Shape /\ Conserved /\ Backed /\ Separate

-----------------------------------------------------------------------------
(* Counting tasks *)

Flies(r, p)  == IF r.peer = p /\ r.pc \in Permitted THEN 1 ELSE 0
Holds(r, p) == IF r.peer = p /\ r.conn # NoConn THEN 1 ELSE 0

LEMMA FiniteCounts ==
  ASSUME NEW p
  PROVE  /\ IsFiniteSet(InFlight(p)) /\ Cardinality(InFlight(p)) \in Nat
         /\ IsFiniteSet(InHand(p)) /\ Cardinality(InHand(p)) \in Nat
  BY ConnectionPoolAssumption, FS_Subset, FS_CardinalityType DEF InFlight, InHand

\* When one member comes or goes, a count changes by one.
LEMMA Recount ==
  ASSUME NEW S, NEW T, NEW t, IsFiniteSet(S), T \ {t} = S \ {t}
  PROVE  Cardinality(T) = Cardinality(S)
                          - (IF t \in S THEN 1 ELSE 0) + (IF t \in T THEN 1 ELSE 0)
<1> DEFINE R == S \ {t}
<1>1. IsFiniteSet(R) /\ Cardinality(R) = Cardinality(S) - (IF t \in S THEN 1 ELSE 0)
  BY FS_RemoveElement, FS_CardinalityType
<1>2. T = IF t \in T THEN R \cup {t} ELSE R
  OBVIOUS
<1>3. Cardinality(R \cup {t}) = Cardinality(R) + 1
  BY <1>1, FS_AddElement
<1>4. Cardinality(S) \in Nat
  BY FS_CardinalityType
<1>5. Cardinality(T) = Cardinality(R) + (IF t \in T THEN 1 ELSE 0)
  <2>1. CASE t \in T
    BY <2>1, <1>2, <1>3, Zenon
  <2>2. CASE t \notin T
    <3>1. T = R
      BY <2>2, <1>2
    <3> QED
      BY <2>2, <3>1, <1>1, <1>4
  <2> QED
    BY <2>1, <2>2
<1> HIDE DEF R
<1> QED
  BY <1>1, <1>4, <1>5

\* One task moves, the others stay.
Moves(t) == th' \in [Tasks -> Task] /\ \A u \in Tasks \ {t} : th'[u] = th[u]

LEMMA MoveCounts ==
  ASSUME Shape, NEW t \in Tasks, Moves(t), NEW p \in Peers
  PROVE  /\ Cardinality(InFlight(p))' = Cardinality(InFlight(p)) - Flies(th[t], p) + Flies(th'[t], p)
         /\ Cardinality(InHand(p))' = Cardinality(InHand(p)) - Holds(th[t], p) + Holds(th'[t], p)
<1>1. InFlight(p)' \ {t} = InFlight(p) \ {t} /\ InHand(p)' \ {t} = InHand(p) \ {t}
  BY DEF Moves, InFlight, InHand
<1>2. /\ Flies(th[t], p) = IF t \in InFlight(p) THEN 1 ELSE 0
      /\ Flies(th'[t], p) = IF t \in InFlight(p)' THEN 1 ELSE 0
      /\ Holds(th[t], p) = IF t \in InHand(p) THEN 1 ELSE 0
      /\ Holds(th'[t], p) = IF t \in InHand(p)' THEN 1 ELSE 0
  BY DEF Flies, Holds, InFlight, InHand
<1>3. Cardinality(InFlight(p)') = Cardinality(InFlight(p))
        - (IF t \in InFlight(p) THEN 1 ELSE 0) + (IF t \in InFlight(p)' THEN 1 ELSE 0)
  BY <1>1, FiniteCounts, Recount
<1>4. Cardinality(InHand(p)') = Cardinality(InHand(p))
        - (IF t \in InHand(p) THEN 1 ELSE 0) + (IF t \in InHand(p)' THEN 1 ELSE 0)
  BY <1>1, FiniteCounts, Recount
<1> QED
  BY <1>2, <1>3, <1>4

\* What one task does to the books, from what it does to its own lines.
Balanced(t) ==
  \A p \in Peers :
    /\ permits'[p] + Flies(th'[t], p) + granted'[p] = permits[p] + Flies(th[t], p) + granted[p]
    /\ Len(queue'[p]) + Holds(th'[t], p) + granted[p]
         <= Len(queue[p]) + Holds(th[t], p) + granted'[p]

LEMMA Balance ==
  ASSUME IndInv, NEW t \in Tasks, Moves(t), Pools', Balanced(t)
  PROVE  Conserved' /\ Backed'
<1> SUFFICES ASSUME NEW p \in Peers
             PROVE  /\ permits'[p] + Cardinality(InFlight(p))' + granted'[p] = MaxSize
                    /\ Len(queue'[p]) + Cardinality(InHand(p))' <= granted'[p]
  BY DEF Conserved, Backed
<1>1. /\ permits[p] + Cardinality(InFlight(p)) + granted[p] = MaxSize
      /\ Len(queue[p]) + Cardinality(InHand(p)) <= granted[p]
  BY DEF IndInv, Conserved, Backed
<1>2. /\ Cardinality(InFlight(p))' = Cardinality(InFlight(p)) - Flies(th[t], p) + Flies(th'[t], p)
      /\ Cardinality(InHand(p))' = Cardinality(InHand(p)) - Holds(th[t], p) + Holds(th'[t], p)
  BY MoveCounts DEF IndInv
<1>3. /\ Cardinality(InFlight(p)) \in Nat /\ Cardinality(InHand(p)) \in Nat
      /\ Flies(th[t], p) \in Nat /\ Flies(th'[t], p) \in Nat
      /\ Holds(th[t], p) \in Nat /\ Holds(th'[t], p) \in Nat
  BY FiniteCounts DEF Flies, Holds
<1>4. /\ permits \in [Peers -> Nat] /\ granted \in [Peers -> Nat]
      /\ permits' \in [Peers -> Nat] /\ granted' \in [Peers -> Nat]
      /\ queue \in [Peers -> Seq(Conns)] /\ queue' \in [Peers -> Seq(Conns)]
      /\ th \in [Tasks -> Task] /\ th' \in [Tasks -> Task]
  BY DEF IndInv, Shape, Pools, Placed, Moves
<1>5. /\ permits'[p] + Flies(th'[t], p) + granted'[p] = permits[p] + Flies(th[t], p) + granted[p]
      /\ Len(queue'[p]) + Holds(th'[t], p) + granted[p]
           <= Len(queue[p]) + Holds(th[t], p) + granted'[p]
  BY DEF Balanced
<1> DEFINE q == permits[p]  q1 == permits'[p]  g == granted[p]  g1 == granted'[p]
           l == Len(queue[p])  l1 == Len(queue'[p])
           i == Flies(th[t], p)  i1 == Flies(th'[t], p)
           h == Holds(th[t], p)  h1 == Holds(th'[t], p)
           f == Cardinality(InFlight(p))  f1 == Cardinality(InFlight(p))'
           c == Cardinality(InHand(p))    c1 == Cardinality(InHand(p))'
<1>6. /\ q \in Nat /\ q1 \in Nat /\ g \in Nat /\ g1 \in Nat /\ l \in Nat /\ l1 \in Nat
      /\ i \in Nat /\ i1 \in Nat /\ h \in Nat /\ h1 \in Nat /\ f \in Nat /\ c \in Nat
  BY <1>3, <1>4
<1>7. /\ q + f + g = MaxSize /\ l + c <= g
      /\ f1 = f - i + i1 /\ c1 = c - h + h1
      /\ q1 + i1 + g1 = q + i + g /\ l1 + h1 + g <= l + h + g1
  BY <1>1, <1>2, <1>5
<1>8. q1 + f1 + g1 = MaxSize /\ l1 + c1 <= g1
  <2> HIDE DEF q, q1, g, g1, l, l1, i, i1, h, h1, f, f1, c, c1
  <2> QED
    BY <1>6, <1>7
<1> QED
  BY <1>8

\* Nothing gets a second holder when no hand takes anything up and the queues
\* are as they were.
LEMMA NothingTaken ==
  ASSUME IndInv, queue' = queue, \A u \in Tasks : th'[u].conn \in {th[u].conn, NoConn}
  PROVE  Separate'
<1>1. \A t, u \in Tasks : th'[t].conn = th'[u].conn => t = u \/ th'[t].conn = NoConn
  BY DEF IndInv, Separate
<1>2. \A p \in Peers : \A i \in DOMAIN queue[p] : queue[p][i] # NoConn
  BY ConnectionPoolAssumption DEF IndInv, Shape, Pools, NoConn
<1>3. \A p \in Peers : \A i \in DOMAIN queue[p] : \A t \in Tasks : th'[t].conn # queue[p][i]
  BY <1>2 DEF IndInv, Separate
<1> QED
  BY <1>1, <1>3 DEF IndInv, Separate

-----------------------------------------------------------------------------
(* The steps of a task *)

\* A step that moves neither permits nor connections, except that a task may
\* let go of the one it has.
Quiet(t) ==
  /\ Moves(t) /\ Placed' /\ Pools' /\ UNCHANGED <<queue, granted, permits, m>>
  /\ \A p \in Peers : Flies(th'[t], p) = Flies(th[t], p)
  /\ th'[t].conn = NoConn \/ (th'[t].conn = th[t].conn /\ th'[t].peer = th[t].peer)

LEMMA QuietKeeps ==
  ASSUME IndInv, NEW t \in Tasks, Quiet(t)
  PROVE  IndInv'
<1>1. Shape'
  BY DEF Quiet, IndInv, Shape, Sweeping
<1>2. \A p \in Peers : Holds(th'[t], p) \in Nat /\ Holds(th[t], p) \in Nat
                       /\ Holds(th'[t], p) <= Holds(th[t], p)
  BY DEF Quiet, Holds
<1>3. Conserved' /\ Backed'
  <2>1. \A p \in Peers : Len(queue[p]) \in Nat /\ granted[p] \in Nat
    <3>1. \A p \in Peers : queue[p] \in Seq(Conns)
      BY DEF IndInv, Shape, Pools
    <3> QED
      BY <3>1 DEF IndInv, Shape, Pools
  <2> QED
    BY <1>2, <2>1, Balance DEF Quiet, Balanced
<1>4. Separate'
  <2>1. \A u \in Tasks : th'[u].conn \in {th[u].conn, NoConn}
    BY DEF Quiet, Moves
  <2> QED
    BY <2>1, NothingTaken DEF Quiet
<1> QED
  BY <1>1, <1>3, <1>4 DEF IndInv

LEMMA Moved ==
  ASSUME Placed, NEW t \in Tasks, NEW r \in Task, th' = [th EXCEPT ![t] = r],
         r.conn # NoConn <=> r.pc \in Holding
  PROVE  Moves(t) /\ Placed' /\ th'[t] = r
  BY DEF Placed, Moves

LEMMA AwayIsATask == Away \in Task /\ Away.conn = NoConn /\ Away.pc = "idle"
  BY ConnectionPoolAssumption DEF Away, Task, PC, Peers

LEMMA QuietSteps ==
  ASSUME IndInv, NEW t \in Tasks,
         \/ \E p \in Peers : Acquire(t, p)
         \/ PermitTimeout(t) \/ TimedOut(t) \/ FinishReuse(t) \/ CountIdle(t)
         \/ FinishCreate(t) \/ Park(t) \/ WaitTimeout(t)
         \/ Release(t) \/ CountOne(t) \/ DecideKeep(t) \/ Destroy(t) \/ FinishRelease(t)
  PROVE  Quiet(t)
<1> DEFINE r == th[t]
<1>0. /\ r \in Task /\ (r.conn # NoConn <=> r.pc \in Holding)
      /\ Placed /\ Pools /\ th \in [Tasks -> Task]
  BY DEF IndInv, Shape, Placed
<1>1. ASSUME NEW x \in Task, th' = [th EXCEPT ![t] = x],
             x.conn # NoConn <=> x.pc \in Holding,
             r.pc \in Permitted <=> x.pc \in Permitted,
             r.pc \in Permitted => x.peer = r.peer,
             x.conn = NoConn \/ (x.conn = r.conn /\ x.peer = r.peer),
             UNCHANGED <<known, queue, granted, permits, expired, m>>,
             signal' \in [Peers -> {"absent", "empty", "stored"}]
      PROVE  Quiet(t)
  <2>1. Moves(t) /\ Placed' /\ th'[t] = x
    BY <1>0, <1>1, Moved
  <2>2. Pools'
    BY <1>0, <1>1 DEF Pools
  <2>3. \A p \in Peers : Flies(th'[t], p) = Flies(th[t], p)
    BY <1>1, <2>1 DEF Flies
  <2> QED
    BY <1>1, <2>1, <2>2, <2>3 DEF Quiet
<1>2. signal \in [Peers -> {"absent", "empty", "stored"}]
  BY <1>0 DEF Pools
<1> USE DEF At, Goto, Leave, pools, Task, PC, Permitted, Holding, NoConn
<1>3. ASSUME NEW p \in Peers, Acquire(t, p) PROVE Quiet(t)
  BY <1>0, <1>1, <1>2, <1>3 DEF Acquire
<1>4. CASE PermitTimeout(t)
  BY <1>0, <1>1, <1>2, <1>4 DEF PermitTimeout
<1>5. CASE TimedOut(t)
  BY <1>0, <1>1, <1>2, <1>5, AwayIsATask DEF TimedOut
<1>6. CASE FinishReuse(t)
  BY <1>0, <1>1, <1>2, <1>6 DEF FinishReuse
<1>7. CASE CountIdle(t)
  <2>1. Len(queue[r.peer]) \in Nat
    BY <1>0 DEF Pools
  <2> QED
    BY <1>0, <1>1, <1>2, <1>7, <2>1 DEF CountIdle
<1>8. CASE FinishCreate(t)
  BY <1>0, <1>1, <1>2, <1>8 DEF FinishCreate
<1>9. CASE Park(t)
  BY <1>0, <1>1, <1>2, <1>9 DEF Park
<1>10. CASE WaitTimeout(t)
  BY <1>0, <1>1, <1>2, <1>10 DEF WaitTimeout
<1>11. CASE Release(t)
  BY <1>0, <1>1, <1>2, <1>11 DEF Release
<1>12. CASE CountOne(t)
  <2>1. r.at \in Peers /\ r.at + 1 \in 1 .. NumPeers + 1
    BY <1>0, <1>12, ConnectionPoolAssumption DEF CountOne, Peers
  <2>2. r.sum + Len(queue[r.at]) \in Nat
    <3>1. queue[r.at] \in Seq(Conns)
      BY <1>0, <2>1 DEF Pools
    <3> QED
      BY <1>0, <3>1
  <2> QED
    BY <1>0, <1>1, <1>2, <1>12, <2>1, <2>2 DEF CountOne
<1>13. CASE DecideKeep(t)
  <2>1. 1 \in 1 .. NumPeers + 1
    BY ConnectionPoolAssumption
  <2> QED
    BY <1>0, <1>1, <1>2, <1>13, <2>1 DEF DecideKeep
<1>14. CASE Destroy(t)
  BY <1>0, <1>1, <1>2, <1>14, AwayIsATask DEF Destroy
<1>15. CASE FinishRelease(t)
  BY <1>0, <1>1, <1>2, <1>15, AwayIsATask DEF FinishRelease
<1> QED
  BY <1>3, <1>4, <1>5, <1>6, <1>7, <1>8, <1>9, <1>10, <1>11, <1>12, <1>13, <1>14, <1>15

\* A step that moves a permit between the semaphore and a task without a
\* connection.
Trade(t) ==
  /\ Moves(t) /\ Placed' /\ Pools' /\ UNCHANGED <<queue, granted, m>>
  /\ th[t].conn = NoConn /\ th'[t].conn = NoConn
  /\ \A p \in Peers : permits'[p] + Flies(th'[t], p) = permits[p] + Flies(th[t], p)

LEMMA TradeKeeps ==
  ASSUME IndInv, NEW t \in Tasks, Trade(t)
  PROVE  IndInv'
<1>1. Shape'
  BY DEF Trade, IndInv, Shape, Sweeping
<1>2. Balanced(t)
  <2> SUFFICES ASSUME NEW p \in Peers
               PROVE  /\ permits'[p] + Flies(th'[t], p) + granted'[p]
                           = permits[p] + Flies(th[t], p) + granted[p]
                      /\ Len(queue'[p]) + Holds(th'[t], p) + granted[p]
                           <= Len(queue[p]) + Holds(th[t], p) + granted'[p]
    BY DEF Balanced
  <2>1. Holds(th'[t], p) = 0 /\ Holds(th[t], p) = 0
    BY DEF Trade, Holds
  <2>2. queue[p] \in Seq(Conns) /\ granted[p] \in Nat
    BY DEF IndInv, Shape, Pools
  <2> QED
    BY <2>1, <2>2 DEF Trade
<1>3. Conserved' /\ Backed'
  BY <1>2, Balance DEF Trade
<1>4. Separate'
  <2>1. \A u \in Tasks : th'[u].conn \in {th[u].conn, NoConn}
    BY DEF Trade, Moves
  <2> QED
    BY <2>1, NothingTaken DEF Trade
<1> QED
  BY <1>1, <1>3, <1>4 DEF IndInv

LEMMA TradeSteps ==
  ASSUME IndInv, NEW t \in Tasks, TakePermit(t) \/ CountGranted(t) \/ Drop(t)
  PROVE  Trade(t)
<1> DEFINE r == th[t]
<1>0. /\ r \in Task /\ (r.conn # NoConn <=> r.pc \in Holding)
      /\ Placed /\ Pools /\ th \in [Tasks -> Task]
      /\ permits \in [Peers -> Nat] /\ signal \in [Peers -> {"absent", "empty", "stored"}]
  BY DEF IndInv, Shape, Placed, Pools
<1>1. ASSUME NEW x \in Task, th' = [th EXCEPT ![t] = x],
             r.conn = NoConn, x.conn = NoConn, x.pc \notin Holding,
             permits' \in [Peers -> Nat],
             signal' \in [Peers -> {"absent", "empty", "stored"}],
             UNCHANGED <<known, queue, granted, expired, m>>,
             \A p \in Peers : permits'[p] + Flies(x, p) = permits[p] + Flies(r, p)
      PROVE  Trade(t)
  <2>1. Moves(t) /\ Placed' /\ th'[t] = x
    BY <1>0, <1>1, Moved
  <2>2. Pools'
    BY <1>0, <1>1 DEF Pools
  <2> QED
    BY <1>1, <2>1, <2>2 DEF Trade
<1> USE DEF At, Goto, Leave, Task, PC, Permitted, Holding, NoConn
<1>2. CASE TakePermit(t)
  <2> DEFINE x == [r EXCEPT !.pc = "look"]
  <2>1. x \in Task /\ x.conn = NoConn /\ r.conn = NoConn /\ x.pc \notin Holding
    BY <1>0, <1>2 DEF TakePermit
  <2>2. /\ th' = [th EXCEPT ![t] = x] /\ permits' \in [Peers -> Nat]
        /\ UNCHANGED <<known, queue, granted, signal, expired, m>>
    BY <1>0, <1>2 DEF TakePermit
  <2>3. \A p \in Peers : permits'[p] + Flies(x, p) = permits[p] + Flies(r, p)
    BY <1>0, <1>2 DEF TakePermit, Flies
  <2> HIDE DEF x, r
  <2> QED
    BY <1>0, <1>1, <2>1, <2>2, <2>3
<1>3. CASE CountGranted(t)
  <2> DEFINE full == r.sum + granted[r.peer] >= MaxSize
             x == [r EXCEPT !.pc = IF full THEN "parked" ELSE "create", !.sum = 0]
  <2>1. x \in Task /\ x.conn = NoConn /\ r.conn = NoConn /\ x.pc \notin Holding
    BY <1>0, <1>3 DEF CountGranted
  <2>2. /\ th' = [th EXCEPT ![t] = x] /\ permits' \in [Peers -> Nat]
        /\ signal' \in [Peers -> {"absent", "empty", "stored"}]
        /\ UNCHANGED <<known, queue, granted, expired, m>>
    <3>1. r.peer \in Peers
      BY <1>0
    <3>2. th' = [th EXCEPT ![t] = x] /\ UNCHANGED <<known, queue, granted, expired, m>>
      BY <1>3 DEF CountGranted
    <3>3. permits' \in [Peers -> Nat]
      BY <1>0, <1>3, <3>1 DEF CountGranted
    <3>4. signal' \in [Peers -> {"absent", "empty", "stored"}]
      <4> HIDE DEF r
      <4>1. \/ signal' = signal
            \/ signal' = [signal EXCEPT ![r.peer] =
                            IF signal[r.peer] = "absent" THEN "empty" ELSE signal[r.peer]]
        BY <1>3 DEF CountGranted, r
      <4> QED
        BY <1>0, <3>1, <4>1
    <3> QED
      BY <3>2, <3>3, <3>4
  <2>3. \A p \in Peers : permits'[p] + Flies(x, p) = permits[p] + Flies(r, p)
    <3>1. CASE full
      BY <1>0, <1>3, <3>1 DEF CountGranted, Flies
    <3>2. CASE ~full
      BY <1>0, <1>3, <3>2 DEF CountGranted, Flies
    <3> QED
      BY <3>1, <3>2
  <2> HIDE DEF x, r
  <2> QED
    BY <1>0, <1>1, <2>1, <2>2, <2>3
<1>4. CASE Drop(t)
  <2>1. Away.conn = NoConn /\ r.conn = NoConn /\ Away.pc \notin Holding
    BY <1>0, <1>4, AwayIsATask DEF Drop
  <2>2. /\ th' = [th EXCEPT ![t] = Away] /\ permits' \in [Peers -> Nat]
        /\ UNCHANGED <<known, queue, granted, signal, expired, m>>
    BY <1>0, <1>4 DEF Drop
  <2>3. \A p \in Peers : permits'[p] + Flies(Away, p) = permits[p] + Flies(r, p)
    BY <1>0, <1>4, AwayIsATask DEF Drop, Flies
  <2> HIDE DEF r
  <2> QED
    BY <1>0, <1>1, <2>1, <2>2, <2>3, AwayIsATask
<1> QED
  BY <1>2, <1>3, <1>4

-----------------------------------------------------------------------------
(* Connections that change their place *)

\* One queue is replaced, and what hands hold is neither in it nor in another.
LEMMA QueueReplaced ==
  ASSUME IndInv, NEW p \in Peers, NEW s \in Seq(Conns), queue' = [queue EXCEPT ![p] = s],
         \A t, u \in Tasks : th'[t].conn = th'[u].conn => t = u \/ th'[t].conn = NoConn,
         \A i \in DOMAIN s : \A t \in Tasks : th'[t].conn # s[i],
         \A q \in Peers \ {p} : \A i \in DOMAIN queue[q] : \A t \in Tasks :
           th'[t].conn # queue[q][i],
         \A i, j \in DOMAIN s : s[i] = s[j] => i = j,
         \A i \in DOMAIN s : \A q \in Peers \ {p} : \A j \in DOMAIN queue[q] :
           s[i] # queue[q][j]
  PROVE  Separate'
<1>0. queue'[p] = s /\ \A q \in Peers \ {p} : queue'[q] = queue[q]
  BY DEF IndInv, Shape, Pools
<1>1. \A q \in Peers : \A i \in DOMAIN queue'[q] : \A t \in Tasks : th'[t].conn # queue'[q][i]
  BY <1>0
<1>2. ASSUME NEW q \in Peers, NEW r \in Peers,
             NEW i \in DOMAIN queue'[q], NEW j \in DOMAIN queue'[r],
             queue'[q][i] = queue'[r][j]
      PROVE  q = r /\ i = j
  <2>1. CASE q = p /\ r = p
    BY <1>0, <1>2, <2>1
  <2>2. CASE q = p /\ r # p
    BY <1>0, <1>2, <2>2
  <2>3. CASE q # p /\ r = p
    BY <1>0, <1>2, <2>3
  <2>4. CASE q # p /\ r # p
    BY <1>0, <1>2, <2>4 DEF IndInv, Separate
  <2> QED
    BY <2>1, <2>2, <2>3, <2>4
<1> QED
  BY <1>1, <1>2 DEF Separate

\* Some positions of a queue, each at most once.
LEMMA QueueThinned ==
  ASSUME IndInv, NEW p \in Peers, NEW s \in Seq(Conns), NEW f \in [DOMAIN s -> DOMAIN queue[p]],
         \A i, j \in DOMAIN s : f[i] = f[j] => i = j,
         \A i \in DOMAIN s : s[i] = queue[p][f[i]]
  PROVE  /\ \A i \in DOMAIN s : \A t \in Tasks : th[t].conn # s[i]
         /\ \A i, j \in DOMAIN s : s[i] = s[j] => i = j
         /\ \A i \in DOMAIN s : \A q \in Peers \ {p} : \A j \in DOMAIN queue[q] :
              s[i] # queue[q][j]
  BY DEF IndInv, Separate

LEMMA SearchFails ==
  ASSUME IndInv, NEW t \in Tasks, At(t, "look"), NEW p \in Peers,
         queue' = [queue EXCEPT ![p] = <<>>], Goto(t, "count"),
         UNCHANGED <<known, granted, permits, signal, expired, m>>
  PROVE  IndInv'
<1> DEFINE r == th[t]
           x == [r EXCEPT !.pc = "count"]
<1>0. /\ r \in Task /\ (r.conn # NoConn <=> r.pc \in Holding)
      /\ Placed /\ Pools /\ th \in [Tasks -> Task]
  BY DEF IndInv, Shape, Placed
<1>1. /\ x \in Task /\ x.conn = NoConn /\ r.conn = NoConn
      /\ x.pc = "count" /\ r.pc = "look" /\ x.peer = r.peer /\ th' = [th EXCEPT ![t] = x]
  BY <1>0 DEF At, Goto, Task, PC, Holding
<1> HIDE DEF r, x
<1>2. Moves(t) /\ Placed' /\ th'[t] = x
  BY <1>0, <1>1, Moved DEF Holding
<1>3. Pools'
  BY <1>0 DEF Pools
<1>4. Shape'
  BY <1>2, <1>3 DEF IndInv, Shape, Sweeping
<1>5. Balanced(t)
  <2> SUFFICES ASSUME NEW q \in Peers
               PROVE  /\ permits'[q] + Flies(th'[t], q) + granted'[q]
                           = permits[q] + Flies(th[t], q) + granted[q]
                      /\ Len(queue'[q]) + Holds(th'[t], q) + granted[q]
                           <= Len(queue[q]) + Holds(th[t], q) + granted'[q]
    BY DEF Balanced
  <2>1. Flies(th'[t], q) = Flies(th[t], q) /\ Holds(th'[t], q) = 0 /\ Holds(th[t], q) = 0
    BY <1>1, <1>2 DEF Flies, Holds, Permitted, r
  <2>2. queue[q] \in Seq(Conns) /\ queue'[q] \in Seq(Conns) /\ Len(queue'[q]) <= Len(queue[q])
    BY <1>0, <1>3 DEF Pools
  <2>3. granted[q] \in Nat
    BY <1>0 DEF Pools
  <2> QED
    BY <2>1, <2>2, <2>3
<1>6. Separate'
  <2>1. \A u \in Tasks : th'[u].conn = th[u].conn
    BY <1>1, <1>2 DEF Moves, r
  <2> QED
    BY <2>1, QueueReplaced DEF IndInv, Separate
<1> QED
  BY <1>2, <1>3, <1>4, <1>5, <1>6, Balance DEF IndInv

\* What is behind the place k of a sequence.
LEMMA TailFrom ==
  ASSUME NEW S, NEW q \in Seq(S), NEW k \in 1 .. Len(q)
  PROVE  LET s == SubSeq(q, k + 1, Len(q))
         IN  /\ s \in Seq(S) /\ Len(s) = Len(q) - k
             /\ \A i \in 1 .. Len(s) : s[i] = q[k + i]
<1> DEFINE n == Len(q)
           s == SubSeq(q, k + 1, n)
<1>1. n \in Nat /\ k \in Int /\ k + 1 \in Int /\ 1 <= k /\ k <= n
  OBVIOUS
<1>2. \A i \in k + 1 .. n : q[i] \in S
  <2>1. \A i \in 1 .. n : q[i] \in S
    OBVIOUS
  <2> QED
    BY <1>1, <2>1
<1> HIDE DEF n
<1>3. /\ s \in Seq(S) /\ Len(s) = (IF k + 1 <= n THEN n - (k + 1) + 1 ELSE 0)
      /\ \A i \in 1 .. n - (k + 1) + 1 : s[i] = q[(k + 1) + i - 1]
  <2>1. n \in Int /\ k + 1 \in Int
    BY <1>1
  <2> QED
    BY <1>2, <2>1, SubSeqProperties
<1> HIDE DEF s
<1>4. Len(s) = n - k /\ n - (k + 1) + 1 = n - k
  BY <1>1, <1>3
<1>5. ASSUME NEW i \in 1 .. Len(s) PROVE s[i] = q[k + i]
  <2>1. (k + 1) + i - 1 = k + i /\ i \in 1 .. n - (k + 1) + 1
    BY <1>1, <1>4
  <2> QED
    BY <1>3, <2>1
<1> QED
  BY <1>3, <1>4, <1>5 DEF n, s

LEMMA SearchFinds ==
  ASSUME IndInv, NEW t \in Tasks, At(t, "look"), NEW p \in Peers, p = th[t].peer,
         NEW first \in DOMAIN queue[p],
         queue' = [queue EXCEPT ![p] = SubSeq(queue[p], first + 1, Len(queue[p]))],
         granted' = [granted EXCEPT ![p] = @ + 1],
         th' = [th EXCEPT ![t].pc = "reused", ![t].conn = queue[p][first]],
         UNCHANGED <<known, permits, signal, expired, m>>
  PROVE  IndInv'
<1> DEFINE r == th[t]
           c == queue[p][first]
           s == SubSeq(queue[p], first + 1, Len(queue[p]))
           x == [r EXCEPT !.pc = "reused", !.conn = c]
<1>0. /\ r \in Task /\ (r.conn # NoConn <=> r.pc \in Holding)
      /\ Placed /\ Pools /\ th \in [Tasks -> Task]
      /\ queue[p] \in Seq(Conns) /\ first \in 1 .. Len(queue[p])
      /\ granted \in [Peers -> Nat]
  BY DEF IndInv, Shape, Placed, Pools
<1>1. c \in Conns /\ c # NoConn
  BY <1>0, ConnectionPoolAssumption DEF NoConn
<1>2. /\ x \in Task /\ x.conn = c /\ r.conn = NoConn
      /\ x.pc = "reused" /\ r.pc = "look" /\ x.peer = p /\ r.peer = p
      /\ th' = [th EXCEPT ![t] = x]
  BY <1>0, <1>1 DEF At, Task, PC, Holding
<1>3. s \in Seq(Conns) /\ Len(s) = Len(queue[p]) - first
      /\ \A i \in 1 .. Len(s) : s[i] = queue[p][first + i]
  BY <1>0, TailFrom
<1> HIDE DEF r, x, c, s
<1>4. Moves(t) /\ Placed' /\ th'[t] = x
  BY <1>0, <1>1, <1>2, Moved DEF Holding
<1>5. queue' = [queue EXCEPT ![p] = s]
  BY DEF s
<1>6. Pools' /\ Shape'
  <2>1. queue' \in [Peers -> Seq(Conns)] /\ granted' \in [Peers -> Nat]
    <3>1. queue' \in [Peers -> Seq(Conns)]
      BY <1>0, <1>3, <1>5 DEF Pools
    <3>2. granted[p] + 1 \in Nat
      BY <1>0
    <3> QED
      BY <1>0, <3>1, <3>2
  <2>2. Pools'
    BY <1>0, <2>1 DEF Pools
  <2> QED
    BY <1>4, <2>2 DEF IndInv, Shape, Sweeping
<1>7. Balanced(t)
  <2> SUFFICES ASSUME NEW q \in Peers
               PROVE  /\ permits'[q] + Flies(th'[t], q) + granted'[q]
                           = permits[q] + Flies(th[t], q) + granted[q]
                      /\ Len(queue'[q]) + Holds(th'[t], q) + granted[q]
                           <= Len(queue[q]) + Holds(th[t], q) + granted'[q]
    BY DEF Balanced
  <2>1. queue[q] \in Seq(Conns) /\ granted[q] \in Nat /\ permits[q] \in Nat
    BY <1>0 DEF Pools
  <2>2. CASE q = p
    <3>1. /\ Flies(th'[t], q) = 0 /\ Flies(th[t], q) = 1
          /\ Holds(th'[t], q) = 1 /\ Holds(th[t], q) = 0
      BY <1>1, <1>2, <1>4, <2>2 DEF Flies, Holds, Permitted, r
    <3>2. granted'[q] = granted[q] + 1 /\ queue'[q] = s
      BY <1>0, <1>5, <2>2 DEF Pools
    <3>3. Len(s) \in Nat /\ Len(s) + 1 <= Len(queue[q])
      BY <1>0, <1>3, <2>2
    <3>4. permits[q] + 0 + (granted[q] + 1) = permits[q] + 1 + granted[q]
      BY <2>1
    <3>5. Len(s) + 1 + granted[q] <= Len(queue[q]) + 0 + (granted[q] + 1)
      BY <2>1, <3>3
    <3>6. permits'[q] = permits[q]
      OBVIOUS
    <3> QED
      BY <3>1, <3>2, <3>4, <3>5, <3>6, Zenon
  <2>3. CASE q # p
    <3>1. /\ Flies(th'[t], q) = 0 /\ Flies(th[t], q) = 0
          /\ Holds(th'[t], q) = 0 /\ Holds(th[t], q) = 0
      BY <1>2, <1>4, <2>3 DEF Flies, Holds, r
    <3>2. granted'[q] = granted[q] /\ queue'[q] = queue[q] /\ permits'[q] = permits[q]
      BY <1>0, <1>5, <2>3 DEF Pools
    <3>3. Len(queue[q]) + 0 + granted[q] <= Len(queue[q]) + 0 + granted[q]
      BY <2>1
    <3> QED
      BY <3>1, <3>2, <3>3, Zenon
  <2> QED
    BY <2>2, <2>3
<1>8. Separate'
  <2>1. /\ th'[t].conn = c /\ \A u \in Tasks : u # t => th'[u].conn = th[u].conn
        /\ th \in [Tasks -> Task] /\ th' \in [Tasks -> Task]
    BY <1>0, <1>2, <1>4 DEF Moves
  <2>2. /\ \A u \in Tasks : th[u].conn # c
        /\ \A i \in DOMAIN queue[p] : queue[p][i] = c => i = first
        /\ \A q \in Peers \ {p} : \A i \in DOMAIN queue[q] : queue[q][i] # c
    BY DEF IndInv, Separate, c
  <2> DEFINE f == [i \in DOMAIN s |-> first + i]
  <2>3. DOMAIN s = 1 .. Len(s) /\ DOMAIN queue[p] = 1 .. Len(queue[p])
    BY <1>0, <1>3
  <2>4. /\ f \in [DOMAIN s -> DOMAIN queue[p]]
        /\ \A i, j \in DOMAIN s : f[i] = f[j] => i = j
        /\ \A i \in DOMAIN s : s[i] = queue[p][f[i]] /\ f[i] # first
    <3>1. /\ first \in Nat \ {0} /\ Len(queue[p]) \in Nat
          /\ Len(s) = Len(queue[p]) - first
      BY <1>0, <1>3
    <3>2. ASSUME NEW i \in DOMAIN s
          PROVE  first + i \in DOMAIN queue[p] /\ first + i # first /\ i \in Int
      BY <2>3, <3>1
    <3>3. ASSUME NEW i \in DOMAIN s, NEW j \in DOMAIN s, first + i = first + j
          PROVE  i = j
      <4>1. i \in Int /\ j \in Int
        BY <3>2
      <4> QED
        BY <3>1, <3>3, <4>1
    <3>4. \A i \in DOMAIN s : f[i] = first + i
      OBVIOUS
    <3>5. f \in [DOMAIN s -> DOMAIN queue[p]]
      BY <3>2
    <3> HIDE DEF f
    <3>6. \A i \in DOMAIN s : s[i] = queue[p][first + i]
      BY <1>3, <2>3
    <3> QED
      BY <3>2, <3>3, <3>4, <3>5, <3>6
  <2> HIDE DEF f
  <2>5. /\ \A i \in DOMAIN s : \A u \in Tasks : th[u].conn # s[i]
        /\ \A i, j \in DOMAIN s : s[i] = s[j] => i = j
        /\ \A i \in DOMAIN s : \A q \in Peers \ {p} : \A j \in DOMAIN queue[q] :
             s[i] # queue[q][j]
    <3>1. /\ \A i \in DOMAIN s : s[i] = queue[p][f[i]]
          /\ \A i, j \in DOMAIN s : f[i] = f[j] => i = j
      BY <2>4
    <3>2. f \in [DOMAIN s -> DOMAIN queue[p]] /\ s \in Seq(Conns)
      BY <1>3, <2>4
    <3> QED
      BY <3>1, <3>2, QueueThinned, Zenon
  <2>6. \A i \in DOMAIN s : s[i] # c
    BY <2>2, <2>4
  <2>0. /\ \A u, v \in Tasks : th[u].conn = th[v].conn => u = v \/ th[u].conn = NoConn
        /\ \A q \in Peers : \A i \in DOMAIN queue[q] : \A u \in Tasks : th[u].conn # queue[q][i]
    BY DEF IndInv, Separate
  <2>7. \A u, v \in Tasks : th'[u].conn = th'[v].conn => u = v \/ th'[u].conn = NoConn
    <3> SUFFICES ASSUME NEW u \in Tasks, NEW v \in Tasks, u # v, th'[u].conn = th'[v].conn
                 PROVE  th'[u].conn = NoConn
      OBVIOUS
    <3>1. CASE u # t /\ v # t
      BY <2>0, <2>1, <3>1
    <3>2. CASE u = t \/ v = t
      BY <2>1, <2>2, <3>2
    <3> QED
      BY <3>1, <3>2
  <2>8. \A i \in DOMAIN s : \A u \in Tasks : th'[u].conn # s[i]
    BY <2>1, <2>5, <2>6
  <2>9. \A q \in Peers \ {p} : \A i \in DOMAIN queue[q] : \A u \in Tasks :
          th'[u].conn # queue[q][i]
    <3> SUFFICES ASSUME NEW q \in Peers \ {p}, NEW i \in DOMAIN queue[q], NEW u \in Tasks
                 PROVE  th'[u].conn # queue[q][i]
      OBVIOUS
    <3>1. CASE u = t
      BY <2>1, <2>2, <3>1
    <3>2. CASE u # t
      BY <2>0, <2>1, <3>2
    <3> QED
      BY <3>1, <3>2
  <2> QED
    BY <1>3, <1>5, <2>5, <2>7, <2>8, <2>9, QueueReplaced
<1> QED
  BY <1>4, <1>6, <1>7, <1>8, Balance DEF IndInv

LEMMA LookKeeps ==
  ASSUME IndInv, NEW t \in Tasks, Look(t)
  PROVE  IndInv'
<1> DEFINE p == th[t].peer
<1>1. p \in Peers
  BY DEF IndInv, Shape, Placed, Task
<1>2. \/ queue' = [queue EXCEPT ![p] = <<>>] /\ Goto(t, "count") /\ UNCHANGED granted
      \/ \E first \in DOMAIN queue[p] :
           /\ queue' = [queue EXCEPT ![p] = SubSeq(queue[p], first + 1, Len(queue[p]))]
           /\ granted' = [granted EXCEPT ![p] = @ + 1]
           /\ th' = [th EXCEPT ![t].pc = "reused", ![t].conn = queue[p][first]]
  BY DEF Look, Searching, Kept
<1>3. At(t, "look") /\ UNCHANGED <<known, permits, signal, expired, m>>
  BY DEF Look, Searching
<1> QED
  BY <1>1, <1>2, <1>3, SearchFails, SearchFinds

LEMMA CreateKeeps ==
  ASSUME IndInv, NEW t \in Tasks, Create(t)
  PROVE  IndInv'
<1> DEFINE r == th[t]
           p == r.peer
           c == CHOOSE x \in Unused : TRUE
           y == [r EXCEPT !.pc = "created", !.conn = c]
<1>0. /\ r \in Task /\ (r.conn # NoConn <=> r.pc \in Holding)
      /\ Placed /\ Pools /\ th \in [Tasks -> Task]
      /\ granted \in [Peers -> Nat]
  BY DEF IndInv, Shape, Placed, Pools
<1>1. c \in Unused
  BY DEF Create
<1>2. c \in Conns /\ c # NoConn
  BY <1>1, ConnectionPoolAssumption DEF Unused, NoConn
<1>3. /\ y \in Task /\ y.conn = c /\ r.conn = NoConn /\ p \in Peers
      /\ y.pc = "created" /\ r.pc = "create" /\ y.peer = p /\ r.peer = p
  BY <1>0, <1>2 DEF Create, At, Task, PC, Holding
<1>4. /\ th' = [th EXCEPT ![t] = y] /\ granted' = [granted EXCEPT ![p] = @ + 1]
      /\ expired' = expired \ {c} /\ UNCHANGED <<known, queue, permits, signal, m>>
  BY DEF Create
<1> HIDE DEF r, p, c, y
<1>5. Moves(t) /\ Placed' /\ th'[t] = y
  BY <1>0, <1>2, <1>3, <1>4, Moved DEF Holding
<1>6. Pools' /\ Shape'
  <2>1. granted' \in [Peers -> Nat]
    <3>1. granted[p] + 1 \in Nat
      BY <1>0, <1>3
    <3> QED
      BY <1>0, <1>4, <3>1
  <2>2. Pools'
    BY <1>0, <1>4, <2>1 DEF Pools
  <2> QED
    BY <1>4, <1>5, <2>2 DEF IndInv, Shape, Sweeping
<1>7. Balanced(t)
  <2> SUFFICES ASSUME NEW q \in Peers
               PROVE  /\ permits'[q] + Flies(th'[t], q) + granted'[q]
                           = permits[q] + Flies(th[t], q) + granted[q]
                      /\ Len(queue'[q]) + Holds(th'[t], q) + granted[q]
                           <= Len(queue[q]) + Holds(th[t], q) + granted'[q]
    BY DEF Balanced
  <2>1. /\ queue[q] \in Seq(Conns) /\ granted[q] \in Nat /\ permits[q] \in Nat
        /\ queue' = queue /\ permits' = permits
    BY <1>0, <1>4 DEF Pools
  <2>2. CASE q = p
    <3>1. /\ Flies(th'[t], q) = 0 /\ Flies(th[t], q) = 1
          /\ Holds(th'[t], q) = 1 /\ Holds(th[t], q) = 0
      BY <1>2, <1>3, <1>5, <2>2 DEF Flies, Holds, Permitted, r
    <3>2. granted'[q] = granted[q] + 1
      BY <1>0, <1>4, <2>2
    <3>3. permits'[q] = permits[q] /\ queue'[q] = queue[q]
      BY <2>1
    <3>4. permits[q] + 0 + (granted[q] + 1) = permits[q] + 1 + granted[q]
      BY <2>1
    <3>5. Len(queue[q]) + 1 + granted[q] <= Len(queue[q]) + 0 + (granted[q] + 1)
      BY <2>1
    <3> QED
      BY <3>1, <3>2, <3>3, <3>4, <3>5, Zenon
  <2>3. CASE q # p
    <3>1. /\ Flies(th'[t], q) = 0 /\ Flies(th[t], q) = 0
          /\ Holds(th'[t], q) = 0 /\ Holds(th[t], q) = 0
      BY <1>3, <1>5, <2>3 DEF Flies, Holds, r
    <3>2. granted'[q] = granted[q]
      BY <1>0, <1>4, <2>3
    <3> QED
      BY <2>1, <3>1, <3>2
  <2> QED
    BY <2>2, <2>3
<1>8. Separate'
  <2>1. /\ th'[t].conn = c /\ \A u \in Tasks : u # t => th'[u].conn = th[u].conn
        /\ th \in [Tasks -> Task] /\ th' \in [Tasks -> Task]
    BY <1>0, <1>3, <1>5 DEF Moves
  <2>2. \A u \in Tasks : th[u].conn # c
    BY <1>1, <1>2 DEF Unused, Held
  <2>3. \A q \in Peers : \A i \in DOMAIN queue[q] : queue[q][i] # c
    BY <1>1 DEF Unused, Queued, ToSet
  <2>4. \A u, v \in Tasks : th'[u].conn = th'[v].conn => u = v \/ th'[u].conn = NoConn
    BY <2>1, <2>2 DEF IndInv, Separate
  <2>5. \A q \in Peers : \A i \in DOMAIN queue[q] : \A u \in Tasks : th'[u].conn # queue[q][i]
    BY <2>1, <2>3 DEF IndInv, Separate
  <2> QED
    BY <1>4, <2>4, <2>5 DEF IndInv, Separate
<1> QED
  BY <1>5, <1>6, <1>7, <1>8, Balance DEF IndInv

LEMMA PushKeeps ==
  ASSUME IndInv, NEW t \in Tasks, Push(t)
  PROVE  IndInv'
<1> DEFINE r == th[t]
           p == r.peer
           c == r.conn
           s == Append(queue[p], c)
           x == [r EXCEPT !.pc = "notify", !.conn = NoConn]
<1>0. /\ r \in Task /\ (r.conn # NoConn <=> r.pc \in Holding)
      /\ Placed /\ Pools /\ th \in [Tasks -> Task]
      /\ queue \in [Peers -> Seq(Conns)]
  BY DEF IndInv, Shape, Placed, Pools
<1>1. /\ x \in Task /\ x.conn = NoConn /\ c \in Conns /\ c # NoConn /\ p \in Peers
      /\ x.pc = "notify" /\ r.pc = "push" /\ x.peer = p
  BY <1>0 DEF Push, At, Task, PC, Holding
<1>2. /\ th' = [th EXCEPT ![t] = x] /\ queue' = [queue EXCEPT ![p] = s]
      /\ known' = known \cup {p} /\ UNCHANGED <<granted, permits, signal, expired, m>>
  BY DEF Push
<1>3. /\ s \in Seq(Conns) /\ Len(s) = Len(queue[p]) + 1 /\ s[Len(s)] = c
      /\ \A i \in DOMAIN s : i # Len(s) => i \in DOMAIN queue[p] /\ s[i] = queue[p][i]
  BY <1>0, <1>1
<1>4. r = th[t] /\ r.peer = p /\ r.conn = c
  OBVIOUS
<1> HIDE DEF r, p, c, s, x
<1>5. Moves(t) /\ Placed' /\ th'[t] = x
  BY <1>0, <1>1, <1>2, Moved DEF Holding
<1>6. Pools' /\ Shape'
  <2>1. queue' \in [Peers -> Seq(Conns)] /\ known' \subseteq Peers
    BY <1>0, <1>1, <1>2, <1>3 DEF Pools
  <2>2. Pools'
    BY <1>0, <1>2, <2>1 DEF Pools
  <2> QED
    BY <1>2, <1>5, <2>2 DEF IndInv, Shape, Sweeping
<1>7. Balanced(t)
  <2> SUFFICES ASSUME NEW q \in Peers
               PROVE  /\ permits'[q] + Flies(th'[t], q) + granted'[q]
                           = permits[q] + Flies(th[t], q) + granted[q]
                      /\ Len(queue'[q]) + Holds(th'[t], q) + granted[q]
                           <= Len(queue[q]) + Holds(th[t], q) + granted'[q]
    BY DEF Balanced
  <2>1. /\ queue[q] \in Seq(Conns) /\ granted[q] \in Nat /\ permits[q] \in Nat
        /\ granted' = granted /\ permits' = permits
    BY <1>0, <1>2 DEF Pools
  <2>2. Flies(th'[t], q) = 0 /\ Flies(th[t], q) = 0 /\ Holds(th'[t], q) = 0
    BY <1>1, <1>4, <1>5 DEF Flies, Holds, Permitted
  <2>3. CASE q = p
    <3>1. Holds(th[t], q) = 1 /\ Len(queue'[q]) = Len(queue[q]) + 1
      BY <1>0, <1>1, <1>2, <1>3, <1>4, <2>3 DEF Holds
    <3> QED
      BY <2>1, <2>2, <3>1
  <2>4. CASE q # p
    <3>1. Holds(th[t], q) = 0 /\ queue'[q] = queue[q]
      BY <1>0, <1>2, <1>4, <2>4 DEF Holds
    <3> QED
      BY <2>1, <2>2, <3>1
  <2> QED
    BY <2>3, <2>4
<1>8. Separate'
  <2>1. /\ th'[t].conn = NoConn /\ \A u \in Tasks : u # t => th'[u].conn = th[u].conn
        /\ th \in [Tasks -> Task] /\ th' \in [Tasks -> Task] /\ th[t].conn = c
    BY <1>0, <1>1, <1>4, <1>5 DEF Moves
  <2>2. /\ \A u, v \in Tasks : th[u].conn = th[v].conn => u = v \/ th[u].conn = NoConn
        /\ \A q \in Peers : \A i \in DOMAIN queue[q] : \A u \in Tasks : th[u].conn # queue[q][i]
        /\ \A q, w \in Peers : \A i \in DOMAIN queue[q], j \in DOMAIN queue[w] :
             queue[q][i] = queue[w][j] => q = w /\ i = j
    BY DEF IndInv, Separate
  <2>3. \A u \in Tasks : th'[u].conn # c
    BY <1>1, <2>1, <2>2
  <2>4. \A q \in Peers : \A i \in DOMAIN queue[q] : queue[q][i] \in Conns /\ queue[q][i] # NoConn
    BY <1>0, ConnectionPoolAssumption DEF NoConn
  <2>5. \A q \in Peers : \A i \in DOMAIN queue[q] : \A u \in Tasks : th'[u].conn # queue[q][i]
    BY <2>1, <2>2, <2>4
  <2>6. \A u, v \in Tasks : th'[u].conn = th'[v].conn => u = v \/ th'[u].conn = NoConn
    BY <2>1, <2>2
  <2>7. \A i \in DOMAIN s : \A u \in Tasks : th'[u].conn # s[i]
    BY <1>1, <1>3, <2>3, <2>5
  <2>8. \A i, j \in DOMAIN s : s[i] = s[j] => i = j
    BY <1>1, <1>3, <2>1, <2>2
  <2>9. \A i \in DOMAIN s : \A q \in Peers \ {p} : \A j \in DOMAIN queue[q] : s[i] # queue[q][j]
    BY <1>1, <1>3, <2>1, <2>2
  <2>10. \A q \in Peers \ {p} : \A i \in DOMAIN queue[q] : \A u \in Tasks : th'[u].conn # queue[q][i]
    BY <2>5
  <2>11. queue' = [queue EXCEPT ![p] = s] /\ p \in Peers /\ s \in Seq(Conns)
    BY <1>1, <1>2, <1>3
  <2> QED
    BY <2>6, <2>7, <2>8, <2>9, <2>10, <2>11, QueueReplaced
<1> QED
  BY <1>5, <1>6, <1>7, <1>8, Balance DEF IndInv

-----------------------------------------------------------------------------
(* Steps without a permit or a connection *)

\* Every task stays where it counts.
Stays ==
  /\ th' \in [Tasks -> Task]
  /\ \A t \in Tasks : /\ th'[t].conn = th[t].conn /\ th'[t].peer = th[t].peer
                      /\ th'[t].pc \in Permitted <=> th[t].pc \in Permitted

LEMMA StayCounts ==
  ASSUME Stays, NEW p
  PROVE  /\ Cardinality(InFlight(p))' = Cardinality(InFlight(p))
         /\ Cardinality(InHand(p))' = Cardinality(InHand(p))
<1>1. InFlight(p)' = InFlight(p)
  BY DEF InFlight, Stays
<1>2. InHand(p)' = InHand(p)
  BY DEF InHand, Stays
<1> QED
  BY <1>1, <1>2

LEMMA StayKeeps ==
  ASSUME IndInv, Stays, Shape', UNCHANGED <<queue, granted, permits>>
  PROVE  IndInv'
<1>1. Conserved' /\ Backed'
  BY StayCounts DEF IndInv, Conserved, Backed
<1>2. Separate'
  BY NothingTaken DEF Stays
<1> QED
  BY <1>1, <1>2 DEF IndInv

LEMMA NotifyKeeps ==
  ASSUME IndInv, NEW t \in Tasks, Notify(t)
  PROVE  IndInv'
<1>0. /\ Placed /\ Pools /\ th \in [Tasks -> Task]
      /\ signal \in [Peers -> {"absent", "empty", "stored"}]
  BY DEF IndInv, Shape, Placed, Pools
<1>1. Stays /\ Placed'
  <2>1. ASSUME NEW u \in Tasks, At(u, "waiting"), At(t, "notify"),
               th' = [th EXCEPT ![t].pc = "released", ![u].pc = "permit"]
        PROVE  Stays /\ Placed'
    <3>1. u # t /\ th[t].pc = "notify" /\ th[u].pc = "waiting"
          /\ th[t] \in Task /\ th[u] \in Task
      BY <1>0, <2>1 DEF At
    <3>2. /\ th'[t] = [th[t] EXCEPT !.pc = "released"]
          /\ th'[u] = [th[u] EXCEPT !.pc = "permit"]
          /\ \A v \in Tasks \ {t, u} : th'[v] = th[v]
          /\ DOMAIN th' = Tasks /\ th' = [v \in Tasks |-> th'[v]]
      BY <1>0, <2>1, <3>1
    <3>3. /\ th'[t] \in Task /\ th'[t].peer = th[t].peer /\ th'[t].conn = th[t].conn
          /\ th'[t].pc = "released"
      BY <3>1, <3>2 DEF Task, PC
    <3>4. /\ th'[u] \in Task /\ th'[u].peer = th[u].peer /\ th'[u].conn = th[u].conn
          /\ th'[u].pc = "permit"
      BY <3>1, <3>2 DEF Task, PC
    <3> HIDE <2>1
    <3>5. th' \in [Tasks -> Task]
      BY <1>0, <3>2, <3>3, <3>4
    <3>6. Placed'
      <4> SUFFICES ASSUME NEW v \in Tasks PROVE th'[v].conn # NoConn <=> th'[v].pc \in Holding
        BY <3>5 DEF Placed
      <4>1. th[v].conn # NoConn <=> th[v].pc \in Holding
        BY <1>0 DEF Placed
      <4>2. CASE v = t
        BY <3>1, <3>3, <4>1, <4>2 DEF Holding
      <4>3. CASE v = u
        BY <3>1, <3>4, <4>1, <4>3 DEF Holding
      <4>4. CASE v \notin {t, u}
        BY <3>2, <4>1, <4>4
      <4> QED
        BY <4>2, <4>3, <4>4
    <3> QED
      BY <1>0, <3>1, <3>2, <3>3, <3>4, <3>5, <3>6 DEF Stays, Permitted
  <2>2. ASSUME At(t, "notify"), Goto(t, "released")
        PROVE  Stays /\ Placed'
    BY <1>0, <2>2 DEF At, Goto, Stays, Placed, Task, PC, Holding, Permitted
  <2> QED
    BY <2>1, <2>2 DEF Notify
<1>2. signal' \in [Peers -> {"absent", "empty", "stored"}]
  BY <1>0 DEF Notify
<1>3. Shape' /\ UNCHANGED <<queue, granted, permits>>
  BY <1>0, <1>1, <1>2 DEF Notify, Pools, IndInv, Shape, Sweeping
<1> QED
  BY <1>1, <1>3, StayKeeps

LEMMA ExpireKeeps ==
  ASSUME IndInv, NEW c \in Conns, Expire(c)
  PROVE  IndInv'
<1>1. Stays /\ Shape' /\ UNCHANGED <<queue, granted, permits>>
  BY DEF Expire, pools, Stays, IndInv, Shape, Pools, Placed, Sweeping
<1> QED
  BY <1>1, StayKeeps

LEMMA CleanOneKeeps ==
  ASSUME IndInv, CleanOne
  PROVE  IndInv'
<1> DEFINE p == m.at
           kept == Kept(queue[p])
<1>0. /\ Pools /\ Placed /\ m \in Work /\ p \in Peers /\ queue[p] \in Seq(Conns)
      /\ queue \in [Peers -> Seq(Conns)]
  BY DEF IndInv, Shape, Pools, Sweeping, CleanOne
<1>1. PICK f \in [1 .. Cardinality(kept) -> kept] :
        /\ \A i, j \in DOMAIN f : i < j => f[i] < f[j]
        /\ queue' = [queue EXCEPT ![p] = [i \in DOMAIN f |-> queue[p][f[i]]]]
  BY DEF CleanOne
<1> DEFINE s == [i \in DOMAIN f |-> queue[p][f[i]]]
<1>2. kept \subseteq 1 .. Len(queue[p]) /\ DOMAIN queue[p] = 1 .. Len(queue[p])
      /\ Len(queue[p]) \in Nat
  BY <1>0 DEF Kept
<1>3. Cardinality(kept) \in Nat /\ Cardinality(kept) <= Len(queue[p])
  <2>1. IsFiniteSet(1 .. Len(queue[p])) /\ Cardinality(1 .. Len(queue[p])) = Len(queue[p])
    BY <1>2, FS_Interval
  <2> QED
    BY <1>2, <2>1, FS_Subset, FS_CardinalityType
<1>4. /\ s \in Seq(Conns) /\ Len(s) = Cardinality(kept) /\ DOMAIN s = 1 .. Cardinality(kept)
      /\ \A i \in DOMAIN s : s[i] = queue[p][f[i]]
  BY <1>0, <1>1, <1>2, <1>3
<1>5. /\ f \in [DOMAIN s -> DOMAIN queue[p]]
      /\ \A i, j \in DOMAIN s : f[i] = f[j] => i = j
  BY <1>1, <1>2, <1>3, <1>4
<1>6. /\ queue' = [queue EXCEPT ![p] = s] /\ th' = th
      /\ UNCHANGED <<known, granted, permits, signal, expired>>
  BY <1>1 DEF CleanOne
<1> HIDE DEF s, kept, p
<1>7. queue' \in [Peers -> Seq(Conns)]
  BY <1>0, <1>4, <1>6
<1>8. m' \in Work /\ (m'.pc \in {"clean", "measure"} => m'.at \in Peers)
  BY <1>0, ConnectionPoolAssumption DEF CleanOne, Work, Peers, p
<1>9. Stays /\ Shape'
  BY <1>0, <1>6, <1>7, <1>8 DEF Stays, Shape, Pools, Placed, Sweeping
<1>10. Conserved'
  BY <1>6, <1>9, StayCounts DEF IndInv, Conserved
<1>11. Backed'
  <2> SUFFICES ASSUME NEW q \in Peers
               PROVE  Len(queue'[q]) + Cardinality(InHand(q))' <= granted'[q]
    BY DEF Backed
  <2>1. /\ Len(queue[q]) + Cardinality(InHand(q)) <= granted[q]
        /\ queue[q] \in Seq(Conns) /\ queue'[q] \in Seq(Conns)
        /\ granted[q] \in Nat /\ Cardinality(InHand(q)) \in Nat
    BY <1>0, <1>7, FiniteCounts DEF IndInv, Backed, Pools
  <2>2. Len(queue'[q]) <= Len(queue[q])
    <3>1. CASE q = p
      BY <1>0, <1>3, <1>4, <1>6, <3>1
    <3>2. CASE q # p
      BY <1>0, <1>6, <2>1, <3>2
    <3> QED
      BY <3>1, <3>2
  <2>3. Cardinality(InHand(q))' = Cardinality(InHand(q)) /\ granted' = granted
    BY <1>6, <1>9, StayCounts
  <2> QED
    BY <2>1, <2>2, <2>3
<1>12. Separate'
  <2>1. /\ \A i \in DOMAIN s : \A t \in Tasks : th[t].conn # s[i]
        /\ \A i, j \in DOMAIN s : s[i] = s[j] => i = j
        /\ \A i \in DOMAIN s : \A q \in Peers \ {p} : \A j \in DOMAIN queue[q] :
             s[i] # queue[q][j]
    BY <1>0, <1>4, <1>5, QueueThinned
  <2>2. /\ \A t, u \in Tasks : th'[t].conn = th'[u].conn => t = u \/ th'[t].conn = NoConn
        /\ \A q \in Peers \ {p} : \A i \in DOMAIN queue[q] : \A t \in Tasks :
             th'[t].conn # queue[q][i]
        /\ \A i \in DOMAIN s : \A t \in Tasks : th'[t].conn # s[i]
    BY <1>6, <2>1 DEF IndInv, Separate
  <2> QED
    BY <1>0, <1>4, <1>6, <2>1, <2>2, QueueReplaced
<1> QED
  BY <1>9, <1>10, <1>11, <1>12 DEF IndInv

LEMMA MaintainKeeps ==
  ASSUME IndInv, Maintain
  PROVE  IndInv'
<1>1. CASE CleanOne
  BY <1>1, CleanOneKeeps
<1>2. ASSUME \/ Tick \/ TotalOne \/ Measure \/ MeasureOne
             \/ \E p \in Peers : Grow(p)
      PROVE  IndInv'
  <2>1. UNCHANGED <<pools, expired, th>>
    BY <1>2 DEF Tick, TotalOne, Measure, MeasureOne, Grow
  <2>2. Sweeping'
    <3>1. m \in Work /\ 1 \in Peers /\ Peers \subseteq 1 .. NumPeers + 1
      BY ConnectionPoolAssumption DEF IndInv, Shape, Sweeping, Peers
    <3>2. CASE Tick \/ Measure
      BY <3>1, <3>2 DEF Tick, Measure, Sweeping, Work
    <3>3. CASE \E p \in Peers : Grow(p)
      BY <3>1, <3>3 DEF Grow, Sweeping, Work
    <3>4. CASE TotalOne
      <4>1. m.at \in Peers /\ m.at + 1 \in 1 .. NumPeers + 1
        BY <3>1, <3>4, ConnectionPoolAssumption DEF TotalOne, Work, Peers
      <4>2. m.sum + Len(queue[m.at]) \in Nat
        <5>1. queue[m.at] \in Seq(Conns)
          BY <4>1 DEF IndInv, Shape, Pools
        <5> QED
          BY <3>1, <5>1 DEF Work
      <4> QED
        BY <3>1, <3>4, <4>1, <4>2 DEF TotalOne, Sweeping, Work
    <3>5. CASE MeasureOne
      BY <3>1, <3>5, ConnectionPoolAssumption DEF MeasureOne, Sweeping, Work, Peers
    <3> QED
      BY <1>2, <3>2, <3>3, <3>4, <3>5
  <2>3. Stays /\ Shape' /\ UNCHANGED <<queue, granted, permits>>
    BY <2>1, <2>2 DEF pools, Stays, IndInv, Shape, Pools, Placed
  <2> QED
    BY <2>3, StayKeeps
<1> QED
  BY <1>1, <1>2 DEF Maintain

-----------------------------------------------------------------------------
(* The theorems *)

LEMMA InitHolds == Init => IndInv
<1> SUFFICES ASSUME Init PROVE IndInv
  OBVIOUS
<1>0. Away \in Task /\ Away.conn = NoConn /\ Away.pc = "idle" /\ 1 \in 1 .. NumPeers + 1
  BY AwayIsATask, ConnectionPoolAssumption
<1>1. Shape
  <2>1. <<>> \in Seq(Conns) /\ MaxSize \in Nat
    BY ConnectionPoolAssumption
  <2> QED
    BY <1>0, <2>1 DEF Init, Shape, Pools, Placed, Sweeping, Work, Holding
<1>2. Conserved /\ Backed
  <2> SUFFICES ASSUME NEW p \in Peers
               PROVE  /\ permits[p] + Cardinality(InFlight(p)) + granted[p] = MaxSize
                      /\ Len(queue[p]) + Cardinality(InHand(p)) <= granted[p]
    BY DEF Conserved, Backed
  <2>1. InFlight(p) = {} /\ InHand(p) = {}
    BY <1>0 DEF Init, InFlight, InHand, Permitted
  <2>2. Cardinality(InFlight(p)) = 0 /\ Cardinality(InHand(p)) = 0
    BY <2>1, FS_EmptySet
  <2> QED
    BY <2>2, ConnectionPoolAssumption DEF Init
<1>3. Separate
  BY <1>0 DEF Init, Separate
<1> QED
  BY <1>1, <1>2, <1>3 DEF IndInv

LEMMA NextKeeps == IndInv /\ [Next]_vars => IndInv'
<1> SUFFICES ASSUME IndInv, [Next]_vars PROVE IndInv'
  OBVIOUS
<1>1. ASSUME NEW t \in Tasks, Step(t) \/ Release(t) \/ Drop(t) \/ \E p \in Peers : Acquire(t, p)
      PROVE  IndInv'
  <2>1. CASE Look(t)
    BY <2>1, LookKeeps
  <2>2. CASE Create(t)
    BY <2>2, CreateKeeps
  <2>3. CASE Push(t)
    BY <2>3, PushKeeps
  <2>4. CASE Notify(t)
    BY <2>4, NotifyKeeps
  <2>5. CASE TakePermit(t) \/ CountGranted(t) \/ Drop(t)
    BY <2>5, TradeSteps, TradeKeeps
  <2>6. CASE \/ \E p \in Peers : Acquire(t, p)
             \/ PermitTimeout(t) \/ TimedOut(t) \/ FinishReuse(t) \/ CountIdle(t)
             \/ FinishCreate(t) \/ Park(t) \/ WaitTimeout(t)
             \/ Release(t) \/ CountOne(t) \/ DecideKeep(t) \/ Destroy(t) \/ FinishRelease(t)
    BY <2>6, QuietSteps, QuietKeeps
  <2> QED
    BY <1>1, <2>1, <2>2, <2>3, <2>4, <2>5, <2>6 DEF Step
<1>2. CASE UNCHANGED vars
  BY <1>2, StayKeeps DEF vars, pools, Stays, IndInv, Shape, Pools, Placed, Sweeping
<1> QED
  BY <1>1, <1>2, ExpireKeeps, MaintainKeeps DEF Next

\* The invariant from which the rest follows: what the program counters say,
\* the count of permits, the grant behind every connection, and one place for
\* each connection.
THEOREM Inductive == Spec => []IndInv
  BY InitHolds, NextKeeps, PTL DEF Spec

\* What the three counts of a peer add up to bounds each of them.
LEMMA CountsAreBounded ==
  ASSUME IndInv, NEW p \in Peers
  PROVE  /\ permits[p] + Cardinality(InFlight(p)) + granted[p] = MaxSize
         /\ permits[p] \in 0 .. MaxSize /\ granted[p] \in 0 .. MaxSize
<1>1. permits[p] + Cardinality(InFlight(p)) + granted[p] = MaxSize
  BY DEF IndInv, Conserved
<1>2. permits[p] \in Nat /\ granted[p] \in Nat /\ Cardinality(InFlight(p)) \in Nat
  BY FiniteCounts DEF IndInv, Shape, Pools
<1> QED
  BY <1>1, <1>2, ConnectionPoolAssumption

\* Every permit of a peer is in its semaphore, with a call in progress or spent
\* on a grant (connection_pool.rs:150, 194, 210, 217), for any number of tasks.
THEOREM PermitsConservedAlways == Spec => []PermitsConserved
<1>1. IndInv => PermitsConserved
  <2> SUFFICES ASSUME IndInv PROVE PermitsConserved
    OBVIOUS
  <2>1. permits \in [Peers -> 0 .. MaxSize] /\ granted \in [Peers -> 0 .. MaxSize]
    BY CountsAreBounded DEF IndInv, Shape, Pools
  <2>2. TypeOK
    BY <2>1 DEF IndInv, Shape, Pools, Placed, Sweeping, Task, Work, TypeOK
  <2> QED
    BY <2>2, CountsAreBounded DEF PermitsConserved
<1> QED
  BY <1>1, Inductive, PTL

\* A peer has at most max_size connections, idle, in hand and being made
\* (connection_pool.rs:201), for any max_size: a connection that exists has its
\* grant, and one that is being made has its permit.
THEOREM NeverOverMaxAlways == Spec => []NeverOverMax
<1>1. ASSUME IndInv, NEW p \in Peers
      PROVE  Len(queue[p]) + Cardinality(InHand(p))
               + Cardinality({t \in InFlight(p) : At(t, "create")}) <= MaxSize
  <2> DEFINE making == {t \in InFlight(p) : At(t, "create")}
             l == Len(queue[p])  h == Cardinality(InHand(p))  f == Cardinality(InFlight(p))
             k == Cardinality(making)  g == granted[p]  q == permits[p]
  <2>1. k \in Nat /\ k <= f /\ f \in Nat /\ h \in Nat
    BY FiniteCounts, FS_Subset, FS_CardinalityType
  <2>2. l \in Nat /\ g \in Nat /\ q \in Nat
    <3>1. queue[p] \in Seq(Conns)
      BY <1>1 DEF IndInv, Shape, Pools
    <3> QED
      BY <1>1, <3>1 DEF IndInv, Shape, Pools
  <2>3. l + h <= g /\ q + f + g = MaxSize
    BY <1>1 DEF IndInv, Backed, Conserved
  <2> HIDE DEF l, h, f, k, g, q
  <2>4. l + h + k <= MaxSize
    BY <2>1, <2>2, <2>3, ConnectionPoolAssumption
  <2> QED
    BY <2>4 DEF l, h, k
<1>2. IndInv => NeverOverMax
  BY <1>1 DEF NeverOverMax
<1> QED
  BY <1>2, Inductive, PTL

\* A connection is in one place of one queue or in one hand
\* (connection_pool.rs:161, 250, 401), for any peers, tasks and connections.
THEOREM OneHolderAlways == Spec => []OneHolder
<1>1. IndInv => OneHolder
  <2> SUFFICES ASSUME IndInv PROVE OneHolder
    OBVIOUS
  <2>1. Queued \cap Held = {}
    BY DEF IndInv, Separate, Queued, Held, ToSet
  <2> QED
    BY <2>1 DEF IndInv, Separate, OneHolder
<1> QED
  BY <1>1, Inductive, PTL

=============================================================================
