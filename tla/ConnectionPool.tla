--------------------------- MODULE ConnectionPool ---------------------------
(***************************************************************************)
(* ConnectionPool of core/network/src/connection_pool.rs, shared by the    *)
(* tasks of one process: per peer a semaphore, a queue of idle connections *)
(* and a count of granted ones; one statistics lock; a maintenance task.   *)
(* A task that calls acquire may be dropped at each of its awaits.  A step *)
(* ends where another task may get in.                                     *)
(*                                                                         *)
(* Three guards are held across other work and shape what follows: that of *)
(* a shard of `available` while a connection is taken from a queue in it,  *)
(* that of the same map's iterator in maintain_minimum_size, and that of   *)
(* the statistics while update_pool_stats counts.  Who holds them is told  *)
(* by the program counters.                                                *)
(***************************************************************************)
EXTENDS Integers, Sequences, FiniteSets, SequencesExt

CONSTANTS
  Tasks,             \* the callers
  NumPeers,          \* peers are numbered in the order of their shards
  Shard,             \* Shard[p]: the shard of `available` that holds p
  Conns,             \* connections; one that is gone may be made anew
  MaxSize, MinSize   \* max_size, min_size

Peers == 1 .. NumPeers

ASSUME ConnectionPoolAssumption ==
  /\ NumPeers \in Nat \ {0} /\ MaxSize \in Nat \ {0} /\ MinSize \in Nat
  /\ Shard \in [Peers -> Nat]
  /\ IsFiniteSet(Tasks) /\ IsFiniteSet(Conns) /\ 0 \notin Conns

VARIABLES
  known,     \* the peers with an entry in `available`
  queue,     \* queue[p]: the idle connections of that entry
  granted,   \* granted[p]: the size of active[p], which never shrinks
  permits,   \* permits[p]: what the semaphore of p has left
  signal,    \* signal[p]: the Notify of p, "absent", "empty" or "stored"
  expired,   \* the connections is_connection_valid refuses
  th,        \* th[t]: where a task is
  m          \* where the maintenance task is

pools == <<known, queue, granted, permits, signal>>
vars == <<pools, expired, th, m>>

(* acquire goes from "permit" to "using"; release from "using" to "idle".
   Tasks in Permitted hold a permit; at is the next peer of a count. *)
PC == {"idle", "permit", "late", "look", "reused", "count", "count2", "create",
       "created", "parked", "waiting", "using", "keep", "destroy", "push",
       "notify", "released"}
Permitted == {"look", "count", "count2", "create"}
NoConn == 0
Away == [pc |-> "idle", peer |-> 1, conn |-> NoConn, at |-> 1, sum |-> 0]

At(t, pc) == th[t].pc = pc
Goto(t, pc) == th' = [th EXCEPT ![t].pc = pc]
Leave(t) == th' = [th EXCEPT ![t] = Away]

\* Who keeps others out of a shard of `available`, and of the statistics.
Taking(p)  == {t \in Tasks : At(t, "reused") /\ Shard[th[t].peer] = Shard[p]}
Growing(p) == m.pc = "grow" /\ Shard[m.at] = Shard[p]
MayRead(p)  == Taking(p) = {}
MayWrite(p) == Taking(p) = {} /\ ~Growing(p)
StatsFree   == m.pc # "measure"

Valid(c) == c \notin expired
Kept(s)  == {i \in DOMAIN s : Valid(s[i])}
Queued   == UNION {ToSet(queue[p]) : p \in Peers}
Held     == {th[t].conn : t \in Tasks} \ {NoConn}
Unused   == Conns \ (Queued \cup Held)

-----------------------------------------------------------------------------
(* acquire *)

Acquire(t, p) ==
  /\ At(t, "idle")
  /\ th' = [th EXCEPT ![t].pc = "permit", ![t].peer = p]
  /\ UNCHANGED <<pools, expired, m>>

\* mutant: a permit that does not count
PermitStays(t) ==
  /\ At(t, "permit") /\ permits[th[t].peer] > 0
  /\ Goto(t, "look")
  /\ UNCHANGED <<pools, expired, m>>

TakePermit(t) ==
  LET p == th[t].peer IN
  /\ At(t, "permit") /\ permits[p] > 0
  /\ permits' = [permits EXCEPT ![p] = @ - 1]
  /\ Goto(t, "look")
  /\ UNCHANGED <<known, queue, granted, signal, expired, m>>

\* The timer of the select may win although a permit is there.
PermitTimeout(t) ==
  /\ At(t, "permit")
  /\ Goto(t, "late")
  /\ UNCHANGED <<pools, expired, m>>

\* A timeout is counted in the statistics before the error is returned.
TimedOut(t) ==
  /\ At(t, "late") /\ StatsFree
  /\ Leave(t)
  /\ UNCHANGED <<pools, expired, m>>

\* The connections that are no longer valid are dropped from the front of the
\* queue, and the one that is found is taken out.  The guard goes with the end
\* of a search in vain, and is kept with a find.
Searching(t, taken) ==
  LET p == th[t].peer
      fit == Kept(queue[p])
  IN
  /\ At(t, "look") /\ MayWrite(p)
  /\ \/ /\ fit = {}
        /\ queue' = [queue EXCEPT ![p] = <<>>] /\ Goto(t, "count") /\ UNCHANGED granted
     \/ \E first \in fit :
          /\ \A i \in fit : first <= i
          /\ queue' = [queue EXCEPT ![p] = SubSeq(queue[p], first + taken, Len(queue[p]))]
          /\ granted' = [granted EXCEPT ![p] = @ + 1]
          /\ th' = [th EXCEPT ![t].pc = "reused", ![t].conn = queue[p][first]]
  /\ UNCHANGED <<known, permits, signal, expired, m>>

\* mutant: the connection is copied, as into `active`, and stays in its queue
LookCopying(t) == Searching(t, 0)

Look(t) == Searching(t, 1)

\* The statistics are updated under the guard of the shard; then the permit
\* is forgotten.
FinishReuse(t) ==
  /\ At(t, "reused") /\ StatsFree
  /\ Goto(t, "using")
  /\ UNCHANGED <<pools, expired, m>>

CountIdle(t) ==
  LET p == th[t].peer IN
  /\ At(t, "count") /\ MayRead(p)
  /\ th' = [th EXCEPT ![t].pc = "count2", ![t].sum = Len(queue[p])]
  /\ UNCHANGED <<pools, expired, m>>

CountGranted(t) ==
  LET p == th[t].peer
      full == th[t].sum + granted[p] >= MaxSize
  IN
  /\ At(t, "count2")
  /\ th' = [th EXCEPT ![t].pc = IF full THEN "parked" ELSE "create", ![t].sum = 0]
  /\ IF full
     THEN /\ permits' = [permits EXCEPT ![p] = @ + 1]
          /\ signal' = [signal EXCEPT ![p] = IF @ = "absent" THEN "empty" ELSE @]
     ELSE UNCHANGED <<permits, signal>>
  /\ UNCHANGED <<known, queue, granted, expired, m>>

\* create_connection, after its await.
Create(t) ==
  LET p == th[t].peer
      c == CHOOSE x \in Unused : TRUE
  IN
  /\ At(t, "create") /\ Unused # {}
  /\ th' = [th EXCEPT ![t].pc = "created", ![t].conn = c]
  /\ expired' = expired \ {c}
  /\ granted' = [granted EXCEPT ![p] = @ + 1]
  /\ UNCHANGED <<known, queue, permits, signal, m>>

FinishCreate(t) ==
  /\ At(t, "created") /\ StatsFree
  /\ Goto(t, "using")
  /\ UNCHANGED <<pools, expired, m>>

\* The first poll of notified() takes a stored notification.
Park(t) ==
  LET p == th[t].peer IN
  /\ At(t, "parked")
  /\ IF signal[p] = "stored"
     THEN Goto(t, "permit") /\ signal' = [signal EXCEPT ![p] = "empty"]
     ELSE Goto(t, "waiting") /\ UNCHANGED signal
  /\ UNCHANGED <<known, queue, granted, permits, expired, m>>

WaitTimeout(t) ==
  /\ At(t, "waiting")
  /\ Goto(t, "late")
  /\ UNCHANGED <<pools, expired, m>>

\* mutant: the permit of a caller that goes away is not given back
DropKeeping(t) ==
  /\ th[t].pc \in {"permit", "create", "waiting"}
  /\ Leave(t)
  /\ UNCHANGED <<pools, expired, m>>

\* The caller drops the future at one of its awaits; the permit is returned.
Drop(t) ==
  /\ th[t].pc \in {"permit", "create", "waiting"}
  /\ permits' = [permits EXCEPT ![th[t].peer] = IF At(t, "create") THEN @ + 1 ELSE @]
  /\ Leave(t)
  /\ UNCHANGED <<known, queue, granted, signal, expired, m>>

-----------------------------------------------------------------------------
(* release *)

Release(t) ==
  /\ At(t, "using")
  /\ th' = [th EXCEPT ![t].pc = IF Valid(th[t].conn) THEN "keep" ELSE "destroy"]
  /\ UNCHANGED <<pools, expired, m>>

\* should_keep_connection: the idle connections of all peers, shard by shard,
\* then the granted ones.
CountOne(t) ==
  LET p == th[t].at IN
  /\ At(t, "keep") /\ p <= NumPeers /\ MayRead(p)
  /\ th' = [th EXCEPT ![t].at = p + 1, ![t].sum = @ + Len(queue[p])]
  /\ UNCHANGED <<pools, expired, m>>

Total(sum) == FoldFunction(+, sum, granted)

DecideKeep(t) ==
  /\ At(t, "keep") /\ th[t].at > NumPeers
  /\ th' = [th EXCEPT ![t].pc = IF Total(th[t].sum) < MaxSize THEN "push" ELSE "destroy",
                      ![t].at = 1, ![t].sum = 0]
  /\ UNCHANGED <<pools, expired, m>>

\* Nobody is told that a connection was destroyed.
Destroy(t) ==
  /\ At(t, "destroy") /\ StatsFree
  /\ Leave(t)
  /\ UNCHANGED <<pools, expired, m>>

Push(t) ==
  LET p == th[t].peer IN
  /\ At(t, "push") /\ MayWrite(p)
  /\ queue' = [queue EXCEPT ![p] = Append(@, th[t].conn)]
  /\ known' = known \cup {p}
  /\ th' = [th EXCEPT ![t].pc = "notify", ![t].conn = NoConn]
  /\ UNCHANGED <<granted, permits, signal, expired, m>>

\* notify_one wakes a waiter, or is stored for the next; without an entry in
\* `waiters` it is lost.
Notify(t) ==
  LET p == th[t].peer
      sleepers == {u \in Tasks : At(u, "waiting") /\ th[u].peer = p}
  IN
  /\ At(t, "notify")
  /\ IF sleepers # {}
     THEN /\ \E u \in sleepers :
               th' = [th EXCEPT ![t].pc = "released", ![u].pc = "permit"]
          /\ UNCHANGED signal
     ELSE /\ Goto(t, "released")
          /\ signal' = [signal EXCEPT ![p] = IF @ = "absent" THEN @ ELSE "stored"]
  /\ UNCHANGED <<known, queue, granted, permits, expired, m>>

FinishRelease(t) ==
  /\ At(t, "released") /\ StatsFree
  /\ Leave(t)
  /\ UNCHANGED <<pools, expired, m>>

\* A lifetime, an idle time or a reuse count runs out, or the health drops.
Expire(c) ==
  /\ c \in (Queued \cup Held) \ expired
  /\ expired' = expired \cup {c}
  /\ UNCHANGED <<pools, th, m>>

-----------------------------------------------------------------------------
(* run_maintenance *)

Tick ==
  /\ m.pc = "sleep"
  /\ m' = [pc |-> "clean", at |-> 1, sum |-> 0]
  /\ UNCHANGED <<pools, expired, th>>

\* What is valid stays, in its order.
CleanOne ==
  /\ m.pc = "clean" /\ MayWrite(m.at)
  /\ \E f \in [1 .. Cardinality(Kept(queue[m.at])) -> Kept(queue[m.at])] :
       /\ \A i, j \in DOMAIN f : i < j => f[i] < f[j]
       /\ queue' = [queue EXCEPT ![m.at] = [i \in DOMAIN f |-> queue[m.at][f[i]]]]
  /\ m' = IF m.at < NumPeers THEN [m EXCEPT !.at = @ + 1]
                             ELSE [pc |-> "total", at |-> 1, sum |-> 0]
  /\ UNCHANGED <<known, granted, permits, signal, expired, th>>

TotalOne ==
  /\ m.pc = "total" /\ m.at <= NumPeers /\ MayRead(m.at)
  /\ m' = [m EXCEPT !.at = @ + 1, !.sum = @ + Len(queue[m.at])]
  /\ UNCHANGED <<pools, expired, th>>

Low == m.pc = "total" /\ m.at > NumPeers /\ Total(m.sum) < MinSize

\* The iterator keeps its guard while a connection is made, and then the entry
\* of the same peer is asked for writing: there is no step out of "grow".
Grow(p) ==
  /\ Low /\ p \in known /\ \A q \in known : p <= q
  /\ MayRead(p)
  /\ m' = [pc |-> "grow", at |-> p, sum |-> 0]
  /\ UNCHANGED <<pools, expired, th>>

Measure ==
  /\ m.pc = "total" /\ m.at > NumPeers /\ (Low => known = {})
  /\ m' = [pc |-> "measure", at |-> 1, sum |-> 0]
  /\ UNCHANGED <<pools, expired, th>>

\* mutant: the statistics stay locked
MeasureForever ==
  /\ m.pc = "measure" /\ MayRead(m.at)
  /\ m' = [m EXCEPT !.at = IF m.at < NumPeers THEN @ + 1 ELSE 1]
  /\ UNCHANGED <<pools, expired, th>>

MeasureOne ==
  /\ m.pc = "measure" /\ MayRead(m.at)
  /\ m' = IF m.at < NumPeers THEN [m EXCEPT !.at = @ + 1]
                             ELSE [pc |-> "sleep", at |-> 1, sum |-> 0]
  /\ UNCHANGED <<pools, expired, th>>

-----------------------------------------------------------------------------

Init ==
  /\ known = {} /\ queue = [p \in Peers |-> <<>>]
  /\ granted = [p \in Peers |-> 0]
  /\ permits = [p \in Peers |-> MaxSize]
  /\ signal = [p \in Peers |-> "absent"]
  /\ expired = {}
  /\ th = [t \in Tasks |-> Away]
  /\ m = [pc |-> "sleep", at |-> 1, sum |-> 0]

\* What a task does without being asked; the timers run out at the latest.
Step(t) ==
  \/ TakePermit(t) \/ PermitTimeout(t) \/ TimedOut(t) \/ Look(t) \/ FinishReuse(t)
  \/ CountIdle(t) \/ CountGranted(t) \/ Create(t) \/ FinishCreate(t) \/ Park(t)
  \/ WaitTimeout(t) \/ CountOne(t) \/ DecideKeep(t) \/ Destroy(t) \/ Push(t)
  \/ Notify(t) \/ FinishRelease(t)

Maintain ==
  \/ Tick \/ CleanOne \/ TotalOne \/ Measure \/ MeasureOne
  \/ \E p \in Peers : Grow(p)

Next ==
  \/ \E t \in Tasks : Step(t) \/ Release(t) \/ Drop(t) \/ \E p \in Peers : Acquire(t, p)
  \/ \E c \in Conns : Expire(c)
  \/ Maintain

Spec == Init /\ [][Next]_vars

\* Threads run and timers fire, and the locks (parking_lot) let everybody in
\* who keeps asking.  That a caller releases is not assumed.
FairSpec == Spec /\ SF_vars(Maintain) /\ \A t \in Tasks : SF_vars(Step(t))

-----------------------------------------------------------------------------
(* What holds. *)

TypeOK ==
  /\ known \subseteq Peers
  /\ queue \in [Peers -> Seq(Conns)]
  /\ granted \in [Peers -> 0 .. MaxSize]
  /\ permits \in [Peers -> 0 .. MaxSize]
  /\ signal \in [Peers -> {"absent", "empty", "stored"}]
  /\ expired \subseteq Conns
  /\ th \in [Tasks -> [pc : PC, peer : Peers, conn : Conns \cup {NoConn},
                       at : 1 .. NumPeers + 1, sum : Nat]]
  /\ m \in [pc : {"sleep", "clean", "total", "grow", "measure"},
            at : 1 .. NumPeers + 1, sum : Nat]

InFlight(p) == {t \in Tasks : th[t].peer = p /\ th[t].pc \in Permitted}
InHand(p)   == {t \in Tasks : th[t].peer = p /\ th[t].conn # NoConn}

\* Every permit of a peer is in its semaphore, with a call in progress, or
\* spent on a grant, whatever calls are dropped at their awaits
\* (connection_pool.rs:150, 194, 210, 217).
PermitsConserved ==
  TypeOK /\ \A p \in Peers : permits[p] + Cardinality(InFlight(p)) + granted[p] = MaxSize

\* A peer never has more than max_size connections, idle, in hand and being
\* made, although the count is compared (connection_pool.rs:201) long before
\* the connection exists.
NeverOverMax ==
  \A p \in Peers :
    Len(queue[p]) + Cardinality(InHand(p))
      + Cardinality({t \in InFlight(p) : At(t, "create")}) <= MaxSize

\* A connection is idle in one place of one queue or in the hand of one task,
\* whoever takes, returns and cleans up (connection_pool.rs:161, 250, 401).
OneHolder ==
  /\ \A t, u \in Tasks : th[t].conn = th[u].conn => t = u \/ th[t].conn = NoConn
  /\ Queued \cap Held = {}
  /\ \A p, q \in Peers : \A i \in DOMAIN queue[p], j \in DOMAIN queue[q] :
       queue[p][i] = queue[q][j] => p = q /\ i = j

\* The two ways the pool locks up: a connection is to be made for a peer of
\* the very shard that is iterated (connection_pool.rs:422-427), and the
\* statistics are wanted under the guard of a shard that is wanted under the
\* lock of the statistics (connection_pool.rs:191, 444).
Stuck ==
  \/ m.pc = "grow"
  \/ m.pc = "measure" /\ Taking(m.at) # {}

\* Every call returns, with a connection or an error, as long as the pool has
\* not locked up in one of those two ways: a lost notification, a permit that
\* never comes back and a destroyed connection cost a timeout at most.
CallsReturn ==
  \A t \in Tasks : ~At(t, "idle") /\ ~At(t, "using") ~> At(t, "idle") \/ At(t, "using") \/ Stuck

=============================================================================
