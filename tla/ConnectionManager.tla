--------------------------- MODULE ConnectionManager ---------------------------
(***************************************************************************)
(* ConnectionManager of core/network/src/connection.rs, shared by the      *)
(* tasks of one process: the table of connections, the pool of those that  *)
(* were disconnected while healthy, and a circuit breaker per peer.  The   *)
(* maps are lock-free to their callers: a step is one access to one entry, *)
(* and anything may happen between two.  A task in connect or a backoff    *)
(* may be dropped.                                                         *)
(*                                                                         *)
(* A pooled entry that is looked up stays read-locked until the lookup is  *)
(* over; each peer's is taken to be in a shard of its own.  Scores, metrics*)
(* and streams are left out: a connection is healthy or is not.            *)
(***************************************************************************)
EXTENDS Integers, FiniteSets

CONSTANTS
  Tasks, Peers,
  MaxConnections,      \* max_connections
  MaxRetries,          \* attempts of recover_connection and retry_connect
  FailureThreshold, SuccessThreshold,
  MaxCalls             \* bounds the calls made

ASSUME ConnectionManagerAssumption ==
  /\ IsFiniteSet(Tasks) /\ IsFiniteSet(Peers)
  /\ MaxConnections \in Nat \ {0} /\ MaxRetries \in Nat \ {0}
  /\ FailureThreshold \in Nat \ {0} /\ SuccessThreshold \in Nat \ {0}
  /\ MaxCalls \in Nat

VARIABLES
  conns,      \* conns[p]: the entry of p in `connections`
  pool,       \* pool[p]: the entry of p in `connection_pool`
  breaker,    \* breaker[p]: the entry of p in `circuit_breakers`
  th,         \* th[t]: where a task is
  abandoned,  \* the peers a connect to which was dropped while it waited
  calls       \* the calls so far

maps == <<conns, pool, breaker>>
vars == <<maps, th, abandoned, calls>>

(* Where an entry of `connections` comes from: "checked" against the limit   *)
(* ("told" if update_status then made it Connecting), "reused" from the pool, *)
(* or "updated" by update_status.                                             *)
NoConn  == [status |-> "none", healthy |-> FALSE, from |-> "none"]
NoEntry == [status |-> "none", healthy |-> FALSE, fresh |-> FALSE]
NoBreaker == [state |-> "none", failures |-> 0, successes |-> 0]

NoPeer == "none"
\* Down is Failed, Disconnecting or Disconnected: only health_check tells these
\* apart, and recover_connection may be called for any peer here.
Statuses == {"Connecting", "Connected", "Down"}
Froms    == {"checked", "told", "reused", "updated"}
PC == {"idle", "breaker", "pool", "reused", "hung", "limit", "insert", "connecting",
       "record", "stash", "clean", "unpool", "unknown"}
Away == [pc |-> "idle", peer |-> NoPeer, tries |-> 0,
         info |-> NoConn, todo |-> {}]

At(t, pc) == th[t].pc = pc
Goto(t, pc) == th' = [th EXCEPT ![t].pc = pc]
Leave(t) == th' = [th EXCEPT ![t] = Away]

Known == {p \in Peers : conns[p].status # "none"}

Made(status, healthy, from) == [status |-> status, healthy |-> healthy, from |-> from]

\* A new ConnectionInfo has a score of 1.0 and is healthy, whatever its status.
New(status, from) == Made(status, TRUE, from)

\* Who reads a pooled entry keeps its writers out.
Reading(p) == \E t \in Tasks : th[t].pc \in {"reused", "hung"} /\ th[t].peer = p

-----------------------------------------------------------------------------
(* CircuitBreaker.  "Due" is an open circuit whose timeout is over. *)

Closed(b) == b.state \in {"none", "Closed"}
Circuit(state, failures, successes) ==
  [state |-> state, failures |-> failures, successes |-> successes]

\* allow_request
Allows(b) == b.state # "Open"
AfterAllowing(b) == IF b.state = "Due" THEN Circuit("HalfOpen", b.failures, 0) ELSE b

Succeeded(b) ==
  CASE Closed(b) -> Circuit("Closed", 0, b.successes)
    [] b.state = "HalfOpen" ->
         IF b.successes + 1 >= SuccessThreshold
         THEN Circuit("Closed", 0, b.successes + 1)
         ELSE Circuit("HalfOpen", b.failures, b.successes + 1)
    [] OTHER -> b

Failed(b) ==
  CASE Closed(b) -> Circuit(IF b.failures + 1 >= FailureThreshold THEN "Open" ELSE "Closed",
                            b.failures + 1, b.successes)
    [] b.state = "HalfOpen" -> Circuit("Open", b.failures + 1, b.successes)
    [] OTHER -> b

\* mutant: closing a circuit on trial keeps the count of failures
RecordedKeeping(b, success) ==
  IF ~success THEN Failed(b)
  ELSE IF b.state = "HalfOpen" /\ b.successes + 1 >= SuccessThreshold
       THEN Circuit("Closed", b.failures, b.successes + 1)
       ELSE Succeeded(b)

\* record_result of an entry that is there, or is made by or_default
Recorded(b, success) == IF success THEN Succeeded(b) ELSE Failed(b)

-----------------------------------------------------------------------------
(* connect, on its own and within retry_connect and recover_connection *)

Begin(t) == At(t, "idle") /\ calls < MaxCalls /\ calls' = calls + 1

Connect(t, p, tries) ==
  /\ Begin(t)
  /\ th' = [th EXCEPT ![t].pc = "breaker", ![t].peer = p, ![t].tries = tries]
  /\ UNCHANGED <<maps, abandoned>>

\* An attempt that fails is followed by another, after a backoff, if one is left.
Fail(t) ==
  LET tries == th[t].tries IN
  th' = [th EXCEPT ![t] =
           IF tries > 1
           THEN [th[t] EXCEPT !.pc = "breaker", !.tries = tries - 1, !.info = NoConn]
           ELSE Away]

Admit(t) ==
  LET p == th[t].peer IN
  /\ At(t, "breaker") /\ Allows(breaker[p])
  /\ breaker' = [breaker EXCEPT ![p] = AfterAllowing(@)]
  /\ Goto(t, "pool")
  /\ UNCHANGED <<conns, pool, abandoned, calls>>

Refuse(t) ==
  /\ At(t, "breaker") /\ ~Allows(breaker[th[t].peer])
  /\ Fail(t)
  /\ UNCHANGED <<maps, abandoned, calls>>

Reusable(e) == e.status # "none" /\ e.fresh /\ e.healthy

\* The pooled entry is copied to the table, whatever its status and however many
\* connections there are; it stays in the pool.
Reuse(t) ==
  LET p == th[t].peer   e == pool[p] IN
  /\ At(t, "pool") /\ Reusable(e)
  /\ conns' = [conns EXCEPT ![p] = [status |-> e.status, healthy |-> TRUE, from |-> "reused"]]
  /\ Goto(t, "reused")
  /\ UNCHANGED <<pool, breaker, abandoned, calls>>

\* Its success is recorded if the peer has a breaker; connect returns Ok.
RecordReuse(t) ==
  LET p == th[t].peer IN
  /\ At(t, "reused")
  /\ breaker' = IF breaker[p].state = "none" THEN breaker
                ELSE [breaker EXCEPT ![p] = Recorded(@, TRUE)]
  /\ Leave(t)
  /\ UNCHANGED <<conns, pool, abandoned, calls>>

\* The entry is not fit for use: the lookup that still reads it waits to remove it.
Hang(t) ==
  LET e == pool[th[t].peer] IN
  /\ At(t, "pool") /\ e.status # "none" /\ ~Reusable(e)
  /\ Goto(t, "hung")
  /\ UNCHANGED <<maps, abandoned, calls>>

Miss(t) ==
  /\ At(t, "pool") /\ pool[th[t].peer].status = "none"
  /\ Goto(t, "limit")
  /\ UNCHANGED <<maps, abandoned, calls>>

\* mutant: one more than the limit
PassOneMore(t) ==
  /\ At(t, "limit") /\ Cardinality(Known) <= MaxConnections
  /\ Goto(t, "insert")
  /\ UNCHANGED <<maps, abandoned, calls>>

PassLimit(t) ==
  /\ At(t, "limit") /\ Cardinality(Known) < MaxConnections
  /\ Goto(t, "insert")
  /\ UNCHANGED <<maps, abandoned, calls>>

AtLimit(t) ==
  /\ At(t, "limit") /\ Cardinality(Known) >= MaxConnections
  /\ Fail(t)
  /\ UNCHANGED <<maps, abandoned, calls>>

InsertConnecting(t) ==
  /\ At(t, "insert")
  /\ conns' = [conns EXCEPT ![th[t].peer] = New("Connecting", "checked")]
  /\ Goto(t, "connecting")
  /\ UNCHANGED <<pool, breaker, abandoned, calls>>

\* What the wait ends in: a connection that took very long is unhealthy at once.
Outcomes == {Made("Connected", healthy, "checked") : healthy \in BOOLEAN}
            \cup {New("Down", "checked")}

\* mutant: a failure leaves the entry to the next attempt
LandOnSuccess(t, info) ==
  /\ At(t, "connecting")
  /\ conns' = IF info.status = "Connected"
              THEN [conns EXCEPT ![th[t].peer] = info] ELSE conns
  /\ th' = [th EXCEPT ![t].pc = "record", ![t].info = info]
  /\ UNCHANGED <<pool, breaker, abandoned, calls>>

\* The wait is over; the outcome is inserted, be the entry still there or not.
Land(t, info) ==
  /\ At(t, "connecting")
  /\ conns' = [conns EXCEPT ![th[t].peer] = info]
  /\ th' = [th EXCEPT ![t].pc = "record", ![t].info = info]
  /\ UNCHANGED <<pool, breaker, abandoned, calls>>

Record(t) ==
  LET p == th[t].peer   success == th[t].info.status = "Connected" IN
  /\ At(t, "record")
  /\ breaker' = [breaker EXCEPT ![p] = Recorded(@, success)]
  /\ IF success THEN Leave(t) ELSE Fail(t)
  /\ UNCHANGED <<conns, pool, abandoned, calls>>

\* The caller drops a task that waits for a connection, or between two attempts.
Drop(t) ==
  /\ th[t].pc \in {"breaker", "connecting"}
  /\ abandoned' = IF At(t, "connecting") THEN abandoned \cup {th[t].peer} ELSE abandoned
  /\ Leave(t)
  /\ UNCHANGED <<maps, calls>>

-----------------------------------------------------------------------------
(* recover_connection, which auto_recover calls for what health_check saw   *)
(* earlier: the peer's connection may be fine by then                       *)

Recover(t, p) ==
  /\ Begin(t)
  /\ conns' = [conns EXCEPT ![p] = NoConn]
  /\ th' = [th EXCEPT ![t].pc = "unpool", ![t].peer = p]
  /\ UNCHANGED <<pool, breaker, abandoned>>

Unpool(t) ==
  LET p == th[t].peer IN
  /\ At(t, "unpool") /\ ~Reading(p)
  /\ pool' = [pool EXCEPT ![p] = NoEntry]
  /\ th' = [th EXCEPT ![t].pc = "breaker", ![t].tries = MaxRetries]
  /\ UNCHANGED <<conns, breaker, abandoned, calls>>

-----------------------------------------------------------------------------
(* disconnect *)

\* A connection that is healthy is to be pooled.
Disconnect(t, p) ==
  /\ Begin(t)
  /\ conns' = [conns EXCEPT ![p] = NoConn]
  /\ th' = [th EXCEPT ![t].pc = IF conns[p].healthy THEN "stash" ELSE "clean",
                      ![t].peer = p, ![t].info = conns[p], ![t].todo = Peers]
  /\ UNCHANGED <<pool, breaker, abandoned>>

\* mutant: the entry is written past a reader
StashAnyway(t) ==
  LET p == th[t].peer IN
  /\ At(t, "stash")
  /\ pool' = [pool EXCEPT ![p] = [status |-> th[t].info.status, healthy |-> TRUE,
                                  fresh |-> TRUE]]
  /\ Goto(t, "clean")
  /\ UNCHANGED <<conns, breaker, abandoned, calls>>

Stash(t) ==
  LET p == th[t].peer IN
  /\ At(t, "stash") /\ ~Reading(p)
  /\ pool' = [pool EXCEPT ![p] = [status |-> th[t].info.status, healthy |-> TRUE,
                                  fresh |-> TRUE]]
  /\ Goto(t, "clean")
  /\ UNCHANGED <<conns, breaker, abandoned, calls>>

\* cleanup_pool passes every shard, in an order of the map's own, and waits for
\* the readers of each.
Clean(t, p) ==
  /\ At(t, "clean") /\ p \in th[t].todo /\ ~Reading(p)
  /\ pool' = IF pool[p].fresh THEN pool ELSE [pool EXCEPT ![p] = NoEntry]
  /\ th' = [th EXCEPT ![t] = IF th[t].todo = {p} THEN Away
                             ELSE [th[t] EXCEPT !.todo = th[t].todo \ {p}]]
  /\ UNCHANGED <<conns, breaker, abandoned, calls>>

-----------------------------------------------------------------------------
(* update_status, and with metrics: measured tells that there is a response time *)

Told(from, status) == IF from = "checked" /\ status = "Connecting" THEN "told" ELSE from

\* What a response time does to the score is left open.
UpdateKnown(t, p, status, measured) ==
  /\ Begin(t) /\ p \in Known
  /\ \E healthy \in (IF measured THEN BOOLEAN ELSE {conns[p].healthy}) :
       conns' = [conns EXCEPT ![p] = Made(status, healthy, Told(@.from, status))]
  /\ breaker' = IF measured /\ breaker[p].state # "none"
                THEN [breaker EXCEPT ![p] = Recorded(@, status = "Connected")]
                ELSE breaker
  /\ UNCHANGED <<pool, th, abandoned>>

UpdateUnknown(t, p, status, measured) ==
  /\ Begin(t) /\ p \notin Known
  /\ \E healthy \in (IF measured THEN BOOLEAN ELSE {TRUE}) :
       th' = [th EXCEPT ![t].pc = "unknown", ![t].peer = p,
                        ![t].info = Made(status, healthy, "updated")]
  /\ UNCHANGED <<maps, abandoned>>

InsertUnknown(t) ==
  /\ At(t, "unknown")
  /\ conns' = [conns EXCEPT ![th[t].peer] = th[t].info]
  /\ Leave(t)
  /\ UNCHANGED <<pool, breaker, abandoned, calls>>

-----------------------------------------------------------------------------
(* Time *)

\* Five minutes without activity.
Age(p) ==
  /\ conns[p].healthy
  /\ conns' = [conns EXCEPT ![p].healthy = FALSE]
  /\ UNCHANGED <<pool, breaker, th, abandoned, calls>>

\* A pooled entry outlives pool_timeout, or its connection those five minutes.
AgePooled(p) ==
  /\ \/ pool[p].fresh /\ pool' = [pool EXCEPT ![p].fresh = FALSE]
     \/ pool[p].healthy /\ pool' = [pool EXCEPT ![p].healthy = FALSE]
  /\ UNCHANGED <<conns, breaker, th, abandoned, calls>>

BreakerTimeout(p) ==
  /\ breaker[p].state = "Open"
  /\ breaker' = [breaker EXCEPT ![p].state = "Due"]
  /\ UNCHANGED <<conns, pool, th, abandoned, calls>>

-----------------------------------------------------------------------------
(* The specification *)

Init ==
  /\ conns = [p \in Peers |-> NoConn]
  /\ pool = [p \in Peers |-> NoEntry]
  /\ breaker = [p \in Peers |-> NoBreaker]
  /\ th = [t \in Tasks |-> Away]
  /\ abandoned = {}
  /\ calls = 0

Connecting(t) ==
  \/ Admit(t) \/ Refuse(t) \/ Reuse(t) \/ RecordReuse(t) \/ Hang(t) \/ Miss(t)
  \/ PassLimit(t) \/ AtLimit(t) \/ InsertConnecting(t) \/ Record(t) \/ Drop(t)
  \/ \E info \in Outcomes : Land(t, info)

Next ==
  \/ \E t \in Tasks :
       \/ Connecting(t) \/ Unpool(t) \/ Stash(t) \/ InsertUnknown(t)
       \/ \E p \in Peers :
            \/ Connect(t, p, 1) \/ Connect(t, p, MaxRetries)
            \/ Recover(t, p) \/ Disconnect(t, p) \/ Clean(t, p)
            \/ \E status \in Statuses, measured \in BOOLEAN :
                 UpdateKnown(t, p, status, measured) \/ UpdateUnknown(t, p, status, measured)
  \/ \E p \in Peers : Age(p) \/ AgePooled(p) \/ BreakerTimeout(p)

Spec == Init /\ [][Next]_vars

-----------------------------------------------------------------------------
(* Properties *)

Info  == [status : Statuses, healthy : BOOLEAN, from : Froms] \cup {NoConn}
Entry == [status : Statuses, healthy : BOOLEAN, fresh : BOOLEAN] \cup {NoEntry}

TypeOK ==
  /\ conns \in [Peers -> Info] /\ pool \in [Peers -> Entry]
  /\ breaker \in [Peers -> [state : {"none", "Closed", "Open", "Due", "HalfOpen"},
                            failures : Nat, successes : Nat]]
  /\ th \in [Tasks -> [pc : PC, peer : Peers \cup {NoPeer}, tries : 0 .. MaxRetries,
                       info : Info, todo : SUBSET Peers]]
  /\ abandoned \subseteq Peers /\ calls \in 0 .. MaxCalls

\* A circuit is closed exactly while fewer failures than the threshold were
\* counted, and half-open only until enough trials succeeded, whatever late
\* results of overlapping connects and status updates it is given.
BreakerCounts ==
  /\ TypeOK
  /\ \A p \in Peers :
       /\ Closed(breaker[p]) <=> breaker[p].failures < FailureThreshold
       /\ breaker[p].state = "HalfOpen" => breaker[p].successes < SuccessThreshold

Checked == {p \in Peers : conns[p].from \in {"checked", "told"}}
Passed  == {t \in Tasks : th[t].pc \in {"insert", "connecting"}}

\* The limit is looked at before the entry is made and not again when the
\* outcome is inserted, which a disconnect may have come before.  So entries made
\* under the limit exceed it, but by no more than the other tasks that connect at
\* a time.  (Those reused or updated into the table are not held to it at all.)
LimitRace ==
  Cardinality(Checked \cup {th[t].peer : t \in Passed})
    <= MaxConnections + Cardinality(Tasks) - 1

\* An entry that connect made, and no caller of update_status told to, says
\* Connecting only while a connect to the peer waits, or after one was dropped
\* there: then it says so for good, or until the caller does something about it.
ConnectingInFlight ==
  \A p \in Peers :
    conns[p].status = "Connecting" /\ conns[p].from = "checked" =>
      p \in abandoned \/ \E t \in Passed : th[t].peer = p

\* A connect that waits for its own reading of an unfit entry waits for good: the
\* entry stays, and stays unfit, so that later connects to the peer hang as well.
HungForGood ==
  \A t \in Tasks : At(t, "hung") =>
    pool[th[t].peer].status # "none" /\ ~Reusable(pool[th[t].peer])

=============================================================================
