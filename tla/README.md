# A TLA+ development for QuDAG

QuDAG is a Rust workspace: a local DAG of messages with a QR-Avalanche consensus
instance, an overlay network, a handshake protocol, an exchange with a ledger, a vault
of secrets, node software and bindings. This directory holds TLA+ models of its core,
the TLC configurations that check them on small instances, and TLAPS proofs of their
main properties for every value of the constants. Everything is translated from the
code; comments and documents of the repository are only used to know what the code is
meant to do.

Contents: [1 inventory](#1-inventory), [2 plan](#2-plan),
[3 modules and code](#3-modules-and-code), [4 runs](#4-runs),
[5 where the code departs from its documentation](#5-where-the-code-departs-from-its-documentation),
[6 proofs](#6-proofs), [7 what is not modelled](#7-what-is-not-modelled),
[8 using it](#8-using-it).

## 1. Inventory

### 1.1 `core/dag`: the local DAG

**Dag** (`dag.rs`). State: the vertex map behind an async `RwLock`, the consensus
instance behind a mutex, a semaphore of `max_concurrent` permits. Operations:
`submit_message` (permit, write lock, three checks, consensus lock, insertion) and
`sync_state` (read lock of the other graph, clone, own write lock, conflict check,
validation of the union, commit). Several tasks are inside at once, on several
replicas, and each can be cancelled at each of its awaits. Correct when graphs stay
closed and acyclic, one vertex is admitted per id, nothing answered `Ok` is undone, the
consensus instance knows exactly what was admitted, permits and guards always come
back, and nobody waits for ever.

**QRAvalanche** (`consensus.rs`). State: a status and a confidence per vertex, the tips,
the votes, the voters found inconsistent, the conflicts, counters. Operations:
`process_vertex`, `record_vote`, `run_consensus_round` and `run_fast_consensus_round`
(rounds with sleeps in between), `detect_and_resolve_forks`,
`detect_byzantine_patterns`. One caller at a time (`&mut self`), but a run can be
dropped at a sleep, and fork resolution depends on the order of a `HashMap`. Correct
when tips, statuses and confidences agree, first votes stand, nothing becomes final
without support, a run's answer is what it recorded, and forks keep one branch.

**Graph / VertexStorage** (`graph.rs`, `node.rs`). State: a `DashMap` of vertices, an LRU
cache in front of it, a pruning queue, a map of edges. Operations: `add_node`,
`update_node_state`, `get_node`, `get_edges`, `prune`. Any number of threads, and every
operation is a series of separate lock acquisitions. Correct when parents of stored
vertices are stored, the cache tells the truth, answers never go back, edges are true,
final vertices can be found by a prune, and calls return.

**DAGConsensus** (`lib.rs`), **tip selection** (`tip_selection.rs`), **edges**
(`edge.rs`), **vertices** (`vertex.rs`): a facade with fork and parent checks and a
topological order, weights of tips, data types. One caller at a time; not modelled.

### 1.2 `core/network`: the overlay

**CircuitBreaker** (`circuit_breaker.rs`). State: a `RwLock<CircuitState>`, three atomic
counters, a sliding window behind another lock, the time of the last change. Operations:
`allow_request`, `record_outcome`, `reset`, three transitions. Correct when failures
open it, trials close it, one client makes each transition, and it never gets stuck.

**ConnectionPool** (`connection_pool.rs`). State: per peer a semaphore, a queue of idle
connections, a map of granted ones and a `Notify`; statistics behind a lock. Operations:
`acquire` (permit with a timeout, idle connection or new one or a wait), `release`, and a
maintenance task that cleans up, refills and counts. Any number of tasks, each of which
can be dropped at its awaits. Correct when permits are accounted for, the maximum holds,
no connection is in two hands, and calls return.

**ConnectionManager** (`connection.rs`). State: a table of connections, a pool of those
disconnected while healthy, a circuit breaker per peer (another type than the above), all
in `DashMap`s. Operations: `connect`, `retry_connect`, `recover_connection`, `auto_recover`,
`disconnect`, `update_status` with and without metrics, pool cleanup. Correct when the
limit is kept as far as the code can keep it, entries say what is going on, breakers count
what was reported, and nothing waits for itself unnoticed.

**Discovery**, **kademlia**, **routing**, **onion**, **obfuscation**, **dark and shadow
addresses**, **DNS**, **NAT traversal**, **secure transports**, **p2p**: event loops over
libp2p and sockets, cryptographic layers, registries; not modelled.

### 1.3 `core/protocol` and `core/vault`

**HandshakeCoordinator** (`handshake.rs`) with the **ProtocolStateMachine** it owns
(`state.rs`). State: sessions with a state, keys, a nonce, a version; the machine's
`current_state`. Operations: `initiate_handshake`, one handler for each of Init, Response
and Complete, `cleanup_sessions`. Its caller carries the messages, over a network that
loses, delays, reorders and repeats. Every handler verifies the signature of what it is given
and signs what it returns (`message.rs`), in a way that makes a message signed once fail
verification. Correct when sides that completed agree on the version and on the secret, and
when the machine says what the node did.

**Vault** (`vault.rs`) with **VaultDag** (`dag_storage.rs`). State: five maps (secrets,
labels to vertices, parents, children, times), a file, its `.tmp`, exports. Operations:
create, open, add, update, delete, export, import, each change followed by a save. The
program can crash at any step and writing can fail. Correct when what is reopened is what
was there, the graph hangs together, and the file is whole at any time.

**Node, persistence, synchronisation, RPC, versioning** (`core/protocol`),
**crypto** (`core/crypto`), **swarm** (`core/swarm`): not modelled.

### 1.4 `qudag-exchange`: rUv accounts

**Ledger** (`ledger.rs`, `account.rs`): accounts in a `DashMap`, `total_supply`,
`max_supply`; `create_account`, `mint`, `burn`, `transfer`, `transfer_with_fee`.
Correct when balances add up to the supply, the cap holds, and failed calls leave no
trace. **ConsensusAdapter** (`consensus.rs`): pending transactions with simulated votes,
verdicts, expiry. **StateManager / LedgerState** (`state.rs`): applies the confirmed
batch, records it, checkpoints, saves and loads. Correct when every submission is
executed at most once and in the end, failures cost the fee and no more, and rUv is
conserved. **FeeRouter** (`payout.rs`), **ImmutableDeployment** (`immutable.rs`),
**metering and fee model**, **front ends**: not modelled.

### 1.5 The rest

**MCP server**, **CLI**, **simulator**, **monitoring**, **benchmarking**, **WASM and npm
packages**, **integrations**. `PROJECT.json` lists every component with its status and, where
it is not modelled, the reason; section 7 sums them up.

### 1.6 How the parts interact

`Dag::submit_message` calls `QRAvalanche::process_vertex` under the graph lock;
`sync_state` does not tell the consensus instance. `Graph` is a separate store that
`DAGConsensus` could be put on. The network's clients ask a breaker before each request
and report after it; `ConnectionManager` does so with its own breakers inside `connect`.
`ConnectionPool` is used on its own. A `HandshakeCoordinator` drives the state machine of
its node with every handshake message, its own and those it answers. `Vault` turns each
change of its `VaultDag` into a save of the whole. `StateManager` owns a
`ConsensusAdapter` and the ledger: what the adapter confirms is drained from a hash map,
executed on the ledger one by one, and then cleared from the adapter.

## 2. Plan

The order was: the DAG first, as the repository is named for it, then what most threads
or failures reach.

| step | modules | models | status |
|---|---|---|---|
| 1 | `AppendOnlyDag`, `Dag`, `DagProofs` | what a DAG promises, and `dag.rs` | done, proved |
| 2 | `QRAvalanche`, `QRAvalancheProofs` | `consensus.rs` | done, proved |
| 3 | `GraphStore`, `GraphStoreProofs` | `graph.rs`, `node.rs` | done, proved |
| 4 | `CircuitBreaker`, `HandshakeProofs` | `circuit_breaker.rs` | done, proved |
| 5 | `LedgerOps`, `Ledger`, `ExchangeProofs` | `ledger.rs` | done, proved |
| 6 | `ConsensusAdapter`, `Exchange`, `ExchangeProofs` | exchange `consensus.rs`, `state.rs`, on `LedgerOps` | done, proved |
| 7 | `ConnectionPool`, `ConnectionPoolProofs` | `connection_pool.rs` | done, proved |
| 8 | `LabelStore`, `Vault`, `VaultProofs` | what a vault promises, and `vault.rs`, `dag_storage.rs` | done, proved |
| 9 | `Handshake`, `HandshakeProofs` | `handshake.rs`, `state.rs`, signatures of `message.rs` | done, proved |
| 10 | `ConnectionManager`, `ConnectionManagerProofs` | `connection.rs` | done, proved |

Each module `X` with variables has an `MCX` that gives its small instances. `LedgerOps` and
`ConsensusAdapter` are instantiated or extended by the modules that drive them. "Proved" is
said of the safety properties and refinements; liveness is model-checked (section 6).

What is left is listed in section 7 with its reasons. Two components would still repay a
module of their own: `dark_resolver.rs`, where registering a name takes three locks in
turn, and the file store of `persistence.rs`, on the pattern of `Vault`. Proofs that would
still repay their work are the safety cores of the liveness properties, on the pattern of
`HalfOpenHasProbe`: that some step of a call that is not `Stuck` can always be taken
(`ConnectionPool`, `GraphStore`, `Dag`).

## 3. Modules and code

The unit of interleaving is, everywhere, what the code does between two points where
somebody else can run: two awaits for tokio tasks (`Dag`, `ConnectionPool`), two lock
acquisitions, map accesses or atomic operations for threads (`GraphStore`,
`CircuitBreaker`, `ConnectionPool`, `ConnectionManager`), two writes to a file for a
program that may crash (`Vault`), one whole call for the `&mut self` types (`QRAvalanche`
splits its runs at their sleeps). Names follow the source where TLA+ allows. Operators
whose comment starts with *mutant* are variants of the code with a plausible bug; no
specification uses them, and each breaks the property that is paired with it in
`PROJECT.json`. `PROJECT.json` also maps every definition to its lines.

### 3.1 Dag

| code | model |
|---|---|
| `Dag::vertices` (public `HashMap` behind a lock) | `vertices[r]`, a set of vertices with one per id (`IsMap`) |
| the lock's guards | `writer[r]`, `readers[r]` |
| the semaphore | `permits[r]` |
| `consensus` behind its mutex | `tracked[r]`, `tips[r]` |
| a call in progress | `call[t]`, `pc[t]`, `snapshot[t]`, `outcome[t]` |
| `submit_message` 69-96 | `StartSubmit`, `AcquirePermit`, `AcquireWrite`, `RejectSubmit`, `PassChecks`, `Admit` |
| `sync_state` 99-137 | `StartSync`, `AcquireRead`, `CloneOther`, `AcquireSyncWrite`, `RefuseSync`, `CommitSync` |
| dropping the future at an await | `Drop` |

The map is a public field. The replicas of the constant `Foreign` therefore start with any
map at all; all others start as `Dag::new` leaves them. `process_vertex` and the insertion
are one action because no await lies between them. A body stands for payload and timestamp;
the signature is always empty. The validation loop of `sync_state` resolves vertices whose
parents are resolved until nothing changes; `Resolvable` says what it computes: the graph is
closed and every nonempty part of it has a vertex with no parent in that part.

`AppendOnlyDag` is the abstract specification: graphs of owners that only grow, by one
sound step of one owner at a time. `Dag` implements it for the replicas outside `Foreign`
(`RefinesAppendOnlyDag`).

### 3.2 QRAvalanche

Thresholds and shares are fractions in millionths, rounded down. Where a share equals one minus a
threshold, f64 rounding decides whether the code's `<=` holds, so that there both outcomes are
allowed (`refuses` and `spares` overlap). `ProcessVertex`,
`RecordVote` and `ContradictingVote` (the two outcomes of `record_vote`), `AddParticipant`,
`StartRun`, `FullRound`, `NobodyAsked`, `FullEnd`, `FastRound`, `FastPass`, `FastEnd`
(the rounds and the ends of the two kinds of run), `DropRun` (the caller gives up at a
sleep), `DetectAndResolveForks` and `DetectByzantinePatterns` are the operations. The
answers of simulated participants are the constant `Ballot`; `Similar` holds the pairs that
`vertices_conflict` finds in conflict. Fork resolution takes every order in which the
`HashMap` can yield the pending vertices (`place`): each vertex opens a conflict set or joins
that of the first earlier opener it conflicts with (`IsGrouping`), and each set keeps its
`Winner`. The time limit of a run is the choice to end it
at any round. Everybody is sampled, which the code does for up to ten participants
(`QRAvalancheAssumption` asks for it). `Polled` bounds which vertices votes and runs are called for.

### 3.3 GraphStore

`th[t]` is where a thread is in its call. A lookup is up to three steps (cache, main map
with the fill of the cache, answer), an insert five (capacity, store, cache, queue, edges).
`ReadMain` reads and fills in one step because the `DashMap` guard is held meanwhile.
`LockQueue`, `Pop` and `UnlockQueue` are the prune. `Pop` shows what the code does at a
`Final` vertex: the read guard of `if let Some(node) = self.vertices.get(&hash)` is still
alive when `remove` asks for the write guard of the same shard. The thread stays at
`removing` for good, the queue stays locked, and nobody writes to that shard any more
(`ShardFree`). Any thread may add or update any vertex; `Given` are the states a vertex may have
when it is handed to `add_node`, and `Shard` says which shard a hash falls into. `raced` is a
history variable: the vertices that two overlapping calls were about to write (`Replacing`), and the
pairs of a parent and a child whose adds overlapped (`Adding`). For the vertices and pairs
outside it, `IndexesAgree`, `AnswersNeverRegress` and `EdgesComplete` promise what the code does
without such a race.

### 3.4 CircuitBreaker

A client asks (`Ask` and what follows), sends, and reports (`Record` and what follows);
`th[c].pc` is the next lock section or atomic operation. `slock` is `state.write()` held over
a transition. `ripe` says whether the timeout has passed since the last change of state
(`Elapse` is the clock); any of the oldest outcomes may have left the window when a new one
is recorded. `probes` is a `usize` and wraps at `UsizeMax`. Counters that are only compared
with their thresholds saturate there (`Capped`), which changes no comparison. The rate of an
empty window is 0 (`TooManyFailures`), which only a `FailurePercent` of 0 reaches.

### 3.5 Ledger, ConsensusAdapter, Exchange

`LedgerOps` has one operator per method of the ledger: it takes a ledger and returns the
outcome (`ok`, `err`, or `hung`) and the ledger the call leaves, including what a failing
call has already written. A balance of `n` is a set of `n` coins, so that the sum that
`check_invariants` computes is a cardinality (`Total`). `Hung` is the second guard on one shard
of the `DashMap` in `transfer`. `Ledger` is the machine that takes any such call. Account
freezing and agent statuses have no effect through `Ledger`'s methods; fees are inputs.

`ConsensusAdapter` is the pending map: submission (which restarts a known id), rounds of
simulated votes, `clear_finalized`, and the clock passing an expiry.

`Exchange` composes the two: its variables `pending`, `expired` and `submits` are those
of an instance `CA` of `ConsensusAdapter`, and `Execute` and `Apply` run `LedgerOps`
on the ledger of `LedgerState`. `Process` is `process_consensus_transactions`: the batch in
any order, errors logged and skipped (`Batch(order)[k]` is the state after `k` transactions),
then the checkpoint test, then the clearing. The genesis ledger is any whose supply is in its
accounts, as `genesis` makes accounts and mints into them.
`Save` and `Restart` are `save_state` and the process starting again from the file, also when it
was killed because a batch hung. The file holds the supply but not the accounts (`serde(skip)`);
it cannot be read back when the history is empty, and as it is written in place it may have been
torn by the end of the process (`Torn`). `applied` counts executions; the code has no such counter.

### 3.6 ConnectionPool

| code | model |
|---|---|
| `available` (`DashMap` of queues) | `known`, `queue[p]` |
| `active` (a map that is only added to) | `granted[p]`, its size |
| the semaphore of a peer | `permits[p]` |
| the `Notify` of a peer | `signal[p]`, with at most one notification stored |
| `is_connection_valid` and time | `expired`, `Expire` |
| `acquire` | `Acquire`, `TakePermit`, `PermitTimeout`, `Look`, `FinishReuse`, `CountIdle`, `CountGranted`, `Create`, `FinishCreate`, `Park`, `WaitTimeout` |
| dropping `acquire` at an await | `Drop` |
| `release` | `Release`, `CountOne`, `DecideKeep`, `Destroy`, `Push`, `Notify`, `FinishRelease` |
| the maintenance task | `Tick`, `CleanOne`, `TotalOne`, `Grow`, `Measure`, `MeasureOne` |

Three guards are held over other work: that of a shard of `available` while a connection is
taken from it and the statistics are wanted, that of the iterator of the same map, and that
of the statistics. The wait for a permit is a `select`: its timer may fire also when a permit is ready
(`PermitTimeout`). Nobody stores the guards; the program counters of `th` and `m` tell who has one
(`Taking`, `Growing`, `StatsFree`). Peers are numbered in the order in which the map is
iterated, and `Shard` says which share a shard.

### 3.7 Vault and LabelStore

`mem` is the open vault with its maps, `file`, `tmp` and `exported` are files: absent,
partly written, or a snapshot. `Snapshot` and `Reload` are what `serialize` keeps and
`deserialize` builds from it: the index from the labels, the children from the parents.
`Insert` is `add_secret` with the categories it makes on the way (`parse_categories` is the
constant `Categories`), `Update` and `Remove` the other two changes. Every change goes
through `BeginWrite`, `FinishWrite` and `Rename`; at each of these the file system may
refuse (`WriteFails`) and the program may crash (`CloseOrCrash`). An export is written in place, and
when that fails (`ExportFails`) a part of it may be left with the vault still open. `ImportOne` takes the
labels of an imported file in any order, as a `HashMap` yields them.

`LabelStore` is the abstract specification: contents on disk, and contents one program sees,
which it changes one label at a time and commits as a whole. `Vault` implements it under the
refinement mapping that forgets vertices and keeps what is under each label
(`RefinesLabelStore`).

### 3.8 Handshake

`own[i]` is the session of handshake `i` at its initiator, `ans[r]` a session that answers
it, one for each delivery of its Init. The coordinator only turns messages into messages; its
caller carries them and picks the session they are for, as neither a Response nor a
Complete names it. Messages are therefore not a variable: what the sessions are in tells
which messages were sent, and each may be delivered at any later time to any session of the
node (`RecvInit`, `RecvResponse`, `RecvComplete`), as often as is wanted, or never. `Cleanup`
is `cleanup_sessions` with any set of sessions too old. `KemSecret` and `SessionKeys` give
keys by who made them; a decapsulation with the wrong key gives another secret. A message carries its
`sender_key_hash` and what that was when it was signed: `Sign` signs first and sets the hash then,
`Verifies` signs again with the hash in it and compares. A message signed once therefore does not
verify, and one signed twice does. `again` is the set of nodes whose caller signs every message
once more with the session's public API before it carries it; it may be empty, and in this
repository nobody does it. `machine[n]`
is `current_state` of the state machine, `Transitions` its table, `Starts` the states it may be in
when it is handed over.

### 3.9 ConnectionManager

`conns[p]`, `pool[p]` and `breaker[p]` are the entries of the three maps. A task in `connect`
goes through the breaker, the pool, the limit, the insertion of a `Connecting` entry, the
wait and the insertion of the outcome (`Admit`, `Reuse`, `PassLimit`, `AtLimit`,
`InsertConnecting`, `Land`, `Record`), and may be dropped where it waits (`Drop`). `Hang` is the
removal of an unfit pooled entry under the guard of its own lookup. `Recover` and `Unpool`
are `recover_connection`, which `retry_connect` and `auto_recover` come down to; `Disconnect`,
`Stash`, `Clean` and the `Update...` actions are the other operations. `update_status` takes any
status: `Connecting`, `Connected`, or `Down`, which stands for the three others, as no access to the
maps tells these apart. What a wait ends in (`Outcomes`) may be unhealthy at once, when it took
very long. Entries carry where they come
from (`from`), which the code does not record and `LimitRace` needs; "told" marks an entry of
`connect` that `update_status` made `Connecting`, which `ConnectingInFlight` does not speak of;
`abandoned` likewise.

## 4. Runs

Ten runs pass; `breaker_stuck` and `handshake_verify` show disagreements (section 5). Bounds only stop the
model: they are guards on submissions, calls, votes, runs, resets, changes and restarts,
named in the constants.

| run | instance | states | what it shows |
|---|---|---|---|
| `dag` | 3 tasks, 2 replicas, 5 messages (two versions of a root, a child, a self-parent, a vertex of two parents), 2 permits | 459 389 | `GraphSound`, `AnswersTrue`, `EndsClean`; under fairness `CallsReturn`; the refinement of `AppendOnlyDag` |
| `qra` | 3 vertices in a chain of conflicts, 2 voters, 2 votes, 1 run of up to 12 rounds | 667 994 | `TypeOK`, `TipsArePending`, `RecordsStand`, `SupportAtFinality`; `ForkHasSurvivor` for every order |
| `graph` | 3 vertices in two shards, 2 threads, capacity 2, cache of 2, 4 calls, vertices given as `Pending` or `Final` | 1 323 850 | `LinksTrue`, `IndexesAgree`, `AnswersNeverRegress`; `CallsReturn` |
| `breaker` | 2 clients, 1 reset, windows of 3, thresholds 2 and 1, 70% | 169 290 | `NoFailureMissed`, `HalfOpensOnce`; `CallsReturn`, `HalfOpenResolves` |
| `breaker_stuck` | 1 client that keeps asking, success threshold 2 | 175 | `HalfOpenResolves` fails |
| `ledger` | 3 accounts, two in one shard, cap 5, u64::MAX = 6, amounts 0 to 3 and 6 | 407 | `BooksBalance`, `FailureChangesNothing` |
| `exchange` | 3 accounts, 7 transactions of which several fail, 3 submissions, 1 restart, fewer rounds than votes wanted, two accounts in one shard, history and checkpoints of 2 | 182 785 | `Money`, `ExecutedPerSubmission`, `ValidityDecides`; `Settles` |
| `pool` | 1 peer, 3 tasks, 3 connections, sizes 2 | 90 462 | `PermitsConserved`, `NeverOverMax`, `OneHolder`; `CallsReturn` |
| `vault` | labels `a`, `b`, `a/b/c`, 3 vertex ids, 6 changes | 626 068 | `ReopensAsIs`, `HangsTogether`; the refinement of `LabelStore` |
| `handshake` | 2 nodes, 3 handshakes that cross, one Init delivered twice, 2 configurations, 3 states to start from, callers that sign again or not | 209 392 | `SameSecrets`, `CompletedPair`, `MachineFollows`; `HandshakeCompletes` where both callers sign again |
| `handshake_verify` | 1 handshake, its Init delivered up to twice | 1 674 | `InitAnswered` fails |
| `manager` | 2 tasks, 3 peers, limit 1, thresholds 2, 4 calls; up to renaming | 3 811 538 | `BreakerCounts`, `LimitRace`, `ConnectingInFlight`, `HungForGood` |

The type invariants of `Dag`, `GraphStore`, `Ledger`, `Exchange`, `ConnectionPool`, `Vault`,
`Handshake` and `ConnectionManager` are conjuncts of the properties above (`EndsClean`,
`IndexesAgree`, `BooksBalance`, `Money`, `PermitsConserved`, `ReopensAsIs`, `SameSecrets`,
`BreakerCounts`); that of `QRAvalanche` is a property of `qra`.

*Why these bounds.* `dag`: a race needs two tasks on one id and the interference of a sync
needs a third; with two permits two submissions race for the lock while a third queues; a
self-sync and two opposite syncs need two. Five versions of three ids give every kind of
conflict and a vertex with two parents, and the theorems cover the rest, maps filled by hand
(`Foreign`) included. `qra`: one of two votes is between the verdicts, so all of them occur, and
a fast run may go past the tenth round, after which it sleeps; conflict is not transitive,
which takes a chain of three. A run that is rejected because it has lasted more than ten rounds is
covered by the theorems only. `graph`: capacity and cache are smaller than the number of vertices, so
pruning and eviction happen; four calls add all three vertices and update one, or write
one vertex by two threads at once, and a vertex added as `Final` needs no call to become so. `breaker`: two clients show every
race between a check and its use; the window of three lets a series start, continue
and lose its oldest outcome to the clock. `ledger`: amounts on both sides of the cap and
of the integer limit. `exchange`: batches of one, two and three with transactions whose
success depends on the order; with fewer rounds than votes wanted a transaction expires before it
is confirmed and is polled again; a transfer between two accounts of one shard hangs a batch, which a
restart ends. `pool`: two tasks race for the last permit while a third holds
or waits; a third connection is one too many; several peers only meet in a shard of the
map and in the maintenance task, which the theorems cover and the run, with one peer,
shows for the peer itself. `vault`: a secret below two categories that are labels themselves
is where deletion has to find other parents, and six changes delete both categories in either
order, with exports and imports in between. `handshake`: two handshakes of one node and
one of the other share two machines; two deliveries of one Init make two answering
sessions. `handshake_verify`: one handshake shows what each does. `manager`: a limit of one is raced for by two tasks on three peers; three calls
make a breaker open and a fourth meets it.

*Deadlock* is checked for `breaker` and `breaker_stuck`, where something can always happen.
In the others the bounds, finished calls, or a call that hangs as the code does
(`graph`, `ledger`, `exchange`, `pool`, `manager`) end the model.

*Fairness.* `Dag`: weak fairness of each task's own steps (`Step`), as tokio polls every task
whose lock or permit is available; nothing obliges a task to start or to be dropped. Locks
and permits are never contended for ever in the instance, because each task makes one call.
`GraphStore`: weak
fairness of each thread inside its call; the calls are bounded. `CircuitBreaker` and
`ConnectionPool`: strong fairness of each client, task and the maintenance inside a call, as
the locks are `parking_lot`'s, which hand themselves over to a waiting thread after a bounded
time, and timers fire; that who acquired a connection ever releases it is not assumed. `BusySpec` of
`breaker_stuck` adds that the clock runs and the client keeps asking, so that the lock-out
is not for want of trying. `Handshake`: weak fairness of the delivery of each message to the
session it belongs to, a promise of the caller and its network; all else may be done to it as well.
`handshake_verify` has the same fairness, so its Init is not unanswered for want of delivery.
`Exchange` and its `ConsensusAdapter`: weak fairness of rounds and of processing, which is a
promise of the application around them: the library has no task of its own. There the
fairness of `Process` is written out (`CanProcess`), which TLC evaluates much faster.
`QRAvalanche`, `Ledger`, `Vault` and `ConnectionManager` have no liveness property: their calls hang or return
by what one call does (a run of rounds by its limit), and the models show which.

*Conditions in the properties.* Overlapping writers of one vertex overwrite each other (section 5);
`GraphStore` lets them, and what `CacheCoherent` and `AnswersNeverRegress` say of a vertex, and
`EdgesComplete` of a parent and a child, stops at those in `raced`. `ParentsPresent`, `EdgesTrue` and
`FinalIsQueued` have no such condition. `CallsReturn` of `GraphStore` holds unless
a prune has met a `Final` vertex, and that of `ConnectionPool` unless the pool has locked up in one
of the two ways `Stuck` names. `HalfOpenResolves` holds with success threshold 1 and
requests that are always reported. The conservation in `Money` holds as long as the process is not
started again from its file, and `Settles` (`Interrupted`) as long as it is neither killed nor hangs in a
transfer between two accounts of one shard, which `exchange` has and which leaves the rest of the
batch undone for good. In `SameSecrets` a session is `Completed` only if both callers sign again, and
`HandshakeCompletes` asks it of them. `CompletedPair` promises the shared secret when an Init was
delivered once and its Response was given to its own session. `LimitRace` counts the entries
made under the limit. `ConnectingInFlight` excepts the entries that `update_status` was told are
`Connecting`.

## 5. Where the code departs from its documentation

Two runs end in a counterexample to a statement of the repository:

* `breaker_stuck`: the test `test_circuit_breaker_closes_after_success` (`circuit_breaker.rs:669-675`)
  expects a second trial to be allowed. The request that half-opens the circuit is not
  counted, its report is subtracted all the same, the counter wraps to `usize::MAX`, and
  every further trial is rejected.
* `handshake_verify`: the compliance test (`protocol_compliance_tests.rs:157`) asserts of a message just
  signed that "Signature verification must succeed". `Message::sign` (`message.rs:310-323`) signs while
  `sender_key_hash` is `None` and sets it afterwards; `verify` (328-349) clears only the signature, so it
  looks at other bytes and fails. `process_handshake_init` (`handshake.rs:396`) therefore refuses what
  `initiate_handshake` made: no handshake gets past its Init, unless its messages are signed twice.

More can be read off the models, and is why some properties carry a condition or were not
stated:

* `QRAvalanche`: a `Final` vertex can become `Rejected` by a later vote or run
  (`RecordVote`, `FullRound`); `finalized_count` counts every further vote for a final vertex
  (`Finalize`); the answer that exposes a voter still counts in its round (`Query`); the
  winners of two conflict sets may conflict and both stay pending (`DetectAndResolveForks`).
* `Dag`: `tips` keeps vertices that have children (`Admit`).
* `GraphStore`: "Only remove if vertex is in Final state" (`graph.rs:137`), but the prune that
  meets a `Final` vertex waits for its own read guard, with the queue locked; nothing is ever
  removed, and every later insert of any vertex waits for the queue. Overlapping adds of one
  vertex both store it (225), overlapping updates take it along transitions `update_state`
  forbids (281), a child added between its parent's insert and the parent's edge entry loses its
  edge, and nothing enforces `max_vertices` (107).
* `CircuitBreaker`: more trials than `half_open_max_requests` (213); a report is judged by the state
  at the report, not at the request (260); a client half-opens or closes a circuit on what it
  read before another one opened it again.
* `Ledger`: `transfer` hangs when both accounts fall into one shard.
* `ConsensusAdapter`: an expired transaction is polled again and decided anew.
* `Exchange`: "Transaction nonce (for ordering and replay protection)" (`transaction.rs:101`), but no
  nonce is compared (`state.rs:238`), so a transaction submitted again after its batch is
  executed again, once per submission (`ExecutedPerSubmission`); a file with an empty
  history cannot be loaded; a restart loses the accounts and keeps the supply;
  `verify_integrity` rejects a state after its first transaction (`state.rs:389`); checkpoints
  depend on the call, not on the height.
* `ConnectionPool`: a permit spent on a grant never comes back (209), so after `max_size` grants a
  peer's calls time out, also where `test_pool_limits` (628-630) expects a connection after a
  release; `maintain_minimum_size` asks for an entry of a map it iterates (422-427), and the
  statistics are taken and wanted in opposite orders (183, 444): `Stuck`.
* `Vault`: an import that meets a secret below a category before the category itself makes
  a blank category, and then skips the real one as a duplicate; `secret_count` does not
  count the categories made on the way but is lowered when one is deleted; after a failed
  save the memory is ahead of the file.
* `Handshake`: what follows is about messages signed twice. A machine enters `InProgress` on receiving an
  Init, where its comment says "sent init, waiting for response" (`state.rs:74`); no machine that was `Initial` or `Waiting` gets to `Active` by one handshake; an
  initiator prefers `CURRENT` even where its own list lacks it, and is then refused; a
  Response that fails a check leaves the session `InitSent`; a session is stored before the state
  machine is asked, so a refused Response leaves it behind (`handshake.rs:473`).
* `ConnectionManager`: an unfit pooled entry makes `connect` hang for good and with it every later
  call to the peer and every pool cleanup (1351, 1366); a `Failed` entry counts towards the
  limit, is healthy, is pooled and later reused with `Ok`; the outcome of a connect is inserted after a
  `disconnect` came in between; reuse and `update_status` ignore the limit; results reported in
  `Open` are ignored where a comment says they cannot come (735); `auto_recover` acts on a
  stale look.

## 6. Proofs

Theorems hold for every value of the constants that satisfies the module's `ASSUME`, which
TLC evaluates in every run. Nothing else is assumed.

**`DagProofs`.** For any replicas, tasks, messages, permits and any `Foreign`. Soundness of a
graph is not inductive: the step that inserts only knows what was checked several awaits
ago. `IndInv` adds that a task past its checks holds the write guard (`GuardHeld`), that what
it checked still holds (`ChecksStand`), and that snapshots of honest replicas are sound
(`MapsAndSnapshots`). Two lemmas about graphs carry it: inserting a fresh vertex with known
parents keeps a graph sound (`InsertSound`), and so does the union of two sound graphs that
agree on common ids (`UnionSound`). From it `GraphSoundAlways`, `AnswersTrueAlways` (graphs
only grow, and an admitted id was not there) and `Refinement`: initial states map to
initial states, and each step to a growth of one graph or to a stutter. `EndsCleanAlways`
counts permits and their holders.

**`QRAvalancheProofs`.** For any vertices, voters, ballots, conflicts, thresholds and bounds.
`IndInv` joins the types it needs with `TipsArePending` and with the shape of a run; there is
a lemma for the decisions, one for the steps of runs and one for the rest, and from it
`TipsArePendingAlways` and `RecordsStandAlways`. `SupportAtFinalityAlways` needs more: every
number a decision looks at must be backed by votes, and a fast run ends on a share of an earlier
round. `Counts` gives the ranges of the records, and says that the share a fast run carries from
round to round is no more than that of the votes in its vertex's record (`Backed`); shares
are rounded down in fixed point, so one that reaches a threshold has the votes
(`ShareBounds`, `ShareIsSupport`). In full runs the momentum of earlier rounds is no vote, but it
weighs a tenth (`Smoothed`) and the last round must reach alpha by itself, which leaves it at
least 85% of beta (`FullRoundCounts`, by cases on beta). `TypeCorrect` follows from the same invariant. `ForkHasSurvivorAlways` is about one step: in
each conflict set the value of its vertices, with the place in the map to break ties, has a
first element (`WinnerExists`, by the least number), so no set loses all of its vertices,
whatever the order of the map.

**`GraphStoreProofs`.** For any number of threads, any of which may add or update any vertex in any
state. `Knows` says what a call has learnt at each point (which parents it has seen stored,
that its vertex is stored); since nothing leaves the store it stays true, and cached copies are
copies of stored vertices. With the edges a call has still to make, and the adds it overlaps with,
that gives `LinksTrueAlways` (`EInv`, whose steps are `EdgesStep`). For the cache, `Overlaps` says that two
calls about to write one vertex have put it in `raced`, which only grows. `AInv` adds
that the cache has an entry per vertex and no more than its depth (`Lru`), that the state a writer
of a vertex not in `raced` has read is still the one stored when it stores the next (`Relies`: nobody
else writes it), and that a cached copy of such a vertex is the stored state unless its writer is between
the two inserts, and older than it even then (`Copies`). One lemma says what any put does to what would be
answered (`PutStep`), one what a store does. Hence `IndexesAgreeAlways` and
`AnswersNeverRegressAlways`.

**`ExchangeProofs`.** First the ledger, for any set of accounts, finite or not, any caps and
amounts. Sums are cardinalities of sets of coins: a credit adds `n` coins, a debit takes `n`
away (`CreditAdds`, `DebitRemoves`), and no account holds more than the total
(`HoldingBelowTotal`), which is why the credit after a debit cannot overflow and the burn
after a transfer cannot fail. One lemma per operation (each takes a `Solid` ledger to one, and
leaves it alone when it fails), then `BooksBalanceAlways` and `AllOrNothing`.

Then the state manager on top of it, for any transactions, thresholds above a half, history
and checkpoint limits and numbers of restarts. The invariant has three parts. `MoneyInv`: the
ledger is `Solid` but for what a restart has cost, as the file keeps the supply and not the
accounts, and the file holds a state of the right shape. It is kept through a batch by what
executing one transaction does (`ExecuteDoes`: who pays, and what it may cost) and by
induction over the positions of the batch, done with a set of positions that holds 0 and with
each its successor (`UpTo`, `BatchMidway`), since the induction theorems of the library cannot be used.
`Budget`: what was executed and what the adapter still knows are together at most what was
submitted, because each execution uses up an entry; this is why a retry of a hung or failed
batch repeats nothing. `Verdicts`: a transaction that was always invalid has no vote for it, one
that stayed valid none against. Hence `MoneyAlways`, `ExecutedPerSubmissionAlways`
and `ValidityDecidesAlways`.

**`ConnectionPoolProofs`.** For any tasks, peers, shards and sizes. Permits in the semaphore,
calls that hold one, and grants add up to `max_size` because each step moves one from a place
to the next, drops at awaits included (`PermitsConservedAlways`). Every connection of a
peer has a grant behind it, and every one being made a permit; so their number is bounded by
the same sum, whatever the stale counts said (`NeverOverMaxAlways`). The program counters say
which tasks have a connection, and a connection is in one place (`OneHolderAlways`).

**`VaultProofs`.** For any labels and categories (of which those before a slash have none of
their own), values and ids. A sound vault is one whose index and children follow from its
labels and parents, whose secrets hang on the root or on categories that hang there, and
whose labels are unique. Each operation keeps that (`Inductive`) and does to the contents what
`LabelStore` says; a file holds part of a snapshot or the snapshot of a sound vault, and the
temporary file is whole before it is renamed. Hence `ReopensAsIsAlways`,
`HangsTogetherAlways` and `Refinement`.

**`HandshakeProofs`.** For any nodes, handshakes, repetitions, configurations and initial
states of the machines, and for any set of callers that sign again. The invariant says of each session what it took to get into its
state (which messages had been sent, which versions were compared) and of each machine how far
the sessions of its node have taken it; that an answer exists only where the initiator's caller signs
again (`SignedAgain` says that no other message verifies). `SameSecretsAlways`, `CompletedPairAlways`,
`MachineFollowsAlways`.

The same module holds the proofs about `CircuitBreaker`, for any number of clients and resets
and any thresholds. `NoFailureMissed` speaks of moments when nobody is inside the breaker;
`BreakerInv` says of all moments that a closed circuit that must be opened has a client that
`Deals` with it: one whose outcome made it so, on its way to opening the circuit or
clearing the count, or a reset that has not cleared the count yet. `Resetting` adds what a
reset knows of the cells it has passed. Hence `NoFailureMissedAlways`; `HalfOpensOnceAlways` is a
step property. `HalfOpenHasProbe` is the safety core of `HalfOpenResolves`: with success
threshold 1, a half-open circuit has a client whose outcome decides it. All of them rest on the
lock discipline in `BreakerTypeOK`: only one client at a time is inside a transition.

**`ConnectionManagerProofs`.** For any tasks, peers, limits and thresholds. For `LimitRace` each entry
made under the limit and each task past the look at it is counted: the last one to pass saw fewer
than the limit, and only the other tasks can have come in since. The invariant also
says which entries a task at each point has made, and that readers keep the entry they read.
`BreakerCountsAlways`, `LimitRaceAlways`, `ConnectingInFlightAlways`, `HungForGoodAlways`.

Every invariant, action property and refinement that a run checks is the conclusion of a
theorem. Only model-checked are the liveness properties, which the prover cannot reach:
`CallsReturn` (`dag`, `graph`, `breaker`, `pool`), `HalfOpenResolves`, `Settles` and
`HandshakeCompletes`; and what a fold computes for inputs of every length (the totals of
`ConnectionPool`, which no theorem needs).

## 7. What is not modelled

Inside the modelled parts:

* everywhere: metrics and statistics beyond the locks they take, logging, time as a quantity,
  payload bytes, hashes and signatures (but for what `Message::sign` and `verify` look at);
* `QRAvalanche`: f64 arithmetic: a share is fixed point, and on which side of a threshold one falls that
  equals it is left open (`refuses`, `spares`); `advanced_fork_resolution`, and the sampling distance: its
  square overflows (`consensus.rs:667`), which panics in a debug build and wraps in a release build,
  where it only orders participants that, up to ten of them, are all taken;
* `Graph`: `get_edges` (read only) and `would_create_cycle` (never called);
* `circuit_breaker.rs`: `CircuitBreakerManager`, a map of independent breakers;
* the exchange: the `no_std` variants of the ledger, `restore_from_checkpoint` (the decoding of
  `load_state`), file system errors;
* `ConnectionPool`: shutdown, a flag that calls look at first;
* `Vault`: queries, encryption, loss of power (the code does not flush), and two programs on one file,
  which nothing locks: the second save overwrites the first, and both write the same `.tmp`.
  Labels that begin with a slash or repeat a part (`/x`, `a/a/x`) are excluded;
* `Handshake`: transitions, sessions and timeouts of the state machine that other callers ask for,
  which no code outside tests combines with handshakes; refused payloads, which have no effect;
* `ConnectionManager`: streams, warming, load balancing and quality scores beyond healthy or not.

Whole components:

* sequential code (`&mut self` or pure) whose states a unit test walks through, or that computes
  in floating point: `DAGConsensus`, tip selection, vertices, payouts, deployment, metering and fees,
  accounts, protocol versions;
* I/O and external services: discovery, NAT traversal, DNS, secure transports, front ends, CLI,
  MCP server, simulator;
* cryptography and random choice: `core/crypto`, routing, onion layers, obfuscation;
* code nothing calls: swarm, most of the WASM packages and integrations;
* measurement: monitoring, benchmarking;
* registries and stores that could be modelled in the same way and are not yet: dark and shadow
  addresses (`dark_resolver.rs`, `shadow_address.rs`), the node's file store (`persistence.rs`)
  and synchronisation.

## 8. Using it

`tlc -workers 2 -config Dag.cfg MCDag` (each `.cfg` is checked with the `MC` module
`PROJECT.json` names for it); `tlapm DagProofs.tla` and likewise for the other seven proof
modules. Every run finishes within minutes on two cores.
