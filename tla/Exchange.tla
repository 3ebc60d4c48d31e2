------------------------------ MODULE Exchange ------------------------------
(***************************************************************************)
(* StateManager (qudag-exchange/core/src/state.rs): it owns the ledger     *)
(* state and the ConsensusAdapter, and applies what the adapter confirmed. *)
(* Its methods take &mut self: one call at a time.  The process may save   *)
(* its state to the state file, and die at any time, in the middle of a    *)
(* call too, and start again from that file.                               *)
(*                                                                         *)
(* The state root is a hash of the serialized state; what matters of it is *)
(* whether verify_integrity, which hashes the state without a root, finds  *)
(* it again.  Serializing skips the account map (serde(skip)), and skips   *)
(* an empty history in a format that cannot tell (bincode), so such a file *)
(* does not deserialize.                                                   *)
(***************************************************************************)
EXTENDS LedgerOps, Sequences, SequencesExt

CONSTANTS Tx, LowFee, Expiring, Num, Den, SampleSize, MaxRounds, MaxSubmits,
          What,            \* [Tx -> Payload]
          Unpriced,        \* transactions past a max_units of the meter
          Genesis,         \* the ledger genesis() starts from
          Interval,        \* checkpoint_interval
          MaxHistory,      \* 1000 in add_transaction_record
          MaxCheckpoints,  \* 10 in create_checkpoint
          MaxRestarts, MaxIdle   \* bounds: restarts, and calls with nothing to apply

Charged == {"transfer", "burn", "update"}   \* Transaction::sender is Some
Payload == [kind : Charged \cup {"mint", "create"}, from : Account,
            to : Account, amount : Amount, cost : Amount, nonce : Nat]

ASSUME ExchangeAssumption ==
  /\ What \in [Tx -> Payload] /\ Unpriced \subseteq Tx
  /\ LowFee \subseteq Tx /\ Expiring \subseteq Tx
  /\ Num \in Nat /\ Den \in Nat /\ Num <= Den /\ Den < 2 * Num
  /\ SampleSize \in Nat \ {0} /\ MaxRounds \in Nat \ {0} /\ MaxSubmits \in Nat
  /\ Genesis \in Ledgers
  \* genesis() makes accounts and mints into them.
  /\ IsFiniteSet(Coins(Genesis.balance)) /\ Total(Genesis.balance) = Genesis.supply
  /\ Interval \in Nat /\ MaxHistory \in Nat \ {0} /\ MaxCheckpoints \in Nat \ {0}
  /\ MaxRestarts \in Nat /\ MaxIdle \in Nat

VARIABLES pending, expired, submits,   \* the ConsensusAdapter
          ledger,
          height,       \* metadata.height
          history,      \* recent_transactions: [tx, result]
          checkpoints,  \* the heights of the checkpoints
          root,         \* "none", "sound", or "stale": verify_integrity rejects it
          saved,        \* the state file: <<its content>>, <<Torn>> or NoFile
          phase,        \* "up"; "hung" in a call; "dead" for want of a usable file
          applied,      \* how often each transaction was executed (not in the code)
          restarts, idle

adapter == <<pending, expired, submits>>
state == <<ledger, height, history, checkpoints, root>>
vars == <<adapter, state, saved, phase, applied, restarts, idle>>

CA == INSTANCE ConsensusAdapter

NoFile == <<>>
Torn == [whole |-> FALSE]
Image == [whole |-> TRUE, supply |-> ledger.supply, height |-> height, history |-> history,
          checkpoints |-> checkpoints, root |-> root]

Record == [tx : Tx, result : {"ok", "err"}]

TypeOK ==
  /\ CA!TypeOK
  /\ ledger \in Ledgers
  /\ height \in Nat
  /\ history \in Seq(Record) /\ Len(history) <= MaxHistory
  /\ checkpoints \in Seq(Nat) /\ Len(checkpoints) <= MaxCheckpoints
  /\ root \in {"none", "sound", "stale"}
  /\ phase \in {"up", "hung", "dead"}
  /\ saved \in {NoFile, <<Torn>>} \/ saved[1].history \in Seq(Record)
  /\ applied \in [Tx -> Nat]
  /\ restarts \in 0..MaxRestarts /\ idle \in 0..MaxIdle

\* LedgerState::new, which has no root and fills its ledger by direct calls, or
\* LedgerState::genesis, which ends with the first update_state_root.
Init ==
  /\ CA!Init
  /\ ledger = Genesis
  /\ height = 0 /\ history = <<>> /\ checkpoints = <<>>
  /\ root \in {"none", "sound"}
  /\ saved = NoFile
  /\ phase = "up"
  /\ applied = [t \in Tx |-> 0]
  /\ restarts = 0 /\ idle = 0

-----------------------------------------------------------------------------
(* Executing a transaction                                                 *)

\* execute_transaction, after the fee: a failure returns the ledger as the
\* steps before it left it.
Perform(l, p) ==
  CASE p.kind = "transfer" -> Transfer(l, p.from, p.to, p.amount)
    [] p.kind = "mint" -> Mint(l, p.to, p.amount)
    [] p.kind = "burn" -> Burn(l, p.from, p.amount)
    [] p.kind = "update" -> Ok(l)   \* sets the key of a clone of the account
    [] p.kind = "create" ->
         LET made == CreateAccount(l, p.to) IN
         IF made.result # "ok" \/ p.amount = 0 THEN made
         ELSE Mint(made.ledger, p.to, p.amount)

Execute(l, p) ==
  LET paid == IF p.kind \in Charged THEN Burn(l, p.from, p.cost) ELSE Ok(l)
  IN IF paid.result = "ok" THEN Perform(paid.ledger, p) ELSE paid

LastFew(s, n) == IF Len(s) > n THEN SubSeq(s, Len(s) - n + 1, Len(s)) ELSE s

ApplyUntilError(s, t) ==  \* mutant: a failure ends the batch
  LET done == Execute(s.ledger, What[t]) IN
  IF s.hung \/ t \in Unpriced \/ done.result = "hung"
     \/ (s.history # <<>> /\ Last(s.history).result = "err") THEN s
  ELSE [ledger |-> done.ledger, hung |-> FALSE, height |-> s.height + 1,
        history |-> Append(s.history, [tx |-> t, result |-> done.result]),
        applied |-> [s.applied EXCEPT ![t] = @ + 1]]

\* apply_transaction: a cost that cannot be computed leaves no trace at all.
Apply(s, t) ==
  LET done == Execute(s.ledger, What[t]) IN
  IF s.hung \/ t \in Unpriced THEN s
  ELSE IF done.result = "hung" THEN [s EXCEPT !.hung = TRUE, !.ledger = done.ledger]
  ELSE [ledger |-> done.ledger, hung |-> FALSE, height |-> s.height + 1,
        history |-> LastFew(Append(s.history, [tx |-> t, result |-> done.result]),
                            MaxHistory),
        applied |-> [s.applied EXCEPT ![t] = @ + 1]]

-----------------------------------------------------------------------------
(* Actions                                                                 *)

Others == <<state, saved, phase, applied, restarts, idle>>

\* The application submits, runs rounds and lets time pass.
Submit(t) == phase = "up" /\ CA!Submit(t) /\ UNCHANGED Others
RunRound == phase = "up" /\ CA!Round /\ UNCHANGED Others
Expire(t) == phase = "up" /\ CA!Expire(t) /\ UNCHANGED Others

\* is_multiple_of, after the batch and whatever it applied.
TakesCheckpoint(h) == IF Interval = 0 THEN h = 0 ELSE h % Interval = 0

ReapplyKept == UNCHANGED pending  \* mutant: what was applied is not cleared

Forget == CA!Clear

\* The state after the first k transactions of a batch have been applied.
Batch(order) ==
  LET after[k \in 0..Len(order)] ==
        IF k = 0 THEN [ledger |-> ledger, hung |-> FALSE, height |-> height,
                       history |-> history, applied |-> applied]
        ELSE Apply(after[k - 1], order[k])
  IN after

\* process_consensus_transactions: finalized_transactions comes from a hash
\* map, in any order; errors are logged; the adapter forgets all verdicts.
Process ==
  LET batch == CA!With("Confirmed") IN
  /\ phase = "up"
  /\ idle' = IF batch = {} THEN idle + 1 ELSE idle
  /\ idle' <= MaxIdle
  /\ \E order \in SetToSeqs(batch) :
       \E s \in {Batch(order)[Len(order)]} :   \* the state after it
          LET point == TakesCheckpoint(s.height) /\ ~s.hung IN
          /\ ledger' = s.ledger
          /\ height' = s.height
          /\ history' = s.history
          /\ applied' = s.applied
          /\ phase' = IF s.hung THEN "hung" ELSE "up"
          /\ checkpoints' = IF point
                            THEN LastFew(Append(checkpoints, s.height), MaxCheckpoints)
                            ELSE checkpoints
          \* Only create_checkpoint computes a root again, over a state with
          \* the old root in it, and then adds the checkpoint to that state.
          /\ root' = IF point \/ (root = "sound" /\ s.height # height)
                     THEN "stale" ELSE root
          /\ IF s.hung THEN UNCHANGED pending ELSE Forget
  /\ UNCHANGED <<expired, submits, saved, restarts>>

\* save_state writes the file in place: when the write fails, or the process
\* dies in it, part of it is there.  A file nobody will read any more is not
\* looked at.
Save ==
  /\ phase = "up" /\ restarts < MaxRestarts
  /\ saved' \in {<<Image>>, <<Torn>>}
  /\ UNCHANGED <<adapter, state, phase, applied, restarts, idle>>

Readable(image) == image.whole /\ image.history # <<>>

\* The process dies, as it may while a batch hangs, and starts again with
\* load_state and a new adapter.
Restart ==
  /\ phase \in {"up", "hung"} /\ saved # NoFile /\ restarts < MaxRestarts
  /\ restarts' = restarts + 1
  /\ IF Readable(saved[1])
     THEN /\ ledger' = [balance |-> EmptyLedger.balance, supply |-> saved[1].supply]
          /\ height' = saved[1].height
          /\ history' = saved[1].history
          /\ checkpoints' = saved[1].checkpoints
          /\ root' = saved[1].root
          /\ phase' = "up"
     ELSE phase' = "dead" /\ UNCHANGED state
  /\ pending' = [t \in {} |-> 0]
  /\ UNCHANGED <<expired, submits, saved, applied, idle>>

Next ==
  \/ \E t \in Tx : Submit(t) \/ Expire(t)
  \/ RunRound \/ Process
  \/ Save \/ Restart

Spec == Init /\ [][Next]_vars

\* ENABLED Process, written out.
CanProcess == phase = "up" /\ (CA!With("Confirmed") # {} \/ idle < MaxIdle)

\* The application keeps running rounds and processing what they confirm: the
\* second condition is WF_vars(Process).
LiveSpec ==
  /\ Spec
  /\ WF_vars(RunRound)
  /\ []<>(~CanProcess) \/ []<><<Process>>_vars

-----------------------------------------------------------------------------
(* Properties                                                              *)

\* Executing any transaction in any reachable state: an account other than
\* the payer never loses, and a transaction that fails costs its payer the fee
\* or nothing, and at most leaves behind an account with nothing in it.
FailureCostsFee ==
  \A t \in Tx :
    LET p == What[t]
        done == Execute(ledger, p)
        after == done.ledger.balance
        fee == IF p.kind \in Charged THEN p.cost ELSE 0
    IN /\ \A a \in Accounts(ledger) \ {p.from} : after[a] >= ledger.balance[a]
       /\ done.result = "err" =>
            /\ \A a \in Accounts(ledger) :
                 \/ after[a] = ledger.balance[a]
                 \/ a = p.from /\ after[a] = ledger.balance[a] - fee
            /\ \A a \in DOMAIN after \ Accounts(ledger) : after[a] = 0

\* The balances add up to the supply through fees, failures and batches, as
\* long as the process does not start again from a file.
Conserved == restarts = 0 => Total(ledger.balance) = ledger.supply

Executions == UNION {{t} \X (1..applied[t]) : t \in Tx}

\* Transactions are executed no more often than they were submitted: a batch
\* is applied once, by whatever interleaving of rounds and calls.
ExecutedPerSubmission == Cardinality(Executions) <= submits

\* Nothing more comes of what was submitted: a batch hangs in a transfer between
\* accounts of one shard, or the process died and forgot what was pending.
Interrupted == phase # "up" \/ restarts > 0

\* Unless the process is interrupted, a valid transaction under way is confirmed,
\* or runs out of rounds; one that has run out of rounds is confirmed by further
\* rounds, unless process_consensus_transactions clears it before; and one that is
\* confirmed is executed, whatever the other transactions of its batch do.  A
\* transaction that is submitted again meanwhile starts over
\* (process_consensus_transactions, state.rs:423; clear_finalized, consensus.rs:428).
Settles ==
  \A t \in Tx \ (LowFee \cup Expiring \cup Unpriced) :
    LET Is(status) == t \in CA!With(status) IN
    /\ Is("Pending") \/ Is("Processing")
         ~> Is("Confirmed") \/ Is("Expired") \/ Interrupted
    /\ Is("Expired")
         ~> Is("Confirmed") \/ Is("Pending") \/ t \notin DOMAIN pending \/ Interrupted
    /\ Is("Confirmed") ~> applied[t] > 0 \/ Is("Pending") \/ Interrupted

\* The money is right: the state has its shape, the balances add up, and no
\* transaction could change that, as the two parts above say.
Money == TypeOK /\ FailureCostsFee /\ Conserved

\* A verdict follows from validity alone, while rounds, restarts and batches
\* come and go: a transaction with too low a fee is never confirmed, one that
\* stayed valid never rejected, and either verdict is there once there are
\* sample_size votes (process_transaction_round, consensus.rs:299-325).
ValidityDecides == CA!ValidityDecides
=============================================================================
