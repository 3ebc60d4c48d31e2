-------------------------- MODULE ConsensusAdapter --------------------------
(***************************************************************************)
(* ConsensusAdapter (qudag-exchange/core/src/consensus.rs): transactions   *)
(* waiting for agreement.  Each round adds one vote per transaction, cast  *)
(* by simulate_vote: against if the fee is below 1 or expires_at has       *)
(* passed, in favour otherwise.  A transaction is its identity (the hash   *)
(* of its unsigned bytes); signatures are checked outside this module.     *)
(* StateManager owns the adapter and drives it: see Exchange.              *)
(*                                                                         *)
(* confidence_threshold is the fraction Num / Den.  Written with integers, *)
(* "confidence >= threshold" is what the f64 comparison of two correctly   *)
(* rounded quotients gives on the votes met here.                          *)
(***************************************************************************)
EXTENDS Naturals

CONSTANTS Tx,
          LowFee,      \* transactions with fee < 1
          Expiring,    \* transactions with an expires_at
          Num, Den,    \* confidence_threshold
          SampleSize,  \* sample_size
          MaxRounds,   \* max_rounds
          MaxSubmits   \* bound: submissions in a behaviour

VARIABLES pending,  \* pending_transactions: [the known transactions -> entry]
          expired,  \* whose expires_at has passed
          submits   \* submissions so far

Undecided == {"Pending", "Processing"}
Status == Undecided \cup {"Confirmed", "Rejected", "Expired"}
Known == DOMAIN pending
With(status) == {t \in Known : pending[t].status = status}

TypeOK ==
  /\ Known \subseteq Tx
  /\ expired \subseteq Expiring
  /\ submits \in 0..MaxSubmits
  /\ \A t \in Known :
       /\ pending[t].status \in Status
       /\ pending[t].for \in Nat /\ pending[t].against \in Nat
       /\ pending[t].for + pending[t].against = pending[t].rounds

Init == pending = [t \in {} |-> 0] /\ expired = {} /\ submits = 0

-----------------------------------------------------------------------------
New == [status |-> "Pending", rounds |-> 0, for |-> 0, against |-> 0]

\* submit_transaction inserts: an entry with the same id starts over.
Submit(t) ==
  /\ submits < MaxSubmits
  /\ pending' = [u \in Known \cup {t} |-> IF u = t THEN New ELSE pending[u]]
  /\ submits' = submits + 1
  /\ UNCHANGED expired

IgnoreFee(t) == t \notin expired  \* mutant: the fee is not looked at

VotesFor(t) == t \notin LowFee \cup expired

Accepted(e) == e.for * Den >= Num * (e.for + e.against)
Refused(e) == e.against * Den >= Num * (e.for + e.against)
Sampled(e) == e.for + e.against >= SampleSize

Verdict(e) ==
  IF Sampled(e) /\ Accepted(e) THEN "Confirmed"
  ELSE IF Sampled(e) /\ Refused(e) THEN "Rejected"
  ELSE IF e.rounds >= MaxRounds THEN "Expired"
  ELSE "Processing"

Voted(t, e) ==
  [status |-> "Processing", rounds |-> e.rounds + 1,
   for |-> e.for + (IF VotesFor(t) THEN 1 ELSE 0),
   against |-> e.against + (IF VotesFor(t) THEN 0 ELSE 1)]

\* process_transaction_round: Confirmed and Rejected are skipped, Expired is not.
Poll(t, e) ==
  IF e.status \in {"Confirmed", "Rejected"} THEN e
  ELSE [Voted(t, e) EXCEPT !.status = Verdict(Voted(t, e))]

\* simulate_consensus_round: one vote on every known transaction.
Round ==
  /\ Known # {}
  /\ pending' = [t \in Known |-> Poll(t, pending[t])]
  /\ UNCHANGED <<expired, submits>>

\* clear_finalized.
Clear ==
  LET kept == {t \in Known : pending[t].status \in Undecided}
  IN pending' = [t \in kept |-> pending[t]]

\* The clock passes expires_at.
Expire(t) ==
  /\ t \in Expiring \ expired
  /\ expired' = expired \cup {t}
  /\ UNCHANGED <<pending, submits>>

-----------------------------------------------------------------------------
(* Properties                                                              *)

\* A transaction that was invalid in every round it was polled is never
\* confirmed, and rejected by the round that completes the sample; one that
\* stayed valid is never rejected, and confirmed by that round, even if it
\* ran out of rounds before.
ValidityDecides ==
  \A t \in Known :
    LET e == pending[t]   sampled == e.rounds >= SampleSize IN
    /\ t \in LowFee => e.status # "Confirmed" /\ (sampled => e.status = "Rejected")
    /\ t \notin LowFee \cup expired =>
         e.status # "Rejected" /\ (sampled => e.status = "Confirmed")
=============================================================================
