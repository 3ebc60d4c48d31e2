---------------------------- MODULE QRAvalanche ----------------------------
(***************************************************************************)
(* The consensus instance of core/dag/src/consensus.rs.  Its operations    *)
(* take &mut self, so they do not overlap; but run_consensus_round and     *)
(* run_fast_consensus_round sleep between rounds, and a caller that gives  *)
(* up drops the run at such a sleep and leaves what its rounds did.        *)
(*                                                                         *)
(* Shares and thresholds are fractions in millionths, rounded down (the    *)
(* code has f64).  Differences from 1 may round either way in f64: 1/5 is  *)
(* above 1.0 - 0.8, but 1/4 is not above 1.0 - 0.75.  So a share that meets*)
(* such a bound may be taken as at most it (<=) or as above it (>=).       *)
(***************************************************************************)
EXTENDS Integers, FiniteSets, Functions

CONSTANTS
  Vertices,       \* vertex ids
  Voters,         \* participant ids
  Ballot,         \* Ballot[v][p]: simulate_participant_vote(v, p)
  Similar,        \* the pairs {v, w} for which vertices_conflict holds
  Beta, Alpha,    \* thresholds in percent
  MaxRounds,      \* config.max_rounds
  PatternVotes,   \* the 10 of has_conflicting_vote_pattern
  MaxFinalized,   \* bound: the finality counter stops the model here
  MaxVotes,       \* bound: no more is called for when so many votes are recorded
  MaxRuns,        \* bound: consensus runs
  Polled          \* bound: the vertices that votes and runs are called for

One == 1000000
Pct(p) == p * 10000

ASSUME QRAvalancheAssumption ==
  /\ Ballot \in [Vertices -> [Voters -> BOOLEAN]]
  /\ Similar \subseteq {{v, w} : v, w \in Vertices} /\ Polled \subseteq Vertices
  /\ Beta \in 51 .. 100 /\ Alpha \in 51 .. 100
  /\ {MaxRounds, PatternVotes, MaxFinalized, MaxVotes, MaxRuns} \subseteq Nat
  \* query_sample takes everybody: there are at most as many participants
  \* as the smallest sample, which is 10 (the first fast rounds).
  /\ IsFiniteSet(Voters) /\ Cardinality(Voters) <= 10
  /\ IsFiniteSet(Vertices)

VARIABLES
  status,        \* status[v]: QRAvalanche::vertices, "Unknown" if absent
  tips,
  confidence,    \* confidence[v]: NoConfidence until process_vertex
  votes,         \* votes[v][p]: VotingRecord::votes
  byzantine,     \* VotingRecord::byzantine_voters
  conflicts,     \* VotingRecord::conflicts
  participants,
  finalized,     \* metrics.finalized_count
  run,           \* the consensus run in progress, or NoRun
  runs,          \* runs started
  answer         \* what the last run returned

vars == <<status, tips, confidence, votes, byzantine, conflicts,
          participants, finalized, run, runs, answer>>
records == <<votes, byzantine, conflicts, participants>>
runVars == <<run, runs, answer>>

Status == {"Unknown", "Pending", "Rejected", "Final"}
Vote   == {"none", "yes", "no"}
Answer == {"none", "Final", "Accepted", "Rejected", "Timeout", "InsufficientVotes", "dropped"}

NoConfidence == [value |-> -1, pos |-> 0, neg |-> 0]
NoRun == [mode |-> "none"]

Tracked(v) == confidence[v] # NoConfidence
Pending    == {v \in Vertices : status[v] = "Pending"}

\* Every variable stays in the range of its Rust type (consensus.rs:316-335);
\* a confidence is a share.
TypeOK ==
  /\ status \in [Vertices -> Status]
  /\ tips \subseteq Vertices
  /\ \A v \in Vertices : Tracked(v) =>
       /\ confidence[v].value \in 0 .. One
       /\ confidence[v].pos + confidence[v].neg <= Cardinality(Voters)
  /\ votes \in [Vertices -> [Voters -> Vote]]
  /\ byzantine \subseteq Voters
  /\ conflicts \in [Vertices -> SUBSET Vertices]
  /\ participants \subseteq Voters
  /\ finalized \in 0 .. MaxFinalized
  /\ run = NoRun \/ run.round \in 0 .. MaxRounds
  /\ answer \in Answer

\* Mutant: the ratio of the two counts, not the share of the total.
ShareOfNegatives(pos, neg) == (pos * One) \div (IF neg = 0 THEN 1 ELSE neg)

Share(pos, neg) == (pos * One) \div (pos + neg)

(***************************************************************************)
(* Decisions.                                                              *)
(***************************************************************************)
\* finalize_vertex counts a finality whenever the vertex has a start time,
\* that is, whenever it was processed.
Finalize(v) ==
  /\ status' = [status EXCEPT ![v] = "Final"]
  /\ tips' = tips \ {v}
  /\ finalized' = IF Tracked(v) THEN finalized + 1 ELSE finalized

\* Mutant: the rejected vertex stays a tip.
RejectKeepingTip(v) ==
  /\ status' = [status EXCEPT ![v] = "Rejected"]
  /\ UNCHANGED <<tips, finalized>>

Reject(v) ==
  /\ status' = [status EXCEPT ![v] = "Rejected"]
  /\ tips' = tips \ {v}
  /\ UNCHANGED finalized

Undecided == UNCHANGED <<status, tips, finalized>>

(***************************************************************************)
(* process_vertex, add_participant, record_vote.                           *)
(***************************************************************************)
ProcessVertex(v) ==
  /\ run = NoRun
  /\ confidence' = [confidence EXCEPT ![v] = [value |-> 0, pos |-> 0, neg |-> 0]]
  /\ status' = [status EXCEPT ![v] = "Pending"]
  /\ tips' = tips \cup {v}
  /\ UNCHANGED <<records, finalized, runVars>>

AddParticipant(p) ==
  /\ run = NoRun
  /\ runs < MaxRuns            \* only runs look at them
  /\ p \notin participants
  /\ participants' = participants \cup {p}
  /\ UNCHANGED <<status, tips, confidence, votes, byzantine, conflicts, finalized, runVars>>

\* The bounds on what record_vote and runs are called for.
MoreVotes ==
  /\ finalized < MaxFinalized
  /\ Cardinality({c \in Vertices \X Voters : votes[c[1]][c[2]] # "none"}) < MaxVotes

Opposite(old, vote) == old # "none" /\ old # vote

\* A vote that contradicts the voter's first one on the vertex marks the
\* voter and is not recorded.
ContradictingVote(v, p, vote) ==
  /\ run = NoRun
  /\ Opposite(votes[v][p], vote)
  /\ byzantine' = byzantine \cup {p}
  /\ UNCHANGED <<status, tips, confidence, votes, conflicts, participants, finalized, runVars>>

\* Mutant: the last vote counts.
VoteReplaced(v, p, vote) ==
  /\ run = NoRun
  /\ MoreVotes
  /\ votes' = [votes EXCEPT ![v][p] = vote]
  /\ LET pos == Cardinality({q \in Voters : votes'[v][q] = "yes"})
         neg == Cardinality({q \in Voters : votes'[v][q] = "no"})
         share == Share(pos, neg)
     IN IF Tracked(v)
        THEN /\ confidence' = [confidence EXCEPT ![v] = [value |-> share, pos |-> pos, neg |-> neg]]
             /\ \/ share >= Pct(Beta) /\ Finalize(v)
                \/ share < Pct(Beta) /\ share <= One - Pct(Beta) /\ Reject(v)
                \/ share < Pct(Beta) /\ share >= One - Pct(Beta) /\ Undecided
        ELSE UNCHANGED confidence /\ Undecided
  /\ UNCHANGED <<byzantine, conflicts, participants, runVars>>

\* Every accepted vote recomputes the share of all votes ever recorded for
\* the vertex and decides it again.
RecordVote(v, p, vote) ==
  /\ run = NoRun
  /\ MoreVotes
  /\ ~Opposite(votes[v][p], vote)
  /\ votes' = [votes EXCEPT ![v][p] = vote]
  /\ LET pos == Cardinality({q \in Voters : votes'[v][q] = "yes"})
         neg == Cardinality({q \in Voters : votes'[v][q] = "no"})
         share == Share(pos, neg)
     IN IF Tracked(v)
        THEN /\ confidence' = [confidence EXCEPT ![v] = [value |-> share, pos |-> pos, neg |-> neg]]
             /\ \/ share >= Pct(Beta) /\ Finalize(v)
                \/ share < Pct(Beta) /\ share <= One - Pct(Beta) /\ Reject(v)
                \/ share < Pct(Beta) /\ share >= One - Pct(Beta) /\ Undecided
        ELSE UNCHANGED confidence /\ Undecided
  /\ UNCHANGED <<byzantine, conflicts, participants, runVars>>

(***************************************************************************)
(* Consensus runs.                                                         *)
(***************************************************************************)
StartRun(v, mode) ==
  /\ run = NoRun
  /\ runs < MaxRuns /\ MoreVotes
  /\ run' = [mode |-> mode, vertex |-> v, round |-> 0, strong |-> 0, current |-> 0]
  /\ runs' = runs + 1
  /\ answer' = "none"
  /\ UNCHANGED <<status, tips, confidence, records, finalized>>

EndRun(result) == run' = NoRun /\ answer' = result

\* The voters query_sample asks, those whose answer is yes, and those whose
\* answer contradicts a vote they gave before.
Asked     == participants \ byzantine
AskedYes  == {p \in Asked : Ballot[run.vertex][p]}
Turncoats == {p \in Asked : Opposite(votes[run.vertex][p], IF Ballot[run.vertex][p] THEN "yes" ELSE "no")}

\* query_sample: an answer counts before it is recorded, so the answer of a
\* voter it exposes still counts in this round.
Query ==
  /\ votes' = [votes EXCEPT ![run.vertex] =
       [p \in Voters |-> IF p \in Asked /\ votes[run.vertex][p] = "none"
                         THEN IF Ballot[run.vertex][p] THEN "yes" ELSE "no"
                         ELSE votes[run.vertex][p]]]
  /\ byzantine' = byzantine \cup Turncoats
  /\ UNCHANGED <<conflicts, participants>>

Yes == Cardinality(AskedYes)
No  == Cardinality(Asked \ AskedYes)
RoundShare == Share(Yes, No)

NextRound(strong, current) ==
  /\ run' = [run EXCEPT !.round = @ + 1, !.strong = strong, !.current = current]
  /\ UNCHANGED answer

\* A round of run_consensus_round, up to its sleep or its return.
FullRound ==
  LET v == run.vertex
      smooth == (9 * RoundShare + confidence[v].value) \div 10
      current == IF Tracked(v) THEN smooth ELSE run.current
      accepts == RoundShare >= Pct(Alpha)
      refuses == RoundShare <= One - Pct(Alpha)
      spares  == RoundShare >= One - Pct(Alpha)
      threshold == IF run.strong + 1 >= 2 THEN Beta * 9500 ELSE Pct(Beta)
  IN
  /\ run.mode = "full" /\ run.round < MaxRounds
  /\ Asked # {}
  /\ Query
  /\ confidence' = IF Tracked(v)
                   THEN [confidence EXCEPT ![v] = [value |-> smooth, pos |-> Yes, neg |-> No]]
                   ELSE confidence
  /\ \/ /\ accepts /\ current >= threshold
        /\ Finalize(v) /\ EndRun("Final")
     \/ /\ accepts /\ current < threshold
        /\ Undecided /\ NextRound(run.strong + 1, current)
     \/ /\ refuses /\ (current <= One - Pct(Beta) \/ run.round > 10)
        /\ Reject(v) /\ EndRun("Rejected")
     \/ /\ refuses /\ current >= One - Pct(Beta) /\ run.round <= 10
        /\ Undecided /\ NextRound(0, current)
     \/ /\ ~accepts /\ spares
        /\ Undecided /\ NextRound(IF run.strong > 1 THEN run.strong - 1 ELSE 0, current)
  /\ UNCHANGED runs

NobodyAsked ==
  /\ run.mode = "full" /\ run.round < MaxRounds
  /\ Asked = {}
  /\ Undecided /\ EndRun("InsufficientVotes")
  /\ UNCHANGED <<confidence, records, runs>>

\* The rounds are used up, or the time is (which may happen at any round).
FullEnd ==
  /\ run.mode = "full"
  /\ Undecided
  /\ EndRun(IF run.current >= Pct(Beta) THEN "Accepted" ELSE "Timeout")
  /\ UNCHANGED <<confidence, records, runs>>

\* A round of run_fast_consensus_round: no smoothing, lower thresholds, and
\* a round in which nobody was asked just passes.
FastRound ==
  LET v == run.vertex
      current == IF Tracked(v) THEN RoundShare ELSE run.current
      accepts == RoundShare >= Alpha * 9500
      refuses == RoundShare <= One - Alpha * 9500 /\ current <= One - Beta * 9000
      spares  == RoundShare >= One - Alpha * 9500 \/ current >= One - Beta * 9000
  IN
  /\ run.mode = "fast" /\ run.round < MaxRounds
  /\ Asked # {}
  /\ Query
  /\ confidence' = IF Tracked(v)
                   THEN [confidence EXCEPT ![v] = [value |-> RoundShare, pos |-> Yes, neg |-> No]]
                   ELSE confidence
  /\ \/ /\ accepts /\ current >= Beta * 9000 /\ run.strong + 1 >= 2
        /\ Finalize(v) /\ EndRun("Final")
     \/ /\ accepts /\ ~(current >= Beta * 9000 /\ run.strong + 1 >= 2)
        /\ Undecided /\ NextRound(run.strong + 1, current)
     \/ /\ ~accepts /\ refuses
        /\ Reject(v) /\ EndRun("Rejected")
     \/ /\ ~accepts /\ spares
        /\ Undecided /\ NextRound(run.strong, current)
  /\ UNCHANGED runs

FastPass ==
  /\ run.mode = "fast" /\ run.round < MaxRounds
  /\ Asked = {}
  /\ Undecided /\ NextRound(run.strong, run.current)
  /\ UNCHANGED <<confidence, records, runs>>

\* Mutant: the threshold of acceptance is taken for that of finality.
FastEndEager ==
  /\ run.mode = "fast"
  /\ \/ /\ run.current >= Beta * 7000
        /\ Finalize(run.vertex) /\ EndRun("Final")
     \/ /\ run.current < Beta * 7000
        /\ Undecided /\ EndRun("Timeout")
  /\ UNCHANGED <<confidence, records, runs>>

FastEnd ==
  /\ run.mode = "fast"
  /\ \/ /\ run.current >= Beta * 8500
        /\ Finalize(run.vertex) /\ EndRun("Final")
     \/ /\ run.current < Beta * 8500
        /\ Undecided
        /\ EndRun(IF run.current >= Beta * 7000 THEN "Accepted" ELSE "Timeout")
  /\ UNCHANGED <<confidence, records, runs>>

\* The caller drops the run while it sleeps: after at least one full round,
\* or after a fast round from the tenth on or in which nobody was asked.
DropRun ==
  /\ run # NoRun
  /\ \/ run.mode = "full" /\ run.round > 0
     \/ run.mode = "fast" /\ (run.round > 9 \/ (run.round > 0 /\ Asked = {}))
  /\ EndRun("dropped")
  /\ Undecided
  /\ UNCHANGED <<confidence, records, runs>>

(***************************************************************************)
(* Forks and patterns.                                                     *)
(***************************************************************************)
Conflict(v, w) == v # w /\ {v, w} \in Similar

Value(v) == IF Tracked(v) THEN confidence[v].value ELSE 0

\* detect_fork_conflicts goes through the pending vertices in the order the
\* HashMap yields them (place): head[v] is the vertex whose conflict set takes
\* v, the first one that conflicts with it among those no set had taken when
\* their turn came.
Heads(place, head, v) ==
  {w \in Pending : head[w] = w /\ Conflict(w, v) /\ place[w] < place[v]}

IsGrouping(place, head) ==
  \A v \in Pending :
    \/ Heads(place, head, v) = {} /\ head[v] = v
    \/ /\ head[v] \in Heads(place, head, v)
       /\ \A w \in Heads(place, head, v) : place[head[v]] <= place[w]

ConflictSet(head, v) == {w \in Pending : head[w] = head[v]}

\* Mutant: the vertex with the lowest confidence wins.
Weakest(place, set) ==
  CHOOSE v \in set : \A w \in set \ {v} :
    Value(v) < Value(w) \/ (Value(v) = Value(w) /\ place[v] < place[w])

\* The first of the set with the highest confidence.
Winner(place, set) ==
  CHOOSE v \in set : \A w \in set \ {v} :
    Value(v) > Value(w) \/ (Value(v) = Value(w) /\ place[v] < place[w])

DetectAndResolveForks ==
  /\ run = NoRun
  /\ UNCHANGED <<confidence, votes, byzantine, participants, finalized, runVars>>
  /\ \E place \in Injection(Pending, 1 .. Cardinality(Pending)), head \in [Pending -> Pending] :
       LET winner == [v \in Pending |-> Winner(place, ConflictSet(head, v))]
           rejected == {v \in Pending : winner[v] # v}
       IN
       /\ IsGrouping(place, head)
       /\ rejected # {}
       /\ status' = [v \in Vertices |-> IF v \in rejected THEN "Rejected" ELSE status[v]]
       /\ tips' = tips \ rejected
       /\ conflicts' = [w \in Vertices |-> conflicts[w] \cup {v \in rejected : winner[v] = w}]

VotesOf(p)  == {v \in Vertices : votes[v][p] # "none"}
YesVotes(p) == {v \in Vertices : votes[v][p] = "yes"}

\* A voter whose votes are close to half and half.
Erratic(p) ==
  LET n == Cardinality(VotesOf(p)) IN
  /\ n > PatternVotes
  /\ 10 * Cardinality(YesVotes(p)) > 4 * n
  /\ 10 * Cardinality(YesVotes(p)) < 6 * n

DetectByzantinePatterns ==
  /\ run = NoRun
  /\ {p \in Voters : Erratic(p)} \ byzantine # {}
  /\ byzantine' = byzantine \cup {p \in Voters : Erratic(p)}
  /\ UNCHANGED <<status, tips, confidence, votes, conflicts, participants, finalized, runVars>>

-----------------------------------------------------------------------------
Init ==
  /\ status = [v \in Vertices |-> "Unknown"]
  /\ tips = {}
  /\ confidence = [v \in Vertices |-> NoConfidence]
  /\ votes = [v \in Vertices |-> [p \in Voters |-> "none"]]
  /\ byzantine = {}
  /\ conflicts = [v \in Vertices |-> {}]
  /\ participants = {}
  /\ finalized = 0
  /\ run = NoRun
  /\ runs = 0
  /\ answer = "none"

RunStep == FullRound \/ NobodyAsked \/ FullEnd \/ FastRound \/ FastPass \/ FastEnd

Next ==
  \/ \E v \in Vertices : ProcessVertex(v)
  \/ \E p \in Voters : AddParticipant(p)
  \/ \E v \in Polled, p \in Voters, vote \in {"yes", "no"} :
       ContradictingVote(v, p, vote) \/ RecordVote(v, p, vote)
  \/ \E v \in Polled, mode \in {"full", "fast"} : StartRun(v, mode)
  \/ RunStep
  \/ DropRun
  \/ DetectAndResolveForks
  \/ DetectByzantinePatterns

Spec == Init /\ [][Next]_vars

-----------------------------------------------------------------------------
(***************************************************************************)
(* What holds.                                                             *)
(***************************************************************************)

\* The tips are the pending vertices: every decision, by a vote, a run or a
\* fork, takes the vertex out of the tips (consensus.rs:415, 435, 462, 777,
\* 863), and only process_vertex puts one in (consensus.rs:383).
TipsArePending == tips = Pending

\* The first vote of a voter on a vertex stands: neither a later vote nor the
\* simulated votes of a run replace it (VotingRecord::record_vote, 190-215).
FirstVoteStands ==
  [][\A v \in Vertices, p \in Voters :
       votes[v][p] # "none" => votes'[v][p] = votes[v][p]]_vars

\* A vertex becomes final only in a step that counts at least 85% of beta of
\* the votes in its favour, whichever of the three operations finalises it
\* and however the momentum of earlier rounds adds up (consensus.rs:409, 767,
\* 878: the lowest threshold is that of the end of a fast run).
SupportAtFinality ==
  [][\A v \in Vertices :
       status[v] # "Final" /\ status'[v] = "Final" =>
         /\ confidence'[v].pos > 0
         /\ confidence'[v].pos * 10000 >= Beta * 85 * (confidence'[v].pos + confidence'[v].neg)]_vars

\* The answer of a run is what it recorded: a vertex it calls final or
\* rejected is, and a run that answers anything else or is dropped at a sleep
\* has decided nothing (consensus.rs:721-886).
AnswerIsRecorded ==
  [][\A v \in Vertices :
       run # NoRun /\ run.vertex = v /\ run' = NoRun =>
         IF answer' \in {"Final", "Rejected"} THEN status'[v] = answer'
                                             ELSE status' = status]_vars

\* What was recorded stands: votes and the answers of runs.
RecordsStand == FirstVoteStands /\ AnswerIsRecorded

\* A fork never loses all its branches: a vertex rejected by fork resolution
\* lost to a vertex that stays pending and is at least as confident
\* (consensus.rs:446-482, 552-590), in whatever order the HashMap is read.
ForkHasSurvivor ==
  [][\A v \in Vertices :
       status[v] = "Pending" /\ status'[v] = "Rejected" =>
         \/ \E w \in Vertices \ {v} :
              /\ v \in conflicts'[w]
              /\ status'[w] = "Pending" /\ Value(v) <= Value(w)
         \/ ~DetectAndResolveForks]_vars
=============================================================================
