------------------------- MODULE QRAvalancheProofs -------------------------
(***************************************************************************)
(* Proofs about QRAvalanche, for any vertices, voters, ballots, conflicts, *)
(* thresholds and bounds: types and ranges, the tips are the pending       *)
(* vertices, the first vote stands, the answer of a run is what it         *)
(* recorded, finality has its support, and a fork keeps a branch.          *)
(***************************************************************************)
EXTENDS QRAvalanche, FiniteSetTheorems, TLAPS

\* What StartRun makes and NextRound updates.
IsRun(x) ==
  x = [mode |-> x.mode, vertex |-> x.vertex, round |-> x.round,
       strong |-> x.strong, current |-> x.current]

\* A run is about a vertex.
RunOnVertex ==
  run = NoRun \/ (IsRun(run) /\ run.mode \in {"full", "fast"} /\ run.vertex \in Vertices)

Shape ==
  /\ status \in [Vertices -> Status]
  /\ tips \subseteq Vertices
  /\ votes \in [Vertices -> [Voters -> Vote]]
  /\ RunOnVertex

IndInv == Shape /\ TipsArePending

\* Next, with all vertices for those that are polled.
LEMMA OnVertices ==
  ASSUME [Next]_vars
  PROVE  \/ \E v \in Vertices : ProcessVertex(v)
         \/ \E p \in Voters : AddParticipant(p)
         \/ \E v \in Vertices, p \in Voters, vote \in {"yes", "no"} : ContradictingVote(v, p, vote)
         \/ \E v \in Vertices, p \in Voters, vote \in {"yes", "no"} : RecordVote(v, p, vote)
         \/ \E v \in Vertices, mode \in {"full", "fast"} : StartRun(v, mode)
         \/ RunStep
         \/ DropRun
         \/ DetectAndResolveForks
         \/ DetectByzantinePatterns
         \/ UNCHANGED vars
<1>1. Polled \subseteq Vertices
  BY QRAvalancheAssumption
<1> QED BY <1>1, Zenon DEF Next

\* The three ways a step changes statuses and tips, and the one that changes
\* neither.
LEMMA DecisionsKeepTips ==
  ASSUME IndInv, NEW v \in Vertices,
         Finalize(v) \/ Reject(v) \/ Undecided
  PROVE  status' \in [Vertices -> Status] /\ tips' \subseteq Vertices /\ TipsArePending'
BY DEF IndInv, Shape, Finalize, Reject, Undecided, TipsArePending, Pending, Status

\* What fork resolution does, for an order and a grouping of the vertices.
Resolution(place, head, winner, rejected) ==
  /\ place \in Injection(Pending, 1 .. Cardinality(Pending))
  /\ head \in [Pending -> Pending]
  /\ winner = [v \in Pending |-> Winner(place, ConflictSet(head, v))]
  /\ rejected = {v \in Pending : winner[v] # v}
  /\ status' = [v \in Vertices |-> IF v \in rejected THEN "Rejected" ELSE status[v]]
  /\ tips' = tips \ rejected
  /\ conflicts' = [w \in Vertices |-> conflicts[w] \cup {v \in rejected : winner[v] = w}]

LEMMA Resolves ==
  ASSUME DetectAndResolveForks
  PROVE  \E place, head, winner, rejected : Resolution(place, head, winner, rejected)
<1>1. PICK place \in Injection(Pending, 1 .. Cardinality(Pending)), head \in [Pending -> Pending] :
        LET winner == [v \in Pending |-> Winner(place, ConflictSet(head, v))]
            rejected == {v \in Pending : winner[v] # v}
        IN
        /\ status' = [v \in Vertices |-> IF v \in rejected THEN "Rejected" ELSE status[v]]
        /\ tips' = tips \ rejected
        /\ conflicts' = [w \in Vertices |-> conflicts[w] \cup {v \in rejected : winner[v] = w}]
  BY Zenon DEF DetectAndResolveForks
<1> DEFINE winner == [v \in Pending |-> Winner(place, ConflictSet(head, v))]
           rejected == {v \in Pending : winner[v] # v}
<1>2. Resolution(place, head, winner, rejected)
  BY <1>1, Zenon DEF Resolution
<1> QED BY <1>2

LEMMA ResolveKeepsTips ==
  ASSUME IndInv, DetectAndResolveForks
  PROVE  status' \in [Vertices -> Status] /\ tips' \subseteq Vertices /\ TipsArePending'
<1>1. PICK rejected :
        /\ status' = [v \in Vertices |-> IF v \in rejected THEN "Rejected" ELSE status[v]]
        /\ tips' = tips \ rejected
  BY Resolves DEF Resolution
<1> QED BY <1>1 DEF IndInv, Shape, TipsArePending, Pending, Status

LEMMA NextRoundRun ==
  ASSUME RunOnVertex, run # NoRun, NEW st, NEW c, NextRound(st, c)
  PROVE  /\ RunOnVertex' /\ run' # NoRun /\ run'.vertex = run.vertex
         /\ run'.mode = run.mode /\ run'.round = run.round + 1 /\ run'.current = c
<1>1. /\ IsRun(run') /\ run'.mode = run.mode /\ run'.vertex = run.vertex
      /\ run'.round = run.round + 1 /\ run'.current = c
  <2>1. run' = [run EXCEPT !.round = run.round + 1, !.strong = st, !.current = c]
    BY DEF NextRound
  <2>2. run = [mode |-> run.mode, vertex |-> run.vertex, round |-> run.round,
               strong |-> run.strong, current |-> run.current]
    BY DEF RunOnVertex, IsRun
  <2>3. run' = [mode |-> run.mode, vertex |-> run.vertex, round |-> run.round + 1,
                strong |-> st, current |-> c]
    BY <2>1, <2>2
  <2> QED BY <2>3 DEF IsRun
<1>2. run' # NoRun
  BY <1>1 DEF RunOnVertex, NoRun
<1> QED BY <1>1, <1>2 DEF RunOnVertex

\* A step of a consensus run decides its vertex or nothing, and leaves a run
\* on the same vertex, or none and an answer that says what was decided.
Told ==
  IF answer' \in {"Final", "Rejected"} THEN status'[run.vertex] = answer'
                                      ELSE status' = status

LEMMA RunStepDecides ==
  ASSUME IndInv, RunStep \/ DropRun
  PROVE  /\ run.vertex \in Vertices /\ run # NoRun
         /\ Finalize(run.vertex) \/ Reject(run.vertex) \/ Undecided
         /\ RunOnVertex'
         /\ run' = NoRun => Told
<1> USE DEF IndInv, Shape
<1>0. NoRun.mode = "none"
  BY DEF NoRun
<1>1. run # NoRun /\ run.vertex \in Vertices /\ status \in [Vertices -> Status]
  BY <1>0 DEF RunStep, FullRound, NobodyAsked, FullEnd, FastRound, FastPass, FastEnd, DropRun,
     RunOnVertex
<1>2. ASSUME NEW a, EndRun(a) PROVE run' = NoRun /\ RunOnVertex' /\ answer' = a
  BY <1>2 DEF EndRun, RunOnVertex
<1>3. ASSUME Finalize(run.vertex), EndRun("Final") PROVE Told
  BY <1>1, <1>3 DEF Finalize, EndRun, Told
<1>4. ASSUME Reject(run.vertex), EndRun("Rejected") PROVE Told
  BY <1>1, <1>4 DEF Reject, EndRun, Told
<1>5. ASSUME Undecided, NEW a \in Answer \ {"Final", "Rejected"}, EndRun(a) PROVE Told
  BY <1>5 DEF Undecided, EndRun, Told
<1>6. \/ Finalize(run.vertex) /\ EndRun("Final")
      \/ Reject(run.vertex) /\ EndRun("Rejected")
      \/ Undecided /\ \E a \in Answer \ {"Final", "Rejected"} : EndRun(a)
      \/ Undecided /\ \E st, c : NextRound(st, c)
  <2>1. CASE FullRound
    <3> DEFINE current == IF Tracked(run.vertex)
                          THEN (9 * RoundShare + confidence[run.vertex].value) \div 10
                          ELSE run.current
               weaker == IF run.strong > 1 THEN run.strong - 1 ELSE 0
    <3>1. \/ Finalize(run.vertex) /\ EndRun("Final")
          \/ Undecided /\ NextRound(run.strong + 1, current)
          \/ Reject(run.vertex) /\ EndRun("Rejected")
          \/ Undecided /\ NextRound(0, current)
          \/ Undecided /\ NextRound(weaker, current)
      BY <2>1, SMTT(60) DEF FullRound
    <3>2. (\E st, c : NextRound(st, c)) \/ ~NextRound(run.strong + 1, current)
      OBVIOUS
    <3>3. (\E st, c : NextRound(st, c)) \/ ~NextRound(0, current)
      OBVIOUS
    <3>4. (\E st, c : NextRound(st, c)) \/ ~NextRound(weaker, current)
      OBVIOUS
    <3> HIDE DEF current, weaker
    <3> QED BY <3>1, <3>2, <3>3, <3>4
  <2>2. CASE FastRound
    <3> DEFINE current == IF Tracked(run.vertex) THEN RoundShare ELSE run.current
    <3>1. \/ Finalize(run.vertex) /\ EndRun("Final")
          \/ Undecided /\ NextRound(run.strong + 1, current)
          \/ Reject(run.vertex) /\ EndRun("Rejected")
          \/ Undecided /\ NextRound(run.strong, current)
      BY <2>2, SMTT(30) DEF FastRound
    <3> QED BY <3>1
  <2>3. CASE NobodyAsked
    BY <2>3 DEF NobodyAsked, Answer
  <2>4. CASE FullEnd
    BY <2>4 DEF FullEnd, Answer
  <2>5. CASE FastPass
    BY <2>5 DEF FastPass
  <2>6. CASE FastEnd
    BY <2>6 DEF FastEnd, Answer
  <2>7. CASE DropRun
    BY <2>7 DEF DropRun, Answer
  <2> QED BY <2>1, <2>2, <2>3, <2>4, <2>5, <2>6, <2>7 DEF RunStep
<1>7. ASSUME NEW st, NEW c, NextRound(st, c) PROVE RunOnVertex' /\ run' # NoRun
  BY <1>1, <1>7, NextRoundRun
<1> QED BY <1>1, <1>2, <1>3, <1>4, <1>5, <1>6, <1>7

LEMMA RunStepRecords ==
  ASSUME IndInv, RunStep \/ DropRun
  PROVE  /\ votes' \in [Vertices -> [Voters -> Vote]]
         /\ \A v \in Vertices, p \in Voters :
              votes[v][p] # "none" => votes'[v][p] = votes[v][p]
<1>1. run.vertex \in Vertices
  BY RunStepDecides
<1>2. Query \/ UNCHANGED votes
  BY DEF RunStep, FullRound, NobodyAsked, FullEnd, FastRound, FastPass, FastEnd, DropRun, records
<1> QED BY <1>1, <1>2 DEF Query, IndInv, Shape, Vote

LEMMA RecordVoteKeeps ==
  ASSUME IndInv, NEW v \in Vertices, NEW p \in Voters, NEW vote \in {"yes", "no"},
         RecordVote(v, p, vote)
  PROVE  /\ Finalize(v) \/ Reject(v) \/ Undecided
         /\ votes' \in [Vertices -> [Voters -> Vote]]
         /\ \A w \in Vertices, q \in Voters :
              votes[w][q] # "none" => votes'[w][q] = votes[w][q]
         /\ run' = run /\ run = NoRun
<1>1. Finalize(v) \/ Reject(v) \/ Undecided
  BY Zenon DEF RecordVote
<1>2. /\ votes' = [votes EXCEPT ![v][p] = vote] /\ ~Opposite(votes[v][p], vote)
      /\ run' = run /\ run = NoRun
  BY DEF RecordVote, runVars
<1> QED BY <1>1, <1>2 DEF IndInv, Shape, Vote, Opposite

\* What a step does that is neither a vote nor part of a run.
Quiet == votes' = votes /\ run = NoRun /\ RunOnVertex'

LEMMA OtherSteps ==
  ASSUME IndInv, [Next]_vars
  PROVE  \/ RunStep \/ DropRun
         \/ \E v \in Vertices, p \in Voters, vote \in {"yes", "no"} : RecordVote(v, p, vote)
         \/ Quiet /\ status' \in [Vertices -> Status] /\ tips' \subseteq Vertices /\ TipsArePending'
         \/ UNCHANGED vars
<1>1. ASSUME NEW v \in Vertices, ProcessVertex(v)
      PROVE  Quiet /\ status' \in [Vertices -> Status] /\ tips' \subseteq Vertices /\ TipsArePending'
  BY <1>1 DEF ProcessVertex, IndInv, Shape, Status, TipsArePending, Pending, Quiet, records,
     runVars, RunOnVertex
<1>2. ASSUME \/ \E p \in Voters : AddParticipant(p)
             \/ \E v \in Vertices, p \in Voters, vote \in {"yes", "no"} : ContradictingVote(v, p, vote)
             \/ DetectByzantinePatterns
      PROVE  Quiet /\ status' \in [Vertices -> Status] /\ tips' \subseteq Vertices /\ TipsArePending'
  BY <1>2 DEF AddParticipant, ContradictingVote, DetectByzantinePatterns, IndInv, Shape,
     TipsArePending, Pending, Quiet, runVars, RunOnVertex
<1>3. ASSUME NEW v \in Vertices, NEW mode \in {"full", "fast"}, StartRun(v, mode)
      PROVE  Quiet /\ status' \in [Vertices -> Status] /\ tips' \subseteq Vertices /\ TipsArePending'
  BY <1>3 DEF StartRun, IndInv, Shape, TipsArePending, Pending, Quiet, records, RunOnVertex, IsRun
<1>4. ASSUME DetectAndResolveForks
      PROVE  Quiet /\ status' \in [Vertices -> Status] /\ tips' \subseteq Vertices /\ TipsArePending'
  <2>1. Quiet
    BY <1>4 DEF DetectAndResolveForks, Quiet, runVars, IndInv, Shape, RunOnVertex
  <2> QED BY <1>4, <2>1, ResolveKeepsTips
<1> QED BY <1>1, <1>2, <1>3, <1>4, OnVertices

THEOREM Inductive == Spec => []IndInv
<1>1. Init => IndInv
  BY DEF Init, IndInv, Shape, TipsArePending, Pending, Status, Vote, RunOnVertex
<1>2. ASSUME IndInv, [Next]_vars PROVE IndInv'
  <2>1. CASE RunStep \/ DropRun
    BY <1>2, <2>1, RunStepDecides, RunStepRecords, DecisionsKeepTips DEF IndInv, Shape
  <2>2. CASE \E v \in Vertices, p \in Voters, vote \in {"yes", "no"} : RecordVote(v, p, vote)
    <3>1. PICK v \in Vertices, p \in Voters, vote \in {"yes", "no"} : RecordVote(v, p, vote)
      BY <2>2
    <3>2. RunOnVertex'
      BY <1>2, <3>1, RecordVoteKeeps DEF RunOnVertex
    <3> QED BY <1>2, <3>1, <3>2, RecordVoteKeeps, DecisionsKeepTips DEF IndInv, Shape
  <2>3. CASE Quiet /\ status' \in [Vertices -> Status] /\ tips' \subseteq Vertices /\ TipsArePending'
    BY <1>2, <2>3 DEF Quiet, IndInv, Shape
  <2>4. CASE UNCHANGED vars
    BY <1>2, <2>4 DEF vars, IndInv, Shape, TipsArePending, Pending, RunOnVertex
  <2> QED BY <1>2, <2>1, <2>2, <2>3, <2>4, OtherSteps
<1> QED BY <1>1, <1>2, PTL DEF Spec

\* The tips are the pending vertices after any votes, runs, drops and fork
\* resolutions (consensus.rs:367-482, 721-886).
THEOREM TipsArePendingAlways == Spec => []TipsArePending
BY Inductive, PTL DEF IndInv

\* No operation replaces a recorded vote (VotingRecord::record_vote,
\* query_sample).
THEOREM FirstVoteStandsAlways == Spec => FirstVoteStands
<1>1. ASSUME IndInv, [Next]_vars
      PROVE  [\A v \in Vertices, p \in Voters :
                votes[v][p] # "none" => votes'[v][p] = votes[v][p]]_vars
  BY <1>1, OtherSteps, RunStepRecords, RecordVoteKeeps DEF Quiet, vars
<1> QED BY Inductive, <1>1, PTL DEF Spec, FirstVoteStands

\* A run that answers Final or Rejected recorded it, and one that answers
\* anything else, or is dropped, decided nothing (run_consensus_round,
\* run_fast_consensus_round).
THEOREM AnswerIsRecordedAlways == Spec => AnswerIsRecorded
<1>1. ASSUME IndInv, [Next]_vars
      PROVE  [\A v \in Vertices :
                run # NoRun /\ run.vertex = v /\ run' = NoRun =>
                  IF answer' \in {"Final", "Rejected"} THEN status'[v] = answer'
                                                      ELSE status' = status]_vars
  BY <1>1, OtherSteps, RunStepDecides, RecordVoteKeeps DEF Quiet, Told, vars
<1> QED BY Inductive, <1>1, PTL DEF Spec, AnswerIsRecorded

\* Votes and the answers of runs stand.
THEOREM RecordsStandAlways == Spec => RecordsStand
<1>1. FirstVoteStands /\ AnswerIsRecorded => RecordsStand
  BY DEF RecordsStand
<1> QED BY <1>1, FirstVoteStandsAlways, AnswerIsRecordedAlways

-----------------------------------------------------------------------------
(***************************************************************************)
(* The numbers: confidences are shares of votes, and what finalises a      *)
(* vertex is a share of votes too.                                         *)
(***************************************************************************)

\* x is no more than the share of pos in the votes pos + neg.
Backed(x, pos, neg) == pos + neg > 0 /\ x * (pos + neg) <= pos * One

\* 85% of beta, the least share that finalises, and votes that reach it.
Least == Beta * 8500
Enough(pos, neg) == pos > 0 /\ pos * 10000 >= Beta * 85 * (pos + neg)

LEMMA OneIsNat == One \in Nat
BY SMT DEF One

LEMMA ShareBounds ==
  ASSUME NEW pos \in Nat, NEW neg \in Nat, pos + neg > 0
  PROVE  Share(pos, neg) \in 0 .. One /\ Backed(Share(pos, neg), pos, neg)
<1> DEFINE n == pos + neg
           m == pos * One
<1>0. One \in Nat
  BY OneIsNat
<1>1. n \in Nat \ {0} /\ m \in Nat /\ m <= One * n
  <2>1. n \in Nat \ {0} /\ m = One * pos /\ m \in Nat /\ One * n = One * pos + One * neg
    BY <1>0, SMT
  <2>2. One * neg \in Nat
    BY <1>0, SMT
  <2> QED BY <2>1, <2>2, <1>0, SMT
<1> HIDE DEF n, m
<1>2. ASSUME NEW q \in Int, q = m \div n
      PROVE  q \in 0 .. One /\ q * n <= m
  <2>1. q * n <= m /\ m < q * n + n
    BY <1>1, <1>2
  <2>2. q >= 0
    <3>1. ASSUME q + 1 <= 0 PROVE (q + 1) * n <= 0
      BY <1>1, <3>1
    <3> QED BY <3>1, <2>1, <1>1
  <2>3. q <= One
    <3>1. ASSUME q >= One + 1 PROVE q * n >= One * n + n
      <4>1. (q - (One + 1)) * n >= 0
        BY <1>0, <1>1, <3>1, SMT
      <4> QED BY <4>1, <1>0, <1>1, SMT
    <3> QED BY <3>1, <2>1, <1>1, <1>0, SMT
  <2> QED BY <2>1, <2>2, <2>3, <1>0, SMT
<1>3. m \div n \in Int
  BY <1>1
<1> QED BY <1>2, <1>3 DEF Share, n, m, Backed

LEMMA ShareIsSupport ==
  ASSUME NEW pos \in Nat, NEW neg \in Nat, NEW x \in Nat, Backed(x, pos, neg), x >= Least
  PROVE  Enough(pos, neg)
<1> DEFINE n == pos + neg
           y == Beta * 85
<1>1. n \in Nat \ {0} /\ y \in Nat \ {0} /\ x >= 100 * y
  BY QRAvalancheAssumption DEF n, y, Backed, Least
<1> HIDE DEF n, y
<1>2. x * n >= (100 * y) * n
  <2>1. (x - 100 * y) * n >= 0
    BY <1>1
  <2> QED BY <2>1, <1>1
<1>3. (100 * y) * n = 100 * (y * n) /\ y * n > 0
  BY <1>1
<1>4. x * n <= pos * One
  BY DEF n, Backed
<1>5. y * n \in Nat /\ x * n \in Nat
  BY <1>1
<1>6. pos * 10000 >= y * n /\ pos > 0
  BY <1>2, <1>3, <1>4, <1>5, SMT DEF One
<1> QED BY <1>6 DEF n, y, Enough

Confidence ==
  {NoConfidence} \cup
  {c \in [value : 0 .. One, pos : Nat, neg : Nat] : c.pos + c.neg <= Cardinality(Voters)}

\* What a run has seen: its confidence is that of a tracked vertex, and in a
\* fast run it is a share of the votes that the vertex's record holds.
RunCounts ==
  run # NoRun =>
    LET c == confidence[run.vertex] IN
    /\ finalized < MaxFinalized
    /\ run.round \in 0 .. MaxRounds
    /\ run.current \in 0 .. One
    /\ run.current > 0 => Tracked(run.vertex)
    /\ run.mode = "fast" /\ run.current > 0 => Backed(run.current, c.pos, c.neg)

Counts ==
  /\ confidence \in [Vertices -> Confidence]
  /\ byzantine \subseteq Voters /\ participants \subseteq Voters
  /\ conflicts \in [Vertices -> SUBSET Vertices]
  /\ finalized \in 0 .. MaxFinalized
  /\ answer \in Answer
  /\ RunCounts

\* A step that makes v final has the votes for it on record.
Supported(v) == Enough(confidence'[v].pos, confidence'[v].neg)

LEMMA SplitCount ==
  ASSUME NEW S \in SUBSET Voters, NEW T \in SUBSET S
  PROVE  /\ Cardinality(T) \in Nat /\ Cardinality(S \ T) \in Nat
         /\ Cardinality(T) + Cardinality(S \ T) = Cardinality(S)
         /\ Cardinality(S) <= Cardinality(Voters)
         /\ S # {} => Cardinality(S) > 0
<1>1. IsFiniteSet(Voters)
  BY QRAvalancheAssumption
<1>2. IsFiniteSet(S) /\ Cardinality(S) <= Cardinality(Voters)
  BY <1>1, FS_Subset
<1>3. IsFiniteSet(T) /\ IsFiniteSet(S \ T)
  BY <1>2, FS_Subset
<1>4. T \cup (S \ T) = S /\ T \cap (S \ T) = {}
  OBVIOUS
<1>5. Cardinality(S) = Cardinality(T) + Cardinality(S \ T) - Cardinality({})
  <2>1. Cardinality(T \cup (S \ T)) = Cardinality(T) + Cardinality(S \ T) - Cardinality(T \cap (S \ T))
    BY <1>3, FS_Union
  <2> QED BY <2>1, <1>4
<1>6. Cardinality({}) = 0 /\ (Cardinality(S) = 0 <=> S = {})
  BY <1>2, FS_EmptySet
<1>7. Cardinality(T) \in Nat /\ Cardinality(S \ T) \in Nat /\ Cardinality(S) \in Nat
  BY <1>2, <1>3, FS_CardinalityType
<1> QED BY <1>2, <1>5, <1>6, <1>7

\* What query_sample returns, when it asks anybody.
LEMMA RoundCounts ==
  ASSUME participants \subseteq Voters, Asked # {}
  PROVE  /\ Yes \in Nat /\ No \in Nat /\ Yes + No > 0 /\ Yes + No <= Cardinality(Voters)
         /\ RoundShare \in 0 .. One /\ Backed(RoundShare, Yes, No)
<1>1. Asked \in SUBSET Voters /\ AskedYes \in SUBSET Asked
  BY DEF Asked, AskedYes
<1>2. /\ Yes \in Nat /\ No \in Nat /\ Yes + No = Cardinality(Asked)
      /\ Cardinality(Asked) <= Cardinality(Voters) /\ Cardinality(Asked) > 0
  BY <1>1, SplitCount DEF Yes, No
<1>3. Yes + No > 0 /\ Yes + No <= Cardinality(Voters)
  BY <1>2
<1> QED BY <1>2, <1>3, ShareBounds DEF RoundShare

LEMMA QueryCounts ==
  ASSUME Counts, Query
  PROVE  /\ byzantine' \subseteq Voters /\ participants' \subseteq Voters
         /\ conflicts' \in [Vertices -> SUBSET Vertices]
BY DEF Counts, Query, Turncoats, Asked

LEMMA NextRoundCounts ==
  ASSUME RunOnVertex, Counts, run # NoRun, run.round < MaxRounds,
         NEW st, NEW c \in 0 .. One, NextRound(st, c),
         finalized' = finalized,
         c > 0 => confidence'[run.vertex] # NoConfidence,
         run.mode = "fast" /\ c > 0 =>
           Backed(c, confidence'[run.vertex].pos, confidence'[run.vertex].neg)
  PROVE  RunCounts' /\ answer' \in Answer /\ finalized' \in 0 .. MaxFinalized
<1>1. /\ run'.vertex = run.vertex /\ run'.mode = run.mode
      /\ run'.round = run.round + 1 /\ run'.current = c
  BY NextRoundRun
<1>2. run'.round \in 0 .. MaxRounds /\ finalized' < MaxFinalized
  BY <1>1, QRAvalancheAssumption DEF Counts, RunCounts
<1>3. answer' = answer
  BY DEF NextRound
<1> QED BY <1>1, <1>2, <1>3 DEF RunCounts, Counts, Tracked

LEMMA EndRunCounts ==
  ASSUME Counts, run # NoRun, NEW a \in Answer, EndRun(a),
         Finalize(run.vertex) \/ Reject(run.vertex) \/ Undecided
  PROVE  RunCounts' /\ answer' \in Answer /\ finalized' \in 0 .. MaxFinalized
<1>1. finalized' = finalized \/ finalized' = finalized + 1
  BY DEF Finalize, Reject, Undecided
<1>2. finalized \in Nat /\ finalized < MaxFinalized /\ MaxFinalized \in Nat
  BY QRAvalancheAssumption DEF Counts, RunCounts
<1>3. RunCounts' /\ answer' = a
  BY DEF EndRun, RunCounts
<1> QED BY <1>1, <1>2, <1>3

\* Smoothing a share with the one before.
LEMMA Smoothed ==
  ASSUME NEW r \in 0 .. One, NEW x \in 0 .. One
  PROVE  /\ (9 * r + x) \div 10 \in 0 .. One
         /\ 10 * ((9 * r + x) \div 10) <= 9 * r + x
<1> DEFINE m == 9 * r + x
           q == m \div 10
<1>0. One \in Int
  BY OneIsNat
<1>1. m \in Int /\ 0 <= m /\ m <= 10 * One
  BY <1>0, SMT
<1> HIDE DEF m
<1>2. q \in Int /\ 10 * q <= m /\ m < 10 * q + 10
  BY <1>1, SMT
<1> HIDE DEF q
<1>3. q \in 0 .. One /\ 10 * q <= m
  BY <1>0, <1>1, <1>2, SMT
<1> QED BY <1>3 DEF m, q

LEMMA TrackedRecord ==
  ASSUME NEW c \in Confidence, c # NoConfidence
  PROVE  /\ c \in [value : 0 .. One, pos : Nat, neg : Nat]
         /\ c.value \in 0 .. One /\ c.pos \in Nat /\ c.neg \in Nat
BY DEF Confidence

\* A new record of a tracked vertex.
LEMMA NewConfidence ==
  ASSUME confidence \in [Vertices -> Confidence], NEW v \in Vertices,
         NEW x \in 0 .. One, NEW pos \in Nat, NEW neg \in Nat,
         pos + neg <= Cardinality(Voters),
         confidence' = [confidence EXCEPT ![v] = [value |-> x, pos |-> pos, neg |-> neg]]
  PROVE  /\ confidence' \in [Vertices -> Confidence]
         /\ confidence'[v] # NoConfidence
         /\ confidence'[v].pos = pos /\ confidence'[v].neg = neg
<1> DEFINE c == [value |-> x, pos |-> pos, neg |-> neg]
<1>1. c.value = x /\ c.pos = pos /\ c.neg = neg /\ c \in [value : 0 .. One, pos : Nat, neg : Nat]
  OBVIOUS
<1>2. c \in Confidence
  BY <1>1 DEF Confidence
<1>3. c # NoConfidence
  <2>1. NoConfidence.value = -1 /\ x >= 0
    BY SMT DEF NoConfidence
  <2> QED BY <1>1, <2>1, SMT
<1> HIDE DEF c
<1>4. confidence'[v] = c /\ confidence' \in [Vertices -> Confidence]
  BY <1>2 DEF c
<1> QED BY <1>1, <1>3, <1>4

Decided == \A v \in Vertices : status[v] # "Final" /\ status'[v] = "Final" => Supported(v)

LEMMA NothingFinal ==
  ASSUME Shape, NEW v \in Vertices, (Finalize(v) /\ Supported(v)) \/ Reject(v) \/ Undecided
  PROVE  Decided
BY DEF Shape, Finalize, Reject, Undecided, Decided, Status

\* The confidence a full round leaves, and what makes it final.
LEMMA FullRoundCounts ==
  ASSUME IndInv, Counts, FullRound
  PROVE  Counts' /\ Decided
<1> DEFINE v == run.vertex
           smooth == (9 * RoundShare + confidence[v].value) \div 10
           current == IF Tracked(v) THEN smooth ELSE run.current
<1>0. NoRun.mode = "none" /\ run.mode = "full"
  BY DEF NoRun, FullRound
<1>1. run # NoRun /\ v \in Vertices /\ run.round < MaxRounds /\ Asked # {} /\ Query
  BY <1>0 DEF FullRound, IndInv, Shape, RunOnVertex
<1>2. /\ Yes \in Nat /\ No \in Nat /\ Yes + No > 0 /\ Yes + No <= Cardinality(Voters)
      /\ RoundShare \in 0 .. One /\ Backed(RoundShare, Yes, No)
  BY <1>1, RoundCounts DEF Counts
<1>3. confidence[v] \in Confidence /\ run.current \in 0 .. One /\ (run.current > 0 => Tracked(v))
  BY <1>1 DEF Counts, RunCounts
<1>4. ASSUME Tracked(v)
      PROVE  /\ confidence[v].value \in 0 .. One /\ smooth \in 0 .. One
             /\ 10 * smooth <= 9 * RoundShare + confidence[v].value
  <2>1. confidence[v].value \in 0 .. One
    <3>1. confidence[v] \in Confidence /\ confidence[v] # NoConfidence
      BY <1>3, <1>4 DEF Tracked
    <3> HIDE DEF v
    <3> QED BY <3>1, TrackedRecord
  <2>2. confidence[v].value \in 0 .. One /\ RoundShare \in 0 .. One
    BY <2>1, <1>2
  <2> QED BY <2>2, Smoothed
<1>5. confidence' = IF Tracked(v)
                    THEN [confidence EXCEPT ![v] = [value |-> smooth, pos |-> Yes, neg |-> No]]
                    ELSE confidence
  BY DEF FullRound
<1>6. /\ confidence' \in [Vertices -> Confidence]
      /\ Tracked(v) => /\ confidence'[v] # NoConfidence
                       /\ confidence'[v].pos = Yes /\ confidence'[v].neg = No
  <2>1. CASE Tracked(v)
    <3>1. smooth \in 0 .. One /\ v \in Vertices
      BY <2>1, <1>1, <1>4
    <3>2. confidence' = [confidence EXCEPT ![v] = [value |-> smooth, pos |-> Yes, neg |-> No]]
      BY <2>1, <1>5
    <3>3. confidence \in [Vertices -> Confidence]
      BY DEF Counts
    <3> HIDE DEF v, smooth
    <3> QED BY <3>1, <3>2, <3>3, <1>2, NewConfidence
  <2>2. CASE ~Tracked(v)
    BY <2>2, <1>5 DEF Counts
  <2> QED BY <2>1, <2>2
<1>7. current \in 0 .. One /\ (current > 0 => confidence'[v] # NoConfidence)
  BY <1>3, <1>4, <1>6
<1> HIDE DEF v, smooth, current
<1> DEFINE weaker == IF run.strong > 1 THEN run.strong - 1 ELSE 0
           threshold == IF run.strong + 1 >= 2 THEN Beta * 9500 ELSE Pct(Beta)
<1>8. \/ /\ RoundShare >= Pct(Alpha) /\ current >= threshold
         /\ Finalize(v) /\ EndRun("Final")
      \/ Undecided /\ NextRound(run.strong + 1, current)
      \/ Reject(v) /\ EndRun("Rejected")
      \/ Undecided /\ NextRound(0, current)
      \/ Undecided /\ NextRound(weaker, current)
  BY SMTT(60) DEF FullRound, v, smooth, current
<1>9. CASE Undecided /\ \E st : NextRound(st, current)
  <2>1. finalized' = finalized
    BY <1>9 DEF Undecided
  <2>2. RunCounts' /\ answer' \in Answer /\ finalized' \in 0 .. MaxFinalized
    BY <1>9, <1>0, <1>1, <1>7, <2>1, NextRoundCounts DEF IndInv, Shape, v
  <2> QED BY <1>9, <1>1, <1>6, <2>2, QueryCounts, NothingFinal DEF Counts, IndInv
<1>10. CASE Reject(v) /\ EndRun("Rejected")
  <2>1. RunCounts' /\ answer' \in Answer /\ finalized' \in 0 .. MaxFinalized
    BY <1>10, <1>1, EndRunCounts DEF v, Answer
  <2> QED BY <1>10, <1>1, <1>6, <2>1, QueryCounts, NothingFinal DEF Counts, IndInv
<1>11. CASE /\ RoundShare >= Pct(Alpha) /\ current >= threshold
            /\ Finalize(v) /\ EndRun("Final")
  <2>1. RunCounts' /\ answer' \in Answer /\ finalized' \in 0 .. MaxFinalized
    BY <1>11, <1>1, EndRunCounts DEF v, Answer
  <2>2. threshold \in Int /\ threshold >= Beta * 9500 /\ threshold > 0
    BY QRAvalancheAssumption, SMT DEF Pct
  <2> HIDE DEF threshold
  <2>3. Tracked(v)
    <3>1. current > 0
      BY <1>7, <1>11, <2>2, SMT
    <3> QED BY <1>3, <3>1 DEF current
  <2>4. RoundShare >= Beta * 8500
    <3>1. current = smooth /\ RoundShare >= Alpha * 10000
      BY <1>11, <2>3 DEF current, Pct
    <3>2. confidence[v].value <= One /\ 10 * current <= 9 * RoundShare + confidence[v].value
          /\ confidence[v].value \in Int
      BY <1>4, <2>3, <3>1, SMT DEF smooth
    <3>3. current \in Int /\ current >= Beta * 9500 /\ Beta \in 51 .. 100 /\ Alpha \in 51 .. 100
      <4>1. Beta \in 51 .. 100 /\ Alpha \in 51 .. 100
        BY QRAvalancheAssumption
      <4> QED BY <4>1, <1>7, <1>11, <2>2, SMT
    <3>4. RoundShare \in Int /\ RoundShare >= Alpha * 10000
      BY <1>2, <3>1, SMT
    <3>5. CASE Beta <= 60
      BY <3>3, <3>4, <3>5, SMT
    <3>6. CASE Beta > 60
      <4>1. 95000 * Beta <= 9 * RoundShare + One
        BY <3>2, <3>3, <3>4, SMT DEF One
      <4> QED BY <4>1, <3>3, <3>4, <3>6, SMT DEF One
    <3>7. Beta <= 60 \/ Beta > 60
      BY <3>3, SMT
    <3> QED BY <3>5, <3>6, <3>7
  <2>5. Supported(v)
    <3>1. RoundShare \in Nat
      <4>1. RoundShare \in 0 .. One
        BY <1>2
      <4> QED BY <4>1
    <3>2. RoundShare >= Least
      BY <2>4 DEF Least
    <3>3. Enough(Yes, No)
      BY <3>1, <3>2, <1>2, ShareIsSupport
    <3> QED BY <3>3, <1>6, <2>3 DEF Supported
  <2> QED BY <1>11, <1>1, <1>6, <2>1, <2>5, QueryCounts, NothingFinal DEF Counts, IndInv
<1> QED BY <1>8, <1>9, <1>10, <1>11

LEMMA FastRoundCounts ==
  ASSUME IndInv, Counts, FastRound
  PROVE  Counts' /\ Decided
<1> DEFINE v == run.vertex
           current == IF Tracked(v) THEN RoundShare ELSE run.current
<1>0. NoRun.mode = "none" /\ run.mode = "fast"
  BY DEF NoRun, FastRound
<1>1. run # NoRun /\ v \in Vertices /\ run.round < MaxRounds /\ Asked # {} /\ Query
  BY <1>0 DEF FastRound, IndInv, Shape, RunOnVertex
<1>2. /\ Yes \in Nat /\ No \in Nat /\ Yes + No > 0 /\ Yes + No <= Cardinality(Voters)
      /\ RoundShare \in 0 .. One /\ Backed(RoundShare, Yes, No)
  BY <1>1, RoundCounts DEF Counts
<1>3. confidence[v] \in Confidence /\ run.current \in 0 .. One /\ (run.current > 0 => Tracked(v))
  BY <1>1 DEF Counts, RunCounts
<1>5. confidence' = IF Tracked(v)
                    THEN [confidence EXCEPT ![v] = [value |-> RoundShare, pos |-> Yes, neg |-> No]]
                    ELSE confidence
  BY DEF FastRound
<1>6. /\ confidence' \in [Vertices -> Confidence]
      /\ Tracked(v) => /\ confidence'[v] # NoConfidence
                       /\ confidence'[v].pos = Yes /\ confidence'[v].neg = No
  <2>1. CASE Tracked(v)
    <3>1. v \in Vertices
      BY <1>1
    <3>2. confidence' = [confidence EXCEPT ![v] = [value |-> RoundShare, pos |-> Yes, neg |-> No]]
      BY <2>1, <1>5
    <3>3. confidence \in [Vertices -> Confidence]
      BY DEF Counts
    <3> HIDE DEF v
    <3> QED BY <3>1, <3>2, <3>3, <1>2, NewConfidence
  <2>2. CASE ~Tracked(v)
    BY <2>2, <1>5 DEF Counts
  <2> QED BY <2>1, <2>2
<1>7. current \in 0 .. One /\ (current > 0 => Tracked(v) /\ current = RoundShare)
  BY <1>2, <1>3
<1> HIDE DEF v, current
<1>8. \/ RoundShare >= Alpha * 9500 /\ current >= Beta * 9000 /\ Finalize(v) /\ EndRun("Final")
      \/ Undecided /\ NextRound(run.strong + 1, current)
      \/ Reject(v) /\ EndRun("Rejected")
      \/ Undecided /\ NextRound(run.strong, current)
  BY SMTT(60) DEF FastRound, v, current
<1>9. CASE Undecided /\ \E st : NextRound(st, current)
  <2>1. finalized' = finalized
    BY <1>9 DEF Undecided
  <2>2. current > 0 => /\ confidence'[v] # NoConfidence
                       /\ Backed(current, confidence'[v].pos, confidence'[v].neg)
    BY <1>2, <1>6, <1>7
  <2>3. RunCounts' /\ answer' \in Answer /\ finalized' \in 0 .. MaxFinalized
    BY <1>9, <1>1, <1>7, <2>1, <2>2, NextRoundCounts DEF IndInv, Shape, v
  <2> QED BY <1>9, <1>1, <1>6, <2>3, QueryCounts, NothingFinal DEF Counts, IndInv
<1>10. CASE Reject(v) /\ EndRun("Rejected")
  <2>1. RunCounts' /\ answer' \in Answer /\ finalized' \in 0 .. MaxFinalized
    BY <1>10, <1>1, EndRunCounts DEF v, Answer
  <2> QED BY <1>10, <1>1, <1>6, <2>1, QueryCounts, NothingFinal DEF Counts, IndInv
<1>11. CASE current >= Beta * 9000 /\ Finalize(v) /\ EndRun("Final")
  <2>1. RunCounts' /\ answer' \in Answer /\ finalized' \in 0 .. MaxFinalized
    BY <1>11, <1>1, EndRunCounts DEF v, Answer
  <2>2. current \in Int /\ current > 0 /\ current >= Beta * 8500
    <3>1. Beta \in 51 .. 100
      BY QRAvalancheAssumption
    <3>2. current \in Int
      BY <1>7
    <3> QED BY <3>1, <3>2, <1>11, SMT
  <2>3. current \in Nat /\ Tracked(v) /\ current = RoundShare
    BY <1>7, <2>2
  <2>4. Enough(Yes, No)
    <3>1. RoundShare \in Nat
      BY <2>3
    <3>2. RoundShare >= Least
      BY <2>2, <2>3 DEF Least
    <3> QED BY <3>1, <3>2, <1>2, ShareIsSupport
  <2>5. Supported(v)
    BY <2>3, <2>4, <1>6 DEF Supported
  <2> QED BY <1>11, <1>1, <1>6, <2>1, <2>5, QueryCounts, NothingFinal DEF Counts, IndInv
<1> QED BY <1>8, <1>9, <1>10, <1>11

\* The end of a fast run: what it finalises has the share run.current on
\* record.
LEMMA FastEndCounts ==
  ASSUME IndInv, Counts, FastEnd
  PROVE  Counts' /\ Decided
<1> DEFINE v == run.vertex
<1>0. NoRun.mode = "none" /\ run.mode = "fast"
  BY DEF NoRun, FastEnd
<1>1. run # NoRun /\ v \in Vertices
  BY <1>0 DEF IndInv, Shape, RunOnVertex
<1>2. UNCHANGED <<confidence, byzantine, participants, conflicts>>
  BY DEF FastEnd, records
<1>3. CASE Undecided /\ \E a \in Answer : EndRun(a)
  <2>1. RunCounts' /\ answer' \in Answer /\ finalized' \in 0 .. MaxFinalized
    BY <1>1, <1>3, EndRunCounts
  <2> QED BY <1>1, <1>2, <1>3, <2>1, NothingFinal DEF Counts, IndInv
<1>4. CASE run.current >= Beta * 8500 /\ Finalize(v) /\ EndRun("Final")
  <2>1. RunCounts' /\ answer' \in Answer /\ finalized' \in 0 .. MaxFinalized
    BY <1>4, <1>1, EndRunCounts DEF Answer
  <2>2. run.current \in Nat /\ run.current > 0
    <3>1. Beta \in 51 .. 100
      BY QRAvalancheAssumption
    <3>2. run.current \in 0 .. One
      BY <1>1 DEF Counts, RunCounts
    <3>3. run.current \in Nat
      BY <3>2
    <3> QED BY <3>1, <3>3, <1>4, SMT
  <2>3. confidence[v] \in Confidence /\ confidence[v] # NoConfidence
    BY <1>1, <2>2 DEF Counts, RunCounts, Tracked
  <2>4. confidence[v].pos \in Nat /\ confidence[v].neg \in Nat
    BY <2>3, TrackedRecord
  <2>5. Backed(run.current, confidence[v].pos, confidence[v].neg)
    BY <1>0, <1>1, <2>2 DEF Counts, RunCounts
  <2>6. Supported(v)
    <3>1. Enough(confidence[v].pos, confidence[v].neg)
      <4>1. run.current \in Nat
        BY <2>2
      <4>2. run.current >= Least
        BY <1>4 DEF Least
      <4> HIDE DEF v
      <4> QED BY <4>1, <4>2, <2>4, <2>5, ShareIsSupport
    <3>2. confidence'[v] = confidence[v]
      BY <1>2
    <3> QED BY <3>1, <3>2 DEF Supported
  <2> QED BY <1>1, <1>2, <1>4, <2>1, <2>6, NothingFinal DEF Counts, IndInv
<1>5. \/ Undecided /\ \E a \in Answer : EndRun(a)
      \/ run.current >= Beta * 8500 /\ Finalize(v) /\ EndRun("Final")
  BY DEF FastEnd, Answer
<1> QED BY <1>3, <1>4, <1>5

\* The other steps of a run decide nothing.
LEMMA OtherRunStepCounts ==
  ASSUME IndInv, Counts, NobodyAsked \/ FullEnd \/ FastPass \/ DropRun
  PROVE  Counts' /\ Decided
<1>0. NoRun.mode = "none"
  BY DEF NoRun
<1>1. run # NoRun /\ run.vertex \in Vertices
  BY <1>0 DEF IndInv, Shape, RunOnVertex, NobodyAsked, FullEnd, FastPass, DropRun
<1>2. UNCHANGED <<confidence, byzantine, participants, conflicts>> /\ Undecided
  BY DEF NobodyAsked, FullEnd, FastPass, DropRun, records
<1>3. CASE \E a \in Answer : EndRun(a)
  <2>1. RunCounts' /\ answer' \in Answer /\ finalized' \in 0 .. MaxFinalized
    BY <1>1, <1>2, <1>3, EndRunCounts
  <2> QED BY <1>1, <1>2, <2>1, NothingFinal DEF Counts, IndInv
<1>4. CASE FastPass
  <2>1. NextRound(run.strong, run.current) /\ run.round < MaxRounds /\ finalized' = finalized
    BY <1>2, <1>4 DEF FastPass, Undecided
  <2>2. /\ run.current \in 0 .. One
        /\ run.current > 0 => confidence'[run.vertex] # NoConfidence
        /\ run.mode = "fast" /\ run.current > 0 =>
             Backed(run.current, confidence'[run.vertex].pos, confidence'[run.vertex].neg)
    BY <1>1, <1>2 DEF Counts, RunCounts, Tracked
  <2>3. RunCounts' /\ answer' \in Answer /\ finalized' \in 0 .. MaxFinalized
    BY <1>1, <2>1, <2>2, NextRoundCounts DEF IndInv, Shape
  <2> QED BY <1>1, <1>2, <2>3, NothingFinal DEF Counts, IndInv
<1>5. FastPass \/ \E a \in Answer : EndRun(a)
  BY DEF NobodyAsked, FullEnd, DropRun, Answer
<1> QED BY <1>3, <1>4, <1>5

LEMMA RecordVoteCounts ==
  ASSUME IndInv, Counts, NEW v \in Vertices, NEW p \in Voters, NEW vote \in {"yes", "no"},
         RecordVote(v, p, vote)
  PROVE  Counts' /\ Decided
<1> DEFINE voted == {q \in Voters : votes'[v][q] \in {"yes", "no"}}
           yes == {q \in Voters : votes'[v][q] = "yes"}
           no == {q \in Voters : votes'[v][q] = "no"}
           pos == Cardinality(yes)
           neg == Cardinality(no)
           share == Share(pos, neg)
<1>1. votes'[v][p] = vote
  BY DEF RecordVote, IndInv, Shape
<1>2. pos \in Nat /\ neg \in Nat /\ pos + neg > 0 /\ pos + neg <= Cardinality(Voters)
  <2>1. voted \in SUBSET Voters /\ yes \in SUBSET voted /\ voted \ yes = no /\ voted # {}
    BY <1>1
  <2> HIDE DEF voted, yes, no
  <2>2. /\ pos \in Nat /\ neg \in Nat /\ pos + neg = Cardinality(voted)
        /\ Cardinality(voted) <= Cardinality(Voters) /\ Cardinality(voted) > 0
    BY <2>1, SplitCount
  <2> HIDE DEF pos, neg
  <2> QED BY <2>2
<1>3. \/ /\ Tracked(v)
         /\ confidence' = [confidence EXCEPT ![v] = [value |-> share, pos |-> pos, neg |-> neg]]
         /\ (share >= Pct(Beta) /\ Finalize(v)) \/ Reject(v) \/ Undecided
      \/ UNCHANGED confidence /\ Undecided
  BY Zenon DEF RecordVote
<1>4. /\ finalized < MaxFinalized /\ run = NoRun
      /\ UNCHANGED <<byzantine, participants, conflicts, run, answer>>
  BY DEF RecordVote, MoreVotes, runVars
<1> HIDE DEF pos, neg, share
<1>5. share \in 0 .. One /\ Backed(share, pos, neg)
  BY <1>2, ShareBounds DEF share
<1>6. /\ (Finalize(v) /\ Supported(v)) \/ Reject(v) \/ Undecided
      /\ confidence' \in [Vertices -> Confidence]
  <2>1. CASE /\ Tracked(v)
             /\ confidence' = [confidence EXCEPT ![v] = [value |-> share, pos |-> pos, neg |-> neg]]
             /\ (share >= Pct(Beta) /\ Finalize(v)) \/ Reject(v) \/ Undecided
    <3>1. confidence' \in [Vertices -> Confidence] /\ confidence'[v].pos = pos /\ confidence'[v].neg = neg
      BY <2>1, <1>2, <1>5, NewConfidence DEF Counts
    <3>2. CASE share >= Pct(Beta)
      <4>1. share \in Nat
        BY <1>5
      <4>2. share >= Least
        <5>1. Beta \in 51 .. 100
          BY QRAvalancheAssumption
        <5> QED BY <5>1, <4>1, <3>2, SMT DEF Pct, Least
      <4>3. Enough(pos, neg)
        BY <1>2, <1>5, <4>1, <4>2, ShareIsSupport
      <4>4. Supported(v)
        BY <3>1, <4>3 DEF Supported
      <4> QED BY <2>1, <3>1, <4>4
    <3>3. CASE ~(share >= Pct(Beta))
      BY <2>1, <3>1, <3>3
    <3> QED BY <3>2, <3>3
  <2>2. CASE UNCHANGED confidence /\ Undecided
    BY <2>2 DEF Counts
  <2> QED BY <1>3, <2>1, <2>2
<1>7. finalized' \in 0 .. MaxFinalized
  <2>1. finalized' = finalized \/ finalized' = finalized + 1
    BY <1>6 DEF Finalize, Reject, Undecided
  <2>2. finalized \in Nat /\ MaxFinalized \in Nat
    BY QRAvalancheAssumption DEF Counts
  <2> QED BY <1>4, <2>1, <2>2
<1>8. RunCounts'
  BY <1>4 DEF RunCounts
<1> QED BY <1>4, <1>6, <1>7, <1>8, NothingFinal DEF Counts, IndInv

\* Steps outside the runs that cast no vote.
LEMMA QuietCounts ==
  ASSUME IndInv, Counts,
         \/ \E v \in Vertices : ProcessVertex(v)
         \/ \E p \in Voters : AddParticipant(p)
         \/ \E v \in Vertices, p \in Voters, vote \in {"yes", "no"} : ContradictingVote(v, p, vote)
         \/ \E v \in Vertices, mode \in {"full", "fast"} : StartRun(v, mode)
         \/ DetectByzantinePatterns
         \/ UNCHANGED vars
  PROVE  Counts' /\ Decided
<1>1. CASE \E v \in Vertices : ProcessVertex(v)
  <2>1. PICK v \in Vertices : ProcessVertex(v)
    BY <1>1
  <2>2. confidence' \in [Vertices -> Confidence]
    <3>1. 0 \in 0 .. One /\ 0 + 0 <= Cardinality(Voters)
      <4>1. Cardinality(Voters) \in Nat
        BY QRAvalancheAssumption, FS_CardinalityType
      <4> QED BY <4>1, OneIsNat
    <3>2. confidence' = [confidence EXCEPT ![v] = [value |-> 0, pos |-> 0, neg |-> 0]]
      BY <2>1 DEF ProcessVertex
    <3> QED BY <3>1, <3>2, NewConfidence DEF Counts
  <2>3. Decided
    BY <2>1 DEF ProcessVertex, Decided, IndInv, Shape, Status
  <2> QED BY <2>1, <2>2, <2>3 DEF ProcessVertex, records, runVars, Counts, RunCounts
<1>2. CASE \/ \E p \in Voters : AddParticipant(p)
           \/ \E v \in Vertices, p \in Voters, vote \in {"yes", "no"} : ContradictingVote(v, p, vote)
           \/ DetectByzantinePatterns
           \/ UNCHANGED vars
  <2>1. /\ UNCHANGED <<status, confidence, conflicts, finalized, run, answer>>
        /\ byzantine' \subseteq Voters /\ participants' \subseteq Voters
    BY <1>2 DEF AddParticipant, ContradictingVote, DetectByzantinePatterns, runVars, vars, Counts
  <2>2. RunCounts'
    BY <2>1 DEF Counts, RunCounts, Tracked
  <2> QED BY <2>1, <2>2 DEF Counts, Decided
<1>3. CASE \E v \in Vertices, mode \in {"full", "fast"} : StartRun(v, mode)
  <2>1. /\ UNCHANGED <<status, confidence, byzantine, participants, conflicts, finalized>>
        /\ answer' = "none" /\ finalized < MaxFinalized
        /\ run'.round = 0 /\ run'.current = 0
    BY <1>3, QRAvalancheAssumption DEF StartRun, MoreVotes, records
  <2>2. 0 \in 0 .. MaxRounds /\ 0 \in 0 .. One
    BY QRAvalancheAssumption, OneIsNat
  <2>3. RunCounts'
    BY <2>1, <2>2 DEF RunCounts
  <2> QED BY <2>1, <2>3 DEF Counts, Decided, Answer
<1> QED BY <1>1, <1>2, <1>3

LEMMA ResolveCounts ==
  ASSUME IndInv, Counts, DetectAndResolveForks
  PROVE  Counts' /\ Decided
<1>1. PICK place, head, winner, rejected : Resolution(place, head, winner, rejected)
  BY Resolves
<1>2. UNCHANGED <<confidence, byzantine, participants, finalized, run, answer>> /\ run = NoRun
  BY DEF DetectAndResolveForks, runVars
<1>3. Decided
  BY <1>1 DEF Decided, Resolution
<1>4. conflicts' \in [Vertices -> SUBSET Vertices]
  BY <1>1 DEF Resolution, Counts, Pending
<1>5. RunCounts'
  BY <1>2 DEF RunCounts
<1> QED BY <1>2, <1>3, <1>4, <1>5 DEF Counts

THEOREM CountsInductive == Spec => [](IndInv /\ Counts)
<1>1. Init => Counts
  <2> SUFFICES ASSUME Init PROVE Counts
    OBVIOUS
  <2>1. confidence \in [Vertices -> Confidence]
    BY DEF Init, Confidence
  <2>2. RunCounts
    BY DEF Init, RunCounts
  <2>3. finalized \in 0 .. MaxFinalized
    BY QRAvalancheAssumption DEF Init
  <2> QED BY <2>1, <2>2, <2>3 DEF Init, Counts, Answer
<1>2. ASSUME IndInv, Counts, [Next]_vars PROVE Counts'
  BY <1>2, FullRoundCounts, FastRoundCounts, FastEndCounts, OtherRunStepCounts,
     RecordVoteCounts, QuietCounts, ResolveCounts, OnVertices DEF RunStep
<1> QED BY <1>1, <1>2, Inductive, PTL DEF Spec

\* Types, ranges and bounds: confidences are shares of at most as many votes
\* as there are participants, whatever votes, runs and forks do
\* (consensus.rs:316-335).
THEOREM TypeCorrect == Spec => []TypeOK
<1>1. IndInv /\ Counts => TypeOK
  <2> SUFFICES ASSUME IndInv, Counts PROVE TypeOK
    OBVIOUS
  <2>1. ASSUME NEW v \in Vertices, Tracked(v)
        PROVE  /\ confidence[v].value \in 0 .. One
               /\ confidence[v].pos + confidence[v].neg <= Cardinality(Voters)
    <3>1. confidence[v] \in Confidence /\ confidence[v] # NoConfidence
      BY <2>1 DEF Counts, Tracked
    <3> QED BY <3>1 DEF Confidence
  <2> QED BY <2>1 DEF IndInv, Shape, Counts, RunCounts, TypeOK
<1> QED BY <1>1, CountsInductive, PTL

\* A vertex becomes final only with 85% of beta of the votes on record in its
\* favour, for any thresholds above a half: in a vote, in either kind of round
\* whatever earlier confidence is smoothed in, and at the end of a fast run
\* (consensus.rs:409, 767, 878).
THEOREM SupportAtFinalityAlways == Spec => SupportAtFinality
<1>1. ASSUME IndInv, Counts, [Next]_vars PROVE Decided
  BY <1>1, FullRoundCounts, FastRoundCounts, FastEndCounts, OtherRunStepCounts,
     RecordVoteCounts, QuietCounts, ResolveCounts, OnVertices DEF RunStep
<1>2. Decided =>
        \A v \in Vertices :
          status[v] # "Final" /\ status'[v] = "Final" =>
            /\ confidence'[v].pos > 0
            /\ confidence'[v].pos * 10000 >= Beta * 85 * (confidence'[v].pos + confidence'[v].neg)
  BY DEF Decided, Supported, Enough
<1> QED BY <1>1, <1>2, CountsInductive, PTL DEF Spec, SupportAtFinality

-----------------------------------------------------------------------------
(***************************************************************************)
(* Forks.                                                                  *)
(***************************************************************************)
\* A set of natural numbers has a least one.
LEMMA LeastNumber ==
  ASSUME NEW S \in SUBSET Nat, S # {}
  PROVE  \E k \in S : \A j \in S : k <= j
<1> DEFINE Less == {x \in Nat \X Nat : x[1] < x[2]}
<1>1. IsWellFoundedOn(Less, Nat)
  BY NatLessThanWellFounded DEF OpToRel
<1>2. PICK k \in S : \A j \in S : ~ (<<j, k>> \in Less)
  <2> HIDE DEF Less
  <2> QED BY <1>1, WFMin
<1>3. ASSUME NEW j \in S PROVE k <= j
  <2>1. ~ (<<j, k>> \in Less)
    BY <1>2
  <2> QED BY <2>1
<1> QED BY <1>3

LEMMA ValueIsShare ==
  ASSUME Counts, NEW v \in Vertices
  PROVE  Value(v) \in 0 .. One
<1>1. CASE Tracked(v)
  <2>1. confidence[v] \in Confidence /\ confidence[v] # NoConfidence
    BY <1>1 DEF Counts, Tracked
  <2> QED BY <2>1, <1>1, TrackedRecord DEF Value
<1>2. CASE ~Tracked(v)
  BY <1>2, OneIsNat DEF Value
<1> QED BY <1>1, <1>2

\* resolve_conflict_set finds a winner in every set: one at least as confident
\* as each of the others.
Beats(place, v, w) == Value(v) > Value(w) \/ (Value(v) = Value(w) /\ place[v] < place[w])

LEMMA WinnerExists ==
  ASSUME Counts, NEW place \in Injection(Pending, 1 .. Cardinality(Pending)),
         NEW set \in SUBSET Pending, set # {}
  PROVE  /\ Winner(place, set) \in set
         /\ \A w \in set : Value(w) <= Value(Winner(place, set))
<1>1. /\ set \subseteq Vertices
      /\ \A v \in set : Value(v) \in Nat /\ Value(v) <= One
      /\ \A v \in set : place[v] \in Nat
      /\ \A v, w \in set : v # w => place[v] # place[w]
  <2>1. \A v \in Vertices : Value(v) \in 0 .. One
    BY ValueIsShare
  <2>2. Pending \subseteq Vertices /\ set \subseteq Pending
    BY DEF Pending
  <2>3. place \in [Pending -> 1 .. Cardinality(Pending)] /\ IsInjective(place)
    BY DEF Injection
  <2>4. \A v \in set : place[v] \in Nat
    BY <2>2, <2>3
  <2>5. \A v, w \in set : v # w => place[v] # place[w]
    BY <2>2, <2>3 DEF IsInjective
  <2> QED BY <2>1, <2>2, <2>4, <2>5, OneIsNat
<1>2. PICK b \in set : \A w \in set : Value(w) <= Value(b)
  <2> DEFINE D == {One - Value(w) : w \in set}
  <2>1. D \in SUBSET Nat /\ D # {}
    BY <1>1, OneIsNat
  <2>2. PICK k \in D : \A j \in D : k <= j
    <3> HIDE DEF D
    <3> QED BY <2>1, LeastNumber
  <2>3. PICK b \in set : k = One - Value(b)
    BY <2>2
  <2>4. ASSUME NEW w \in set PROVE Value(w) <= Value(b)
    <3>1. One - Value(b) <= One - Value(w)
      BY <2>2, <2>3
    <3> QED BY <3>1, <1>1, OneIsNat
  <2> QED BY <2>4
<1> DEFINE best == {w \in set : Value(w) = Value(b)}
           P == {place[w] : w \in best}
<1>3. PICK c \in best : \A w \in best : place[c] <= place[w]
  <2>1. P \in SUBSET Nat /\ P # {}
    BY <1>1
  <2>2. PICK k \in P : \A j \in P : k <= j
    <3> HIDE DEF P
    <3> QED BY <2>1, LeastNumber
  <2> QED BY <2>2
<1>4. \A w \in set \ {c} : Beats(place, c, w)
  <2> SUFFICES ASSUME NEW w \in set \ {c} PROVE Beats(place, c, w)
    OBVIOUS
  <2>1. Value(c) = Value(b) /\ Value(w) <= Value(b) /\ Value(w) \in Nat /\ Value(b) \in Nat
    BY <1>1, <1>2
  <2>2. CASE Value(w) = Value(b)
    <3>1. place[c] <= place[w] /\ place[c] # place[w] /\ place[c] \in Nat /\ place[w] \in Nat
      BY <1>1, <1>3, <2>2
    <3> QED BY <2>1, <2>2, <3>1 DEF Beats
  <2>3. CASE Value(w) # Value(b)
    BY <2>1, <2>3 DEF Beats
  <2> QED BY <2>2, <2>3
<1> DEFINE win == Winner(place, set)
<1>5. win \in set /\ \A w \in set \ {win} : Beats(place, win, w)
  <2>1. win = CHOOSE v \in set : \A w \in set \ {v} : Beats(place, v, w)
    BY DEF Winner, Beats
  <2> HIDE DEF win
  <2> QED BY <1>3, <1>4, <2>1
<1>6. ASSUME NEW w \in set PROVE Value(w) <= Value(win)
  <2>1. Value(w) \in Nat /\ Value(win) \in Nat
    BY <1>1, <1>5
  <2> HIDE DEF win
  <2> QED BY <1>5, <2>1 DEF Beats
<1> QED BY <1>5, <1>6

\* Every vertex that fork resolution rejects lost to one that stays pending
\* and is at least as confident, for any number of vertices, any conflicts
\* between them and any order of the HashMap (consensus.rs:446-482, 552-590).
THEOREM ForkHasSurvivorAlways == Spec => ForkHasSurvivor
<1>1. ASSUME IndInv, Counts, DetectAndResolveForks, NEW v \in Vertices,
             status[v] = "Pending", status'[v] = "Rejected"
      PROVE  \E w \in Vertices \ {v} :
               /\ v \in conflicts'[w]
               /\ status'[w] = "Pending" /\ Value(v) <= Value(w)
  <2>1. PICK place, head, winner, rejected : Resolution(place, head, winner, rejected)
    BY <1>1, Resolves
  <2> DEFINE set == ConflictSet(head, v)
             w == winner[v]
  <2>2. v \in Pending /\ v \in rejected
    BY <1>1, <2>1 DEF Resolution, Pending
  <2>3. w = Winner(place, set) /\ w # v
    BY <2>1, <2>2 DEF Resolution
  <2>4. set \in SUBSET Pending /\ v \in set
    BY <2>2 DEF ConflictSet
  <2>5. w \in set /\ Value(v) <= Value(w)
    <3> HIDE DEF set, w
    <3> QED BY <1>1, <2>1, <2>3, <2>4, WinnerExists DEF Resolution
  <2>6. w \in Pending /\ ConflictSet(head, w) = set
    BY <2>4, <2>5 DEF ConflictSet
  <2>7. winner[w] = w
    BY <2>1, <2>3, <2>6 DEF Resolution
  <2>8. w \in Vertices /\ w \notin rejected
    BY <2>1, <2>6, <2>7 DEF Resolution, Pending
  <2>9. status'[w] = "Pending"
    BY <2>1, <2>6, <2>8 DEF Resolution, Pending
  <2>10. v \in conflicts'[w]
    BY <2>1, <2>2, <2>8 DEF Resolution
  <2> QED BY <2>3, <2>5, <2>8, <2>9, <2>10
<1>2. ASSUME IndInv, Counts, [Next]_vars
      PROVE  [\A v \in Vertices :
                status[v] = "Pending" /\ status'[v] = "Rejected" =>
                  \/ \E w \in Vertices \ {v} :
                       /\ v \in conflicts'[w]
                       /\ status'[w] = "Pending" /\ Value(v) <= Value(w)
                  \/ ~DetectAndResolveForks]_vars
  BY <1>1, <1>2
<1> QED BY <1>2, CountsInductive, PTL DEF Spec, ForkHasSurvivor
=============================================================================
