--------------------------- MODULE HandshakeProofs ---------------------------
(***************************************************************************)
(* Proofs about the two state machines a connection goes through: first    *)
(* Handshake, for any number of nodes, handshakes, deliveries and          *)
(* configurations, and machines handed over in any state; then             *)
(* CircuitBreaker, for any number of clients and resets and any            *)
(* thresholds.  The two share nothing but this file.                       *)
(***************************************************************************)
EXTENDS Handshake, CircuitBreaker, WellFoundedInduction, FiniteSetTheorems, TLAPS

\* What a session of either side holds.  Conjuncts 1 and 2 of each are the checks
\* of the handler that completed or stored it; the secret is derived there too.
OwnSound(i) ==
  own[i].state = "Completed" =>
    LET r == own[i].peer   n == Owner[i]   p == Peer[Of(r)] IN
    /\ r \in Answers /\ Owner[Of(r)] = n
    /\ ans[r].sent
    /\ p \in again
    /\ own[i].version = ans[r].version
    /\ own[i].version \in Elements(config[n].versions)
    /\ Capable(n, p)
    /\ own[i].secret = SessionKeys(KemSecret(i, r), i, r)

AnsSound(r) ==
  LET i == Of(r)   n == Peer[i]   p == Owner[i] IN
  /\ ans[r].sent => ans[r].state # "absent"
  /\ ans[r].state # "absent" =>
       /\ p \in again
       /\ ans[r].version \in Elements(config[n].versions)
       /\ Capable(n, p)
       /\ ans[r].secret = SessionKeys(KemSecret(i, r), i, r)
  /\ ans[r].state = "Completed" => own[i].state = "Completed"

\* Where the machine of n can be, given where it started.
MachineSound(n) ==
  /\ start[n] \in {"Initial", "Active", "Elsewhere"} => machine[n] = start[n]
  /\ start[n] = "Waiting" =>
       machine[n] \in {"Waiting", "InProgress", "Processing", "Active"}
  /\ start[n] = "InProgress" => machine[n] \in {"InProgress", "Processing", "Active"}

IndInv ==
  /\ TypeOK
  /\ \A i \in Inits : OwnSound(i)
  /\ \A r \in Answers : AnsSound(r)
  /\ \A n \in Nodes : MachineSound(n)
  /\ MachineFollows

-----------------------------------------------------------------------------
(* Lemmas *)

\* A session that answers does so for one of the handshakes.
LEMMA AnswersOf == \A r \in Answers : Of(r) \in Inits /\ r \in Answering(Of(r))
  BY DEF Answers, Answering, Of

\* The version a responder picks is one of its own.
LEMMA LeastElement ==
  ASSUME NEW S \in SUBSET Nat, S # {}
  PROVE  \E k \in S : \A j \in S : k <= j
<1> DEFINE Less == {x \in Nat \X Nat : x[1] < x[2]}
<1>1. IsWellFoundedOn(Less, Nat)
  BY NatLessThanWellFounded DEF OpToRel
<1>2. PICK k \in S : \A j \in S : ~ (<<j, k>> \in Less)
  <2> HIDE DEF Less
  <2> QED
    BY <1>1, WFMin
<1>3. ASSUME NEW j \in S PROVE k <= j
  <2>1. ~ (<<j, k>> \in Less)
    BY <1>2
  <2>2. ~ (j < k)
    BY <2>1
  <2> QED
    BY <2>2
<1> QED
  BY <1>3

LEMMA NegotiatedIsOurs ==
  ASSUME NEW ours, NEW theirs, Len(ours) \in Nat, Negotiable(ours, theirs)
  PROVE  Negotiated(ours, theirs) \in Elements(ours)
<1>1. CASE CURRENT \in Elements(ours)
  BY <1>1 DEF Negotiated
<1>2. CASE CURRENT \notin Elements(ours)
  <2> DEFINE S == Suiting(ours, theirs)
  <2>1. S \subseteq 1 .. Len(ours) /\ S # {}
    BY <1>2 DEF Suiting, Negotiable
  <2>2. \E k \in S : \A j \in S : k <= j
    BY <2>1, LeastElement
  <2>3. (CHOOSE k \in S : \A j \in S : k <= j) \in 1 .. Len(ours)
    BY <2>1, <2>2
  <2> QED
    BY <1>2, <2>3 DEF Negotiated, Elements
<1> QED
  BY <1>1, <1>2

\* What the handlers sign is refused; a message that was signed again is not.
LEMMA SignedAgain == \A n \in Nodes : Verifies(Carried(n)) <=> n \in again
  BY DEF Verifies, Carried, Sign, Unsigned

\* A Response to one's own Init is the only one that yields the same secret.
LEMMA SecretTellsWhose ==
  ASSUME NEW i, NEW r,
         SessionKeys(KemSecret(i, r), i, r)
           = SessionKeys(KemSecret(Of(r), r), Of(r), r)
  PROVE  Of(r) = i
<1> SUFFICES ASSUME Of(r) # i PROVE FALSE
  OBVIOUS
<1>1. KemSecret(i, r) = KemSecret(Of(r), r)
  BY DEF SessionKeys
<1>2. KemSecret(i, r)[1] = "other" /\ KemSecret(Of(r), r)[1] = "kem"
  BY DEF KemSecret
<1>3. "other" # "kem"
  OBVIOUS
<1> QED
  BY <1>1, <1>2, <1>3

-----------------------------------------------------------------------------
(* What the invariant says of the sessions *)

THEOREM Sound ==
  ASSUME IndInv
  PROVE  SameSecrets /\ CompletedPair
<1> USE DEF IndInv
<1>1. SameSecrets
  <2>1. SUFFICES ASSUME NEW i \in Inits, own[i].state = "Completed"
                 PROVE  LET r == own[i].peer   n == Owner[i]   p == Peer[Of(r)] IN
                        /\ ans[r].sent /\ Owner[Of(r)] = n
                        /\ {n, p} \subseteq again
                        /\ own[i].version = ans[r].version
                        /\ own[i].version \in Elements(config[n].versions)
                                              \cap Elements(config[p].versions)
                        /\ Capable(n, p) /\ Capable(p, n)
                        /\ (own[i].secret = ans[r].secret) <=> (Of(r) = i)
    BY DEF SameSecrets
  <2> DEFINE r == own[i].peer
  <2>2. r \in Answers /\ Owner[Of(r)] = Owner[i] /\ ans[r].sent
        /\ Peer[Of(r)] \in again
        /\ own[i].version = ans[r].version
        /\ own[i].version \in Elements(config[Owner[i]].versions)
        /\ Capable(Owner[i], Peer[Of(r)])
        /\ own[i].secret = SessionKeys(KemSecret(i, r), i, r)
    BY <2>1 DEF OwnSound
  <2>3. /\ Owner[Of(r)] \in again
        /\ ans[r].version \in Elements(config[Peer[Of(r)]].versions)
        /\ Capable(Peer[Of(r)], Owner[Of(r)])
        /\ ans[r].secret = SessionKeys(KemSecret(Of(r), r), Of(r), r)
    BY <2>2 DEF AnsSound
  <2>4. (own[i].secret = ans[r].secret) <=> (Of(r) = i)
    <3>1. own[i].secret = ans[r].secret => Of(r) = i
      BY <2>2, <2>3, SecretTellsWhose
    <3>2. Of(r) = i => own[i].secret = ans[r].secret
      BY <2>2, <2>3
    <3> QED
      BY <3>1, <3>2
  <2> QED
    BY <2>2, <2>3, <2>4
<1>2. CompletedPair
  <2>1. SUFFICES ASSUME NEW i \in Inits, NEW r \in Answering(i),
                        ans[r].state = "Completed"
                 PROVE  /\ own[i].state = "Completed"
                        /\ (\A q \in Answering(i) : q # r => ans[q].state = "absent")
                             /\ Of(own[i].peer) = i
                           => own[i].peer = r /\ own[i].secret = ans[r].secret
                                              /\ own[i].version = ans[r].version
    BY DEF CompletedPair
  <2>2. r \in Answers /\ Of(r) = i
    BY DEF Answers, Answering, Of
  <2>3. own[i].state = "Completed"
    BY <2>1, <2>2 DEF AnsSound
  <2>4. SUFFICES ASSUME \A q \in Answering(i) : q # r => ans[q].state = "absent",
                        Of(own[i].peer) = i
                 PROVE  own[i].peer = r /\ own[i].secret = ans[r].secret
                                        /\ own[i].version = ans[r].version
    BY <2>3
  <2>5. own[i].peer \in Answering(i) /\ ans[own[i].peer].state # "absent"
    BY <2>3, <2>4, AnswersOf DEF OwnSound, AnsSound
  <2>6. own[i].peer = r
    BY <2>4, <2>5
  <2> QED
    BY <2>1, <2>2, <2>3, <2>6 DEF OwnSound, AnsSound
<1> QED
  BY <1>1, <1>2

-----------------------------------------------------------------------------
(* The invariant is inductive *)

LEMMA InitEstablishes == Init => IndInv
<1> SUFFICES ASSUME Init PROVE IndInv
  OBVIOUS
<1>1. TypeOK
  BY HandshakeAssumption DEF Init, TypeOK, NotInitiated, NotAnswered, NoOne, Versions, Secrets
<1>2. ASSUME NEW i \in Inits PROVE OwnSound(i)
  BY DEF Init, OwnSound, NotInitiated
<1>3. ASSUME NEW r \in Answers PROVE AnsSound(r)
  BY DEF Init, AnsSound, NotAnswered
<1>4. ASSUME NEW n \in Nodes PROVE MachineSound(n)
  BY DEF Init, MachineSound
<1>5. MachineFollows
  BY DEF Init, MachineFollows, HasSent, HasDropped, Answered, NotAnswered
<1> QED
  BY <1>1, <1>2, <1>3, <1>4, <1>5 DEF IndInv

\* The versions of a node's configuration are among all there are.
LEMMA ListedVersions ==
  ASSUME TypeOK, NEW n \in Nodes
  PROVE  /\ Len(config[n].versions) \in Nat
         /\ Elements(config[n].versions) \subseteq Versions
<1>1. config[n] \in Configs
  BY DEF TypeOK
<1>2. config[n].versions \in Seq([major : Nat, minor : Nat])
  BY <1>1, HandshakeAssumption
<1> QED
  BY <1>1, <1>2 DEF Versions

LEMMA InitiateKeeps ==
  ASSUME IndInv, NEW i \in Inits, Initiate(i)
  PROVE  IndInv'
<1> USE DEF IndInv, Initiate
<1>1. own'[i].state = "InitSent"
      /\ \A j \in Inits : j # i => own'[j] = own[j]
      /\ own[i].state = "absent"
  BY DEF TypeOK
<1>2. TypeOK'
  BY DEF TypeOK
<1>3. ASSUME NEW j \in Inits PROVE OwnSound(j)'
  <2>1. CASE j = i
    BY ONLY <2>1, <1>1 DEF OwnSound
  <2>2. CASE j # i
    <3>1. OwnSound(j) /\ own'[j] = own[j]
      BY <2>2, <1>1
    <3>2. UNCHANGED <<config, again, ans>>
      OBVIOUS
    <3> QED
      BY ONLY <3>1, <3>2 DEF OwnSound, Capable
  <2> QED
    BY ONLY <2>1, <2>2
<1>4. ASSUME NEW r \in Answers PROVE AnsSound(r)'
  BY <1>1, AnswersOf DEF AnsSound, Capable
<1>5. ASSUME NEW n \in Nodes PROVE MachineSound(n)'
  BY DEF MachineSound
<1>6. MachineFollows'
  <2>1. ASSUME NEW n \in Nodes, WasAnswered(n) PROVE WasAnswered(n)'
    BY <2>1, <1>1 DEF WasAnswered
  <2>2. ASSUME NEW n \in Nodes
        PROVE  /\ Answered(n)' <=> Answered(n)
               /\ HasSent(n)' <=> HasSent(n)
               /\ HasDropped(n)' <=> HasDropped(n)
               /\ WasCompleted(n)' <=> WasCompleted(n)
    BY DEF Answered, HasSent, HasDropped, WasCompleted
  <2> QED
    BY <2>1, <2>2 DEF MachineFollows
<1> QED
  BY <1>2, <1>3, <1>4, <1>5, <1>6

LEMMA RecvInitKeeps ==
  ASSUME IndInv, NEW r \in Answers, RecvInit(r)
  PROVE  IndInv'
<1> DEFINE i == Of(r)
           n == Peer[i]
           p == Owner[i]
<1> USE DEF IndInv
<1>0. i \in Inits /\ n \in Nodes /\ p \in Nodes
  BY AnswersOf, HandshakeAssumption
<1>1. /\ ans[r].state = "absent" /\ Capable(n, p) /\ p \in again /\ p # n
      /\ ans' = [ans EXCEPT ![r] =
               [state |-> "ResponseSent", gone |-> FALSE, sent |-> Takes(machine[n]),
                version |-> Negotiated(config[n].versions, config[p].versions),
                secret |-> SessionKeys(KemSecret(i, r), i, r)]]
      /\ machine' = IF Takes(machine[n])
                    THEN [machine EXCEPT ![n] = AfterInit(@)] ELSE machine
      /\ UNCHANGED <<config, start, again, own>>
  BY <1>0, SignedAgain, HandshakeAssumption DEF RecvInit
<1>2. Negotiated(config[n].versions, config[p].versions) \in Elements(config[n].versions)
  BY <1>0, ListedVersions, NegotiatedIsOurs DEF RecvInit
<1>3. /\ ans'[r].state = "ResponseSent" /\ ans'[r].sent = Takes(machine[n])
      /\ ans'[r].version = Negotiated(config[n].versions, config[p].versions)
      /\ ans'[r].secret = SessionKeys(KemSecret(i, r), i, r)
      /\ \A q \in Answers : q # r => ans'[q] = ans[q]
  BY <1>1 DEF TypeOK
<1>4. TypeOK'
  <2>1. Negotiated(config[n].versions, config[p].versions) \in Versions
    BY <1>0, <1>2, ListedVersions
  <2>2. SessionKeys(KemSecret(i, r), i, r) \in Secrets
    BY <1>0 DEF Secrets
  <2>3. Takes(machine[n]) \in BOOLEAN
    BY DEF Takes
  <2>4. machine' \in [Nodes -> States]
    BY <1>1 DEF TypeOK, AfterInit, States, Handshaking
  <2>5. ans' \in [Answers -> [state : {"absent", "ResponseSent", "Completed"},
                          gone : BOOLEAN, sent : BOOLEAN, version : Versions,
                          secret : Secrets]]
    BY <1>1, <2>1, <2>2, <2>3 DEF TypeOK
  <2> QED
    BY <1>1, <2>4, <2>5 DEF TypeOK
<1>5. ASSUME NEW j \in Inits PROVE OwnSound(j)'
  <2>1. SUFFICES ASSUME own[j].state = "Completed" PROVE OwnSound(j)'
    BY <1>1 DEF OwnSound
  <2>2. own[j].peer \in Answers /\ own[j].peer # r
    BY <2>1, <1>1 DEF OwnSound, AnsSound
  <2>3. OwnSound(j) /\ ans'[own[j].peer] = ans[own[j].peer]
    BY <2>2, <1>3
  <2> QED
    BY ONLY <2>1, <2>3, <1>1 DEF OwnSound, Capable
<1>6. ASSUME NEW q \in Answers PROVE AnsSound(q)'
  <2>1. CASE q = r
    BY <2>1, <1>1, <1>2, <1>3 DEF AnsSound, Capable
  <2>2. CASE q # r
    BY <2>2, <1>1, <1>3 DEF AnsSound, Capable
  <2> QED
    BY <2>1, <2>2
<1>7. ASSUME NEW m \in Nodes PROVE MachineSound(m)'
  BY <1>0, <1>1 DEF MachineSound, Takes, AfterInit, Valid, Transitions, Handshaking, TypeOK
<1>8. MachineFollows'
  <2>1. ASSUME NEW m \in Nodes, m # n
        PROVE  /\ machine'[m] = machine[m]
               /\ Answered(m)' <=> Answered(m)
               /\ HasSent(m)' <=> HasSent(m)
               /\ HasDropped(m)' <=> HasDropped(m)
               /\ WasCompleted(m)' <=> WasCompleted(m)
    BY <2>1, <1>0, <1>1, <1>3 DEF Answered, HasSent, HasDropped, WasCompleted, TypeOK
  <2>2. \A m \in Nodes : WasAnswered(m)' <=> WasAnswered(m)
    BY <1>1 DEF WasAnswered
  <2>3. Answered(n)'
    BY <1>3 DEF Answered
  <2>4. HasSent(n)' => HasSent(n) \/ Takes(machine[n])
    BY <1>3 DEF HasSent
  <2>5. HasDropped(n)' => HasDropped(n) \/ ~Takes(machine[n])
    BY <1>3 DEF HasDropped
  <2>6. WasCompleted(n) => WasCompleted(n)'
    BY <1>1, <1>3 DEF WasCompleted
  <2>7. machine'[n] = IF Takes(machine[n]) THEN AfterInit(machine[n]) ELSE machine[n]
    BY <1>0, <1>1 DEF TypeOK
  <2>8. MachineSound(n) /\ start[n] \in States
    BY <1>0, HandshakeAssumption DEF TypeOK
  <2> DEFINE Follows(m) ==
    /\ machine[m] # start[m] => again \ {m} # {}
    /\ start[m] = "Initial" => machine[m] = "Initial" /\ ~HasSent(m)
    /\ start[m] = "Waiting" =>
         (machine[m] \in {"InProgress", "Processing", "Active"} <=> Answered(m))
    /\ start[m] \in {"Waiting", "InProgress"} =>
         /\ machine[m] \in {"Processing", "Active"} => WasAnswered(m)
         /\ machine[m] = "Active" => WasCompleted(m)
    /\ HasDropped(m) =>
         \/ start[m] \in {"Initial", "Processing", "Completed", "Failed"}
         \/ start[m] \in {"Waiting", "InProgress"} /\ WasAnswered(m)
  <2>9. \A m \in Nodes : Follows(m)
    BY DEF MachineFollows
  <2>10. Follows(n)'
    <3>1. Takes(machine[n]) <=> machine[n] \notin {"Initial", "Processing", "Completed", "Failed"}
      BY DEF Takes, Valid, Transitions, Handshaking
    <3>2. AfterInit(machine[n]) =
            IF machine[n] \in {"Initial", "Waiting", "InProgress", "Processing", "Completed", "Failed"}
            THEN "InProgress" ELSE machine[n]
      BY DEF AfterInit, Handshaking
    <3>3. machine'[n] = IF machine[n] \in {"Waiting", "InProgress"} THEN "InProgress"
                        ELSE machine[n]
      BY <3>1, <3>2, <2>7
    <3>4. Follows(n)
      BY <2>9, <1>0
    <3>5. start'[n] = start[n] /\ again' \ {n} # {}
      BY <1>0, <1>1
    <3>6. start[n] = "Initial" => (machine[n] = "Initial" /\ ~HasSent(n))'
      BY <3>1, <3>3, <3>4, <2>4
    <3>7. start[n] = "Waiting" => (machine'[n] \in {"InProgress", "Processing", "Active"})
      BY <3>3, <2>8 DEF MachineSound
    <3>8. start[n] \in {"Waiting", "InProgress"} =>
            /\ machine'[n] \in {"Processing", "Active"} => WasAnswered(n)'
            /\ machine'[n] = "Active" => WasCompleted(n)'
      BY <3>3, <3>4, <2>2, <2>6, <1>0
    <3>9. HasDropped(n)' =>
         \/ start[n] \in {"Initial", "Processing", "Completed", "Failed"}
         \/ start[n] \in {"Waiting", "InProgress"} /\ WasAnswered(n)'
      <4>1. HasDropped(n) => \/ start[n] \in {"Initial", "Processing", "Completed", "Failed"}
                             \/ start[n] \in {"Waiting", "InProgress"} /\ WasAnswered(n)'
        BY <3>4, <2>2, <1>0
      <4>2. CASE ~Takes(machine[n])
        <5>1. machine[n] \in {"Initial", "Processing", "Completed", "Failed"}
          BY <4>2, <3>1
        <5>2. start[n] \notin {"Active", "Elsewhere"}
          BY <5>1, <2>8 DEF MachineSound
        <5>3. start[n] \in {"Waiting", "InProgress"} => machine[n] = "Processing"
          BY <5>1, <2>8 DEF MachineSound
        <5>4. start[n] \in {"Waiting", "InProgress"} => WasAnswered(n)'
          BY <5>3, <3>4, <2>2, <1>0
        <5> QED
          BY <5>2, <5>4, <2>8 DEF States, Handshaking
      <4> QED
        BY <4>1, <4>2, <2>5
    <3> QED
      BY <2>3, <3>5, <3>6, <3>7, <3>8, <3>9
  <2>11. ASSUME NEW m \in Nodes, m # n PROVE Follows(m)'
    BY <2>9, <2>1, <2>2, <2>11, <1>1
  <2> HIDE DEF Follows
  <2>12. \A m \in Nodes : Follows(m)'
    BY <2>10, <2>11
  <2> QED
    BY <2>12 DEF MachineFollows, Follows
<1> QED
  BY <1>4, <1>5, <1>6, <1>7, <1>8

LEMMA RecvResponseKeeps ==
  ASSUME IndInv, NEW i \in Inits, NEW r \in Answers, RecvResponse(i, r)
  PROVE  IndInv'
<1> DEFINE n == Owner[i]
           p == Peer[Of(r)]
<1> USE DEF IndInv
<1>0. n \in Nodes /\ p \in Nodes /\ Of(r) \in Inits
  BY AnswersOf, HandshakeAssumption
<1>1. /\ own[i].state = "InitSent" /\ ans[r].sent /\ Owner[Of(r)] = n
      /\ ans[r].version \in Elements(config[n].versions) /\ Capable(n, p)
      /\ p \in again /\ p # n
      /\ own' = [own EXCEPT ![i] =
               [state |-> "Completed", gone |-> FALSE, peer |-> r,
                version |-> ans[r].version,
                secret |-> SessionKeys(KemSecret(i, r), i, r)]]
      /\ machine' = [machine EXCEPT ![n] = AfterResponse(@)]
      /\ UNCHANGED <<config, start, again, ans>>
  BY <1>0, SignedAgain, HandshakeAssumption DEF RecvResponse
<1>2. /\ own'[i].state = "Completed" /\ own'[i].peer = r
      /\ own'[i].version = ans[r].version
      /\ own'[i].secret = SessionKeys(KemSecret(i, r), i, r)
      /\ \A j \in Inits : j # i => own'[j] = own[j]
  BY <1>1 DEF TypeOK
<1>3. TypeOK'
  <2>1. SessionKeys(KemSecret(i, r), i, r) \in Secrets
    BY DEF Secrets
  <2>2. machine' \in [Nodes -> States]
    BY <1>1 DEF TypeOK, AfterResponse, States, Handshaking
  <2>3. own' \in [Inits -> [state : {"absent", "InitSent", "Completed"}, gone : BOOLEAN,
                        peer : Answers \cup {NoOne}, version : Versions,
                        secret : Secrets]]
    BY <1>1, <2>1 DEF TypeOK
  <2> QED
    BY <1>1, <2>2, <2>3 DEF TypeOK
<1>4. ASSUME NEW j \in Inits PROVE OwnSound(j)'
  <2>1. CASE j = i
    BY <2>1, <1>1, <1>2 DEF OwnSound, Capable
  <2>2. CASE j # i
    BY <2>2, <1>1, <1>2 DEF OwnSound, Capable
  <2> QED
    BY <2>1, <2>2
<1>5. ASSUME NEW q \in Answers PROVE AnsSound(q)'
  BY <1>1, <1>2, AnswersOf DEF AnsSound, Capable
<1>6. ASSUME NEW m \in Nodes PROVE MachineSound(m)'
  BY <1>0, <1>1 DEF MachineSound, AfterResponse, TypeOK
<1>7. MachineFollows'
  <2>1. ASSUME NEW m \in Nodes
        PROVE  /\ Answered(m)' <=> Answered(m)
               /\ HasSent(m)' <=> HasSent(m)
               /\ HasDropped(m)' <=> HasDropped(m)
               /\ WasCompleted(m)' <=> WasCompleted(m)
    BY <1>1 DEF Answered, HasSent, HasDropped, WasCompleted
  <2>2. ASSUME NEW m \in Nodes, WasAnswered(m) PROVE WasAnswered(m)'
    BY <2>2, <1>2 DEF WasAnswered
  <2>3. WasAnswered(n)'
    BY <1>2 DEF WasAnswered
  <2>4. \A m \in Nodes : m # n => machine'[m] = machine[m]
    BY <1>1 DEF TypeOK
  <2>5. machine'[n] = IF machine[n] = "InProgress" THEN "Processing" ELSE machine[n]
    BY <1>0, <1>1 DEF TypeOK, AfterResponse
  <2> QED
    BY <2>1, <2>2, <2>3, <2>4, <2>5, <1>0, <1>1 DEF MachineFollows
<1> QED
  BY <1>3, <1>4, <1>5, <1>6, <1>7

LEMMA RecvCompleteKeeps ==
  ASSUME IndInv, NEW i \in Inits, NEW r \in Answers, RecvComplete(i, r)
  PROVE  IndInv'
<1> DEFINE n == Peer[i]
<1> USE DEF IndInv
<1>0. n \in Nodes /\ Owner[i] \in Nodes
  BY HandshakeAssumption
<1>1. /\ Owner[i] \in again /\ Owner[i] # n
      /\ own[i].state = "Completed" /\ Of(r) = i
      /\ ans[r].state = "ResponseSent"
      /\ ans' = [ans EXCEPT ![r].state = "Completed"]
      /\ machine' = [machine EXCEPT ![n] = AfterComplete(@)]
      /\ UNCHANGED <<config, start, again, own>>
  BY <1>0, SignedAgain, HandshakeAssumption DEF RecvComplete, CompleteSent
<1>2. /\ ans'[r].state = "Completed" /\ ans'[r].sent = ans[r].sent
      /\ ans'[r].version = ans[r].version /\ ans'[r].secret = ans[r].secret
      /\ \A q \in Answers : q # r => ans'[q] = ans[q]
  BY <1>1 DEF TypeOK
<1>3. TypeOK'
  <2>1. machine' \in [Nodes -> States]
    BY <1>1 DEF TypeOK, AfterComplete, States, Handshaking
  <2>2. ans' \in [Answers -> [state : {"absent", "ResponseSent", "Completed"},
                          gone : BOOLEAN, sent : BOOLEAN, version : Versions,
                          secret : Secrets]]
    BY <1>1 DEF TypeOK
  <2> QED
    BY <1>1, <2>1, <2>2 DEF TypeOK
<1>4. ASSUME NEW j \in Inits PROVE OwnSound(j)'
  BY <1>1, <1>2 DEF OwnSound, Capable
<1>5. ASSUME NEW q \in Answers PROVE AnsSound(q)'
  <2>1. CASE q = r
    BY <2>1, <1>1, <1>2 DEF AnsSound, Capable
  <2>2. CASE q # r
    BY <2>2, <1>1, <1>2 DEF AnsSound, Capable
  <2> QED
    BY <2>1, <2>2
<1>6. ASSUME NEW m \in Nodes PROVE MachineSound(m)'
  BY <1>0, <1>1 DEF MachineSound, AfterComplete, TypeOK
<1>7. MachineFollows'
  <2>1. ASSUME NEW m \in Nodes
        PROVE  /\ Answered(m)' <=> Answered(m)
               /\ HasSent(m)' <=> HasSent(m)
               /\ HasDropped(m)' <=> HasDropped(m)
    BY <1>1, <1>2 DEF Answered, HasSent, HasDropped
  <2>2. \A m \in Nodes : WasAnswered(m)' <=> WasAnswered(m)
    BY <1>1 DEF WasAnswered
  <2>3. ASSUME NEW m \in Nodes, WasCompleted(m) PROVE WasCompleted(m)'
    BY <2>3, <1>2 DEF WasCompleted
  <2>4. WasCompleted(n)'
    BY <1>1, <1>2 DEF WasCompleted
  <2>5. \A m \in Nodes : m # n => machine'[m] = machine[m]
    BY <1>1 DEF TypeOK
  <2>6. machine'[n] = IF machine[n] = "Processing" THEN "Active" ELSE machine[n]
    BY <1>0, <1>1 DEF TypeOK, AfterComplete
  <2> QED
    BY <2>1, <2>2, <2>3, <2>4, <2>5, <2>6, <1>0, <1>1 DEF MachineFollows
<1> QED
  BY <1>3, <1>4, <1>5, <1>6, <1>7

LEMMA CleanupKeeps ==
  ASSUME IndInv, NEW n \in Nodes, NEW late \in SUBSET Pending(n), Cleanup(n, late)
  PROVE  IndInv'
<1> USE DEF IndInv
<1>1. UNCHANGED <<config, start, again, machine>>
  BY DEF Cleanup
<1>2. ASSUME NEW i \in Inits
      PROVE  /\ own'[i].state = own[i].state /\ own'[i].peer = own[i].peer
             /\ own'[i].version = own[i].version /\ own'[i].secret = own[i].secret
  BY DEF Cleanup, TypeOK
<1>3. ASSUME NEW r \in Answers
      PROVE  /\ ans'[r].state = ans[r].state /\ ans'[r].sent = ans[r].sent
             /\ ans'[r].version = ans[r].version /\ ans'[r].secret = ans[r].secret
  BY DEF Cleanup, TypeOK
<1>4. TypeOK'
  <2>1. own' \in [Inits -> [state : {"absent", "InitSent", "Completed"}, gone : BOOLEAN,
                            peer : Answers \cup {NoOne}, version : Versions, secret : Secrets]]
    <3>1. own \in [Inits -> [state : {"absent", "InitSent", "Completed"}, gone : BOOLEAN,
                             peer : Answers \cup {NoOne}, version : Versions, secret : Secrets]]
      BY DEF TypeOK
    <3>2. own' = [i \in Inits |-> IF i \in late THEN [own[i] EXCEPT !.gone = TRUE] ELSE own[i]]
      BY DEF Cleanup
    <3> HIDE DEF IndInv
    <3> QED
      BY <3>1, <3>2
  <2>2. ans' \in [Answers -> [state : {"absent", "ResponseSent", "Completed"}, gone : BOOLEAN,
                              sent : BOOLEAN, version : Versions, secret : Secrets]]
    <3>1. ans \in [Answers -> [state : {"absent", "ResponseSent", "Completed"}, gone : BOOLEAN,
                               sent : BOOLEAN, version : Versions, secret : Secrets]]
      BY DEF TypeOK
    <3>2. ans' = [r \in Answers |-> IF r \in late THEN [ans[r] EXCEPT !.gone = TRUE] ELSE ans[r]]
      BY DEF Cleanup
    <3> HIDE DEF IndInv
    <3> QED
      BY <3>1, <3>2
  <2> QED
    BY <1>1, <2>1, <2>2 DEF TypeOK
<1>5. ASSUME NEW i \in Inits PROVE OwnSound(i)'
  BY <1>1, <1>2, <1>3 DEF OwnSound, Capable
<1>6. ASSUME NEW r \in Answers PROVE AnsSound(r)'
  BY <1>1, <1>2, <1>3, AnswersOf DEF AnsSound, Capable
<1>7. ASSUME NEW m \in Nodes PROVE MachineSound(m)'
  BY <1>1 DEF MachineSound
<1>8. MachineFollows'
  <2>1. ASSUME NEW m \in Nodes
        PROVE  /\ Answered(m)' <=> Answered(m)
               /\ HasSent(m)' <=> HasSent(m)
               /\ HasDropped(m)' <=> HasDropped(m)
               /\ WasCompleted(m)' <=> WasCompleted(m)
               /\ WasAnswered(m)' <=> WasAnswered(m)
    BY <1>2, <1>3 DEF Answered, HasSent, HasDropped, WasCompleted, WasAnswered
  <2> QED
    BY <2>1, <1>1 DEF MachineFollows
<1> QED
  BY <1>4, <1>5, <1>6, <1>7, <1>8

LEMMA StutterKeeps == IndInv /\ UNCHANGED vars => IndInv'
<1> SUFFICES ASSUME IndInv, UNCHANGED vars PROVE IndInv'
  OBVIOUS
<1> QED
  BY DEF vars, IndInv, TypeOK, OwnSound, AnsSound, MachineSound, MachineFollows,
         Capable, Answered, HasSent, HasDropped, WasCompleted, WasAnswered

THEOREM Inductive == Spec => []IndInv
<1>1. Init => IndInv
  BY InitEstablishes
<1>2. IndInv /\ [Next]_vars => IndInv'
  <2> SUFFICES ASSUME IndInv, [Next]_vars PROVE IndInv'
    OBVIOUS
  <2>1. ASSUME NEW i \in Inits, Initiate(i) PROVE IndInv'
    BY <2>1, InitiateKeeps
  <2>2. ASSUME NEW i \in Inits, NEW r \in Answering(i), RecvInit(r) PROVE IndInv'
    BY <2>2, RecvInitKeeps DEF Answers
  <2>3. ASSUME NEW i \in Inits, NEW r \in Answers, RecvResponse(i, r) PROVE IndInv'
    BY <2>3, RecvResponseKeeps
  <2>4. ASSUME NEW i \in Inits, NEW r \in Answers, RecvComplete(i, r) PROVE IndInv'
    BY <2>4, RecvCompleteKeeps
  <2>5. ASSUME NEW n \in Nodes, NEW late \in SUBSET Pending(n), Cleanup(n, late)
        PROVE  IndInv'
    BY <2>5, CleanupKeeps
  <2> QED
    BY <2>1, <2>2, <2>3, <2>4, <2>5, StutterKeeps DEF Next
<1> QED
  BY <1>1, <1>2, PTL DEF Spec

-----------------------------------------------------------------------------
(* The properties of the runs *)

\* process_handshake_response (handshake.rs:488-672): what a Completed session of
\* an initiator holds, for any messages lost, repeated or given to a wrong session;
\* and that there is none unless the callers of both sides sign a second time.
THEOREM SameSecretsAlways == Spec => []SameSecrets
  BY Inductive, Sound, PTL

\* process_handshake_complete (handshake.rs:675-717): who a Completed session of a
\* responder shares its secret with.
THEOREM CompletedPairAlways == Spec => []CompletedPair
  BY Inductive, Sound, PTL

\* process_handshake_message of the state machine (state.rs:679-739): what a node
\* must have done for its machine to be where it is; and that machines stay where
\* they are as long as messages carry what the handlers signed (message.rs:310-349).
THEOREM MachineFollowsAlways == Spec => []MachineFollows
<1>1. IndInv => MachineFollows
  BY DEF IndInv
<1> QED
  BY <1>1, Inductive, PTL

-----------------------------------------------------------------------------
(***************************************************************************)
(* The circuit breaker.                                                    *)
(*                                                                         *)
(* A closed circuit with enough failures in a row and too many of them in  *)
(* its window is about to be dealt with by somebody: by the client whose   *)
(* outcome made it so, which is on its way from SlidingWindow::record to   *)
(* transition_to_open or to the store that clears the count, or by a reset *)
(* that has closed the circuit and not yet cleared the count.              *)
(***************************************************************************)
Deals(c) ==
  \/ th[c].pc \in {"recorded", "closedOk", "closedBad", "rate", "open"}
  \/ th[c].pc = "resetting" /\ th[c].todo <= 2

Alarming == state = "Closed" /\ failures >= FailureThreshold /\ TooManyFailures

BreakerInv == BreakerTypeOK /\ (Alarming => \E c \in Client : Deals(c))

\* What TypeOK says of the clients and of the cells they share, in parts.
ClientsOK ==
  /\ slock \in Client \cup {Nobody}
  /\ th \in [Client -> [pc : PC, ok : BOOLEAN, after : {"idle", "sub"},
                        probe : BOOLEAN, todo : 0..Len(Cells)]]
  /\ \A c \in Client : th[c].pc \in {"halfopen2", "open2", "close2"} <=> slock = c

CellsOK ==
  /\ state \in CircuitState
  /\ ripe \in BOOLEAN
  /\ failures \in 0..FailureThreshold
  /\ successes \in 0..SuccessThreshold
  /\ probes \in 0..UsizeMax
  /\ window \in Seq(BOOLEAN) /\ Len(window) <= WindowMax
  /\ resets \in 0..MaxResets

LEMMA TypeInParts == BreakerTypeOK <=> CellsOK /\ ClientsOK
BY DEF BreakerTypeOK, CellsOK, ClientsOK

LEMMA BreakerConstants ==
  /\ Nobody \notin Client
  /\ FailureThreshold \in Nat \ {0} /\ SuccessThreshold \in Nat \ {0}
  /\ HalfOpenMax \in Nat \ {0} /\ UsizeMax \in Nat \ {0} /\ WindowMax \in Nat \ {0}
  /\ MinRequests \in Nat /\ FailurePercent \in 0..100 /\ MaxResets \in Nat
BY CircuitBreakerAssumption

LEMMA CellsNamed ==
  /\ Len(Cells) = 5
  /\ Cells[1] = "changed" /\ Cells[2] = "failures" /\ Cells[3] = "successes"
  /\ Cells[4] = "probes" /\ Cells[5] = "window"
BY DEF Cells

\* The outcomes that are left, and one more.
LEMMA Outcomes ==
  ASSUME NEW w \in Seq(BOOLEAN), NEW expired \in 0..Len(w), NEW ok \in BOOLEAN,
         Len(w) - expired < WindowMax
  PROVE  LET v == Append(SubSeq(w, expired + 1, Len(w)), ok)
         IN  v \in Seq(BOOLEAN) /\ Len(v) <= WindowMax
<1> DEFINE r == SubSeq(w, expired + 1, Len(w))
<1>1. r \in Seq(BOOLEAN) /\ Len(r) = Len(w) - expired
  OBVIOUS
<1> HIDE DEF r
<1>2. Append(r, ok) \in Seq(BOOLEAN) /\ Len(Append(r, ok)) = Len(r) + 1
  BY <1>1
<1> QED BY <1>1, <1>2, BreakerConstants DEF r

LEMMA CappedStays ==
  ASSUME NEW cap \in Nat \ {0}, NEW n \in 0..cap
  PROVE  Capped(n, cap) \in 0..cap
BY DEF Capped

\* Where a step takes client c: to one of pcs.
Place == [pc : PC, ok : BOOLEAN, after : {"idle", "sub"}, probe : BOOLEAN, todo : 0..Len(Cells)]
Moves(c, pcs) == \E r \in Place : r.pc \in pcs /\ th' = [th EXCEPT ![c] = r]

Holding == {"halfopen2", "open2", "close2"}

LEMMA IdlePlace == Idle \in Place /\ Idle.pc = "idle"
BY CellsNamed DEF Idle, Place, PC

LEMMA RejectMoves ==
  ASSUME NEW c \in Client, th' = [th EXCEPT ![c] = Idle]
  PROVE  Moves(c, {"idle"})
BY IdlePlace DEF Moves

LEMMA GotoMoves ==
  ASSUME th \in [Client -> Place], NEW c \in Client, NEW pc \in PC, Goto(c, pc)
  PROVE  Moves(c, {pc})
<1> DEFINE r == [th[c] EXCEPT !.pc = pc]
<1>1. r \in Place /\ r.pc = pc
  BY DEF Place
<1>2. th' = [th EXCEPT ![c] = r]
  BY DEF Goto
<1> QED BY <1>1, <1>2 DEF Moves

LEMMA SendMoves ==
  ASSUME th \in [Client -> Place], NEW c \in Client, NEW probe \in BOOLEAN, Send(c, probe)
  PROVE  Moves(c, {"sent"})
<1> DEFINE r == [[th[c] EXCEPT !.pc = "sent"] EXCEPT !.probe = probe]
<1>1. r \in Place /\ r.pc = "sent"
  BY DEF Place, PC
<1>2. th' = [th EXCEPT ![c] = r]
  BY DEF Send
<1> QED BY <1>1, <1>2 DEF Moves

LEMMA ReturnMoves ==
  ASSUME th \in [Client -> Place], NEW c \in Client, th' = [th EXCEPT ![c] = Return(c)]
  PROVE  Moves(c, {"idle", "sub"})
<1>1. Return(c) \in Place /\ Return(c).pc \in {"idle", "sub"}
  <2>1. [th[c] EXCEPT !.pc = "sub"] \in Place /\ [th[c] EXCEPT !.pc = "sub"].pc = "sub"
    BY DEF Place, PC
  <2> QED BY <2>1, IdlePlace DEF Return
<1> QED BY <1>1 DEF Moves

LEMMA MovesAmong ==
  ASSUME NEW c \in Client, NEW pcs, NEW more, pcs \subseteq more, Moves(c, pcs)
  PROVE  Moves(c, more)
<1>1. PICK r \in Place : r.pc \in pcs /\ th' = [th EXCEPT ![c] = r]
  BY DEF Moves
<1>2. r.pc \in more
  BY <1>1
<1> QED BY <1>1, <1>2, Zenon DEF Moves

\* Where the steps of a client take it.
Path(c) ==
  \/ Ask(c) /\ Moves(c, {"sent", "elapsed", "load"})
  \/ CheckTimeout(c) /\ Moves(c, {"halfopen", "idle"})
  \/ HalfOpen(c) /\ Moves(c, {"halfopen2", "sent"})
  \/ FinishHalfOpen(c) /\ Moves(c, {"sent"})
  \/ LoadProbes(c) /\ Moves(c, {"add", "idle"})
  \/ AddProbe(c) /\ Moves(c, {"sent"})
  \/ Record(c) /\ Moves(c, {"recorded"})
  \/ ReadState(c) /\ Moves(c, {"closedOk", "closedBad", "idle", "halfOk", "open"})
  \/ ClosedSuccess(c) /\ Moves(c, {"idle"})
  \/ ClosedFailure(c) /\ Moves(c, {"rate", "idle"})
  \/ CheckRate(c) /\ Moves(c, {"open", "idle"})
  \/ HalfOpenSuccess(c) /\ Moves(c, {"close", "sub"})
  \/ Open(c) /\ Moves(c, {"open2", "idle", "sub"})
  \/ Close(c) /\ Moves(c, {"close2", "idle", "sub"})
  \/ FinishTransition(c) /\ Moves(c, {"idle", "sub"})
  \/ SubProbe(c) /\ Moves(c, {"idle"})
  \/ ResetState(c) /\ Moves(c, {"resetting"})
  \/ ResetCell(c) /\ Moves(c, {"resetting", "idle"})
  \/ Reset(c) /\ Moves(c, {"reset"})

LEMMA StepPath ==
  ASSUME th \in [Client -> Place], NEW c \in Client, Ask(c) \/ Inside(c) \/ Reset(c)
  PROVE  Path(c)
<1>1. PC = {"idle", "elapsed", "halfopen", "halfopen2", "load", "add", "sent",
            "recorded", "closedOk", "closedBad", "rate", "halfOk",
            "open", "open2", "close", "close2", "sub", "reset", "resetting"}
  BY DEF PC
<1>2. ASSUME NEW pc \in PC, NEW pcs, pc \in pcs, Goto(c, pc) PROVE Moves(c, pcs)
  <2>1. Moves(c, {pc}) /\ {pc} \subseteq pcs
    BY <1>2, GotoMoves
  <2> QED BY <2>1, MovesAmong
<1>3. ASSUME NEW pcs, "idle" \in pcs, th' = [th EXCEPT ![c] = Idle] PROVE Moves(c, pcs)
  <2>1. Moves(c, {"idle"}) /\ {"idle"} \subseteq pcs
    BY <1>3, RejectMoves
  <2> QED BY <2>1, MovesAmong
<1>4. ASSUME NEW pcs, "sent" \in pcs, NEW probe \in BOOLEAN, Send(c, probe)
      PROVE  Moves(c, pcs)
  <2>1. Moves(c, {"sent"}) /\ {"sent"} \subseteq pcs
    BY <1>4, SendMoves
  <2> QED BY <2>1, MovesAmong
<1>5. ASSUME NEW pcs, {"idle", "sub"} \subseteq pcs, th' = [th EXCEPT ![c] = Return(c)]
      PROVE  Moves(c, pcs)
  BY <1>5, ReturnMoves, MovesAmong
<1>6. CASE Ask(c)
  <2>1. Moves(c, {"sent", "elapsed", "load"})
    BY <1>1, <1>2, <1>4, <1>6 DEF Ask
  <2> QED BY <1>6, <2>1 DEF Path
<1>7. CASE CheckTimeout(c)
  <2>1. Moves(c, {"halfopen", "idle"})
    BY <1>1, <1>2, <1>3, <1>7 DEF CheckTimeout, Reject
  <2> QED BY <1>7, <2>1 DEF Path
<1>8. CASE HalfOpen(c)
  <2>1. Moves(c, {"halfopen2", "sent"})
    BY <1>1, <1>2, <1>4, <1>8 DEF HalfOpen
  <2> QED BY <1>8, <2>1 DEF Path
<1>9. CASE FinishHalfOpen(c)
  <2>1. Moves(c, {"sent"})
    BY <1>4, <1>9 DEF FinishHalfOpen
  <2> QED BY <1>9, <2>1 DEF Path
<1>10. CASE LoadProbes(c)
  <2>1. Moves(c, {"add", "idle"})
    BY <1>1, <1>2, <1>3, <1>10 DEF LoadProbes, Reject
  <2> QED BY <1>10, <2>1 DEF Path
<1>11. CASE AddProbe(c)
  <2>1. Moves(c, {"sent"})
    BY <1>4, <1>11 DEF AddProbe
  <2> QED BY <1>11, <2>1 DEF Path
<1>12. CASE Record(c)
  <2>1. PICK ok \in BOOLEAN : th' = [th EXCEPT ![c].pc = "recorded", ![c].ok = ok]
    BY <1>12 DEF Record
  <2> DEFINE r == [[th[c] EXCEPT !.pc = "recorded"] EXCEPT !.ok = ok]
  <2>2. r \in Place /\ r.pc = "recorded"
    BY <1>1 DEF Place
  <2>3. th' = [th EXCEPT ![c] = r]
    BY <2>1
  <2>4. Moves(c, {"recorded"})
    BY <2>2, <2>3 DEF Moves
  <2> QED BY <1>12, <2>4 DEF Path
<1>13. CASE ReadState(c)
  <2> DEFINE pcs == {"closedOk", "closedBad", "idle", "halfOk", "open"}
  <2>1. Moves(c, pcs)
    <3>1. ASSUME NEW pc \in {"closedOk", "closedBad"}, Goto(c, pc) PROVE Moves(c, pcs)
      BY <1>1, <1>2, <3>1
    <3>2. ASSUME th' = [th EXCEPT ![c] = Idle] PROVE Moves(c, pcs)
      BY <1>3, <3>2
    <3>3. ASSUME NEW pc \in {"halfOk", "open"},
                 th' = [th EXCEPT ![c].pc = pc, ![c].after = "sub"]
          PROVE  Moves(c, pcs)
      <4> DEFINE r == [[th[c] EXCEPT !.pc = pc] EXCEPT !.after = "sub"]
      <4>1. r \in Place /\ r.pc = pc
        BY <1>1 DEF Place
      <4>2. th' = [th EXCEPT ![c] = r]
        BY <3>3
      <4> HIDE DEF r
      <4> QED BY <4>1, <4>2 DEF Moves
    <3>4. \/ Goto(c, IF th[c].ok THEN "closedOk" ELSE "closedBad")
          \/ th' = [th EXCEPT ![c] = Idle]
          \/ th' = [th EXCEPT ![c].pc = IF th[c].ok THEN "halfOk" ELSE "open",
                              ![c].after = "sub"]
      BY <1>13 DEF ReadState
    <3> HIDE DEF pcs
    <3> QED BY <3>1, <3>2, <3>3, <3>4
  <2> QED BY <1>13, <2>1 DEF Path
<1>14. CASE ClosedSuccess(c)
  <2>1. Moves(c, {"idle"})
    BY <1>3, <1>14 DEF ClosedSuccess
  <2> QED BY <1>14, <2>1 DEF Path
<1>15. CASE ClosedFailure(c)
  <2>1. Goto(c, "rate") \/ th' = [th EXCEPT ![c] = Idle]
    BY <1>15 DEF ClosedFailure
  <2>2. Moves(c, {"rate", "idle"})
    BY <1>1, <1>2, <1>3, <2>1
  <2> QED BY <1>15, <2>2 DEF Path
<1>16. CASE CheckRate(c)
  <2>1. Moves(c, {"open", "idle"})
    BY <1>1, <1>2, <1>3, <1>16 DEF CheckRate
  <2> QED BY <1>16, <2>1 DEF Path
<1>17. CASE HalfOpenSuccess(c)
  <2>1. Goto(c, "close") \/ Goto(c, "sub")
    BY <1>17 DEF HalfOpenSuccess
  <2>2. Moves(c, {"close", "sub"})
    BY <1>1, <1>2, <2>1
  <2> QED BY <1>17, <2>2 DEF Path
<1>18. CASE Open(c)
  <2>1. Moves(c, {"open2", "idle", "sub"})
    BY <1>1, <1>2, <1>5, <1>18 DEF Open, Transition
  <2> QED BY <1>18, <2>1 DEF Path
<1>19. CASE Close(c)
  <2>1. Moves(c, {"close2", "idle", "sub"})
    BY <1>1, <1>2, <1>5, <1>19 DEF Close, Transition
  <2> QED BY <1>19, <2>1 DEF Path
<1>20. CASE FinishTransition(c)
  <2>1. Moves(c, {"idle", "sub"})
    BY <1>5, <1>20 DEF FinishTransition
  <2> QED BY <1>20, <2>1 DEF Path
<1>21. CASE SubProbe(c)
  <2>1. Moves(c, {"idle"})
    BY <1>3, <1>21 DEF SubProbe
  <2> QED BY <1>21, <2>1 DEF Path
<1>22. CASE ResetState(c)
  <2> DEFINE r == [[th[c] EXCEPT !.pc = "resetting"] EXCEPT !.todo = 1]
  <2>0. 1 \in 0..Len(Cells)
    BY CellsNamed
  <2>1. r \in Place /\ r.pc = "resetting"
    BY <1>1, <2>0 DEF Place
  <2>2. th' = [th EXCEPT ![c] = r]
    BY <1>22 DEF ResetState
  <2>3. Moves(c, {"resetting"})
    BY <2>1, <2>2 DEF Moves
  <2> QED BY <1>22, <2>3 DEF Path
<1>23. CASE ResetCell(c)
  <2> DEFINE r == IF Cells[th[c].todo] = "window" THEN Idle
                  ELSE [th[c] EXCEPT !.todo = th[c].todo + 1]
  <2>2. th' = [th EXCEPT ![c] = r]
    BY <1>23, Zenon DEF ResetCell
  <2>3. th[c] \in Place /\ th[c].pc = "resetting" /\ th[c].todo \in 0..5
    BY <1>23, CellsNamed DEF ResetCell, At, Place
  <2>4. r \in Place /\ r.pc \in {"resetting", "idle"}
    <3>1. CASE Cells[th[c].todo] = "window"
      BY <3>1, IdlePlace
    <3>2. CASE Cells[th[c].todo] # "window"
      <4>1. th[c].todo + 1 \in 0..5
        BY <2>3, <3>2, CellsNamed
      <4>2. r = [th[c] EXCEPT !.todo = th[c].todo + 1]
        BY <3>2
      <4> HIDE DEF r
      <4> QED BY <2>3, <4>1, <4>2, CellsNamed DEF Place
    <3> QED BY <3>1, <3>2
  <2>5. Moves(c, {"resetting", "idle"})
    <3> HIDE DEF r
    <3> QED BY <2>2, <2>4 DEF Moves
  <2> QED BY <1>23, <2>5 DEF Path
<1>24. CASE Reset(c)
  <2>1. Moves(c, {"reset"})
    BY <1>1, <1>2, <1>24 DEF Reset
  <2> QED BY <1>24, <2>1 DEF Path
<1> QED BY <1>6, <1>7, <1>8, <1>9, <1>10, <1>11, <1>12, <1>13, <1>14, <1>15, <1>16,
           <1>17, <1>18, <1>19, <1>20, <1>21, <1>22, <1>23, <1>24 DEF Inside

\* The counters stay within what they can hold.
LEMMA StepCells ==
  ASSUME BreakerTypeOK, BreakerNext
  PROVE  CellsOK'
<1>0. CellsOK
  BY TypeInParts
<1> USE DEF CellsOK, CircuitState
<1>1. CASE Elapse
  BY <1>0, <1>1 DEF Elapse, counters
<1> SUFFICES ASSUME NEW c \in Client, Ask(c) \/ Inside(c) \/ Reset(c) PROVE CellsOK'
  BY <1>1 DEF BreakerNext
<1>2. CASE \/ Ask(c) \/ CheckTimeout(c) \/ LoadProbes(c) \/ ReadState(c) \/ CheckRate(c)
  <2>1. UNCHANGED <<state, ripe, failures, successes, probes, window, resets>>
    BY <1>2 DEF Ask, CheckTimeout, LoadProbes, ReadState, CheckRate, counters
  <2> QED BY <1>0, <2>1
<1>3. CASE HalfOpen(c) \/ FinishTransition(c) \/ ResetState(c)
  <2>1. /\ state' \in CircuitState /\ ripe' \in BOOLEAN /\ successes' \in {0, successes}
        /\ UNCHANGED <<failures, probes, window, resets>>
    BY <1>0, <1>3 DEF HalfOpen, FinishTransition, ResetState, counters
  <2> QED BY <1>0, <2>1, BreakerConstants
<1>4. CASE FinishHalfOpen(c)
  BY <1>0, <1>4, BreakerConstants DEF FinishHalfOpen
<1>5. CASE AddProbe(c)
  <2>1. probes' = (probes + 1) % (UsizeMax + 1)
        /\ UNCHANGED <<state, slock, ripe, failures, successes, window, resets>>
    BY <1>5 DEF AddProbe
  <2>2. (probes + 1) % (UsizeMax + 1) \in 0..UsizeMax
    <3>1. probes + 1 \in Int /\ UsizeMax + 1 \in Nat \ {0} /\ UsizeMax \in Nat
      BY <1>0, BreakerConstants
    <3> DEFINE p == probes + 1
               q == UsizeMax + 1
    <3> HIDE DEF p, q, CellsOK
    <3>2. p % q \in 0..(q - 1)
      BY <3>1 DEF p, q
    <3> QED BY <3>1, <3>2 DEF p, q
  <2> QED BY <1>0, <2>1, <2>2
<1>6. CASE Record(c)
  <2>1. PICK ok \in BOOLEAN, expired \in 0..Len(window) :
          /\ Len(window) - expired < WindowMax
          /\ window' = Append(SubSeq(window, expired + 1, Len(window)), ok)
    BY <1>6 DEF Record
  <2>2. window' \in Seq(BOOLEAN) /\ Len(window') <= WindowMax
    BY <1>0, <2>1, Outcomes
  <2> QED BY <1>0, <1>6, <2>2 DEF Record, counters
<1>7. CASE ClosedSuccess(c)
  BY <1>0, <1>7, BreakerConstants DEF ClosedSuccess
<1>8. CASE ClosedFailure(c)
  <2>1. failures' \in 0..FailureThreshold
    BY <1>0, <1>8, BreakerConstants, CappedStays DEF ClosedFailure
  <2>2. UNCHANGED <<state, ripe, successes, probes, window, resets>>
    BY <1>8 DEF ClosedFailure
  <2> QED BY <1>0, <2>1, <2>2
<1>9. CASE HalfOpenSuccess(c)
  <2>1. successes' \in 0..SuccessThreshold
    BY <1>0, <1>9, BreakerConstants, CappedStays DEF HalfOpenSuccess
  <2>2. UNCHANGED <<state, ripe, failures, probes, window, resets>>
    BY <1>9 DEF HalfOpenSuccess
  <2> QED BY <1>0, <2>1, <2>2
<1>10. CASE Open(c) \/ Close(c)
  <2>1. /\ state' \in CircuitState /\ ripe' \in BOOLEAN /\ failures' \in {0, failures}
        /\ UNCHANGED <<successes, probes, window, resets>>
    BY <1>0, <1>10 DEF Open, Close, Transition
  <2> QED BY <1>0, <2>1, BreakerConstants
<1>11. CASE SubProbe(c)
  <2>1. probes' \in 0..UsizeMax
    <3>1. probes' = IF probes = 0 THEN UsizeMax ELSE probes - 1
      BY <1>11 DEF SubProbe
    <3>2. probes \in 0..UsizeMax /\ UsizeMax \in Nat
      BY <1>0, BreakerConstants
    <3> QED BY <3>1, <3>2
  <2>2. UNCHANGED <<state, ripe, failures, successes, window, resets>>
    BY <1>11 DEF SubProbe
  <2> QED BY <1>0, <2>1, <2>2
<1>12. CASE ResetCell(c)
  <2>1. /\ ripe' \in BOOLEAN /\ failures' \in {0, failures} /\ successes' \in {0, successes}
        /\ probes' \in {0, probes} /\ window' \in {<<>>, window}
        /\ UNCHANGED <<state, resets>>
    BY <1>0, <1>12 DEF ResetCell
  <2>2. window' \in Seq(BOOLEAN) /\ Len(window') <= WindowMax
    <3>1. CASE window' = <<>>
      BY <3>1, BreakerConstants
    <3>2. CASE window' = window
      BY <1>0, <3>2
    <3> QED BY <2>1, <3>1, <3>2
  <2>3. /\ failures' \in 0..FailureThreshold /\ successes' \in 0..SuccessThreshold
        /\ probes' \in 0..UsizeMax
    BY <1>0, <2>1, BreakerConstants
  <2> QED BY <1>0, <2>1, <2>2, <2>3
<1>13. CASE Reset(c)
  BY <1>0, <1>13, BreakerConstants DEF Reset, counters
<1> QED BY <1>2, <1>3, <1>4, <1>5, <1>6, <1>7, <1>8, <1>9, <1>10, <1>11, <1>12, <1>13
        DEF Inside

\* A client takes the lock of the state or gives it back with the step that
\* takes it in or out of a transition.
LEMMA OneClient ==
  ASSUME ClientsOK, NEW c \in Client, NEW pcs, Moves(c, pcs),
         \/ slock' = slock /\ slock # c /\ pcs \cap Holding = {}
         \/ slock = Nobody /\ slock' = c /\ pcs \subseteq Holding
         \/ slock = c /\ slock' = Nobody /\ pcs \cap Holding = {}
  PROVE  ClientsOK'
<1>1. PICK r \in Place : r.pc \in pcs /\ th' = [th EXCEPT ![c] = r]
  BY DEF Moves
<1>2. th \in [Client -> Place] /\ th' \in [Client -> Place] /\ th'[c] = r
      /\ \A d \in Client \ {c} : th'[d] = th[d]
  BY <1>1 DEF ClientsOK, Place
<1>3. slock' \in Client \cup {Nobody}
  BY DEF ClientsOK
<1>4. ASSUME NEW d \in Client PROVE th'[d].pc \in Holding <=> slock' = d
  <2>1. th[d].pc \in Holding <=> slock = d
    BY DEF ClientsOK, Holding
  <2>2. CASE d = c
    BY <1>1, <1>2, <2>2, BreakerConstants
  <2>3. CASE d # c
    BY <1>2, <2>1, <2>3, BreakerConstants
  <2> QED BY <2>2, <2>3
<1> QED BY <1>2, <1>3, <1>4 DEF ClientsOK, Place, Holding

LEMMA StepClients ==
  ASSUME BreakerTypeOK, BreakerNext
  PROVE  ClientsOK'
<1>1. ClientsOK /\ th \in [Client -> Place]
  BY TypeInParts DEF ClientsOK, Place
<1>2. CASE Elapse
  BY <1>1, <1>2 DEF Elapse, ClientsOK
<1> SUFFICES ASSUME NEW c \in Client, Ask(c) \/ Inside(c) \/ Reset(c) PROVE ClientsOK'
  BY <1>2 DEF BreakerNext
<1>3. Path(c)
  BY <1>1, StepPath
<1>4. ASSUME NEW pc, At(c, pc), pc \notin Holding PROVE slock # c
  BY <1>1, <1>4 DEF ClientsOK, Holding, At
<1>5. ASSUME NEW pcs, Moves(c, pcs), slock' = slock, slock # c,
             "halfopen2" \notin pcs, "open2" \notin pcs, "close2" \notin pcs
      PROVE  ClientsOK'
  <2>1. pcs \cap Holding = {}
    BY <1>5 DEF Holding
  <2> QED BY <1>1, <1>5, <2>1, OneClient
<1>6. ASSUME NEW pcs, Moves(c, pcs), slock' = Nobody, slock = c,
             "halfopen2" \notin pcs, "open2" \notin pcs, "close2" \notin pcs
      PROVE  ClientsOK'
  <2>1. pcs \cap Holding = {}
    BY <1>6 DEF Holding
  <2> QED BY <1>1, <1>6, <2>1, OneClient
<1>7. ASSUME NEW pc \in Holding, Goto(c, pc), slock = Nobody, slock' = c
      PROVE  ClientsOK'
  <2>1. pc \in PC /\ {pc} \subseteq Holding
    BY <1>7 DEF Holding, PC
  <2>2. Moves(c, {pc})
    BY <1>1, <1>7, <2>1, GotoMoves
  <2> QED BY <1>1, <1>7, <2>1, <2>2, OneClient
<1>8. slock = Nobody => slock # c
  BY BreakerConstants
<1>9. CASE HalfOpen(c)
  <2>1. CASE state = "Open"
    <3>1. Goto(c, "halfopen2") /\ slock = Nobody /\ slock' = c
      BY <1>9, <2>1 DEF HalfOpen
    <3> QED BY <1>7, <3>1 DEF Holding
  <2>2. CASE state # "Open"
    <3>1. Send(c, TRUE) /\ slock' = slock /\ slock = Nobody
      BY <1>9, <2>2 DEF HalfOpen
    <3>2. Moves(c, {"sent"})
      BY <1>1, <3>1, SendMoves
    <3> QED BY <1>5, <1>8, <3>1, <3>2
  <2> QED BY <2>1, <2>2
<1>10. ASSUME NEW from, NEW pc \in Holding, NEW to, Transition(c, from, pc, to)
       PROVE  ClientsOK'
  <2>1. CASE state # to
    <3>1. Goto(c, pc) /\ slock = Nobody /\ slock' = c
      BY <1>10, <2>1 DEF Transition
    <3> QED BY <1>7, <3>1
  <2>2. CASE state = to
    <3>1. th' = [th EXCEPT ![c] = Return(c)] /\ slock' = slock /\ slock = Nobody
      BY <1>10, <2>2 DEF Transition
    <3>2. Moves(c, {"idle", "sub"})
      BY <1>1, <3>1, ReturnMoves
    <3> QED BY <1>5, <1>8, <3>1, <3>2
  <2> QED BY <2>1, <2>2
<1>11. CASE FinishHalfOpen(c) /\ Moves(c, {"sent"})
  <2>1. slock = c /\ slock' = Nobody
    BY <1>1, <1>11 DEF FinishHalfOpen, ClientsOK, At
  <2> QED BY <1>6, <1>11, <2>1
<1>12. CASE FinishTransition(c) /\ Moves(c, {"idle", "sub"})
  <2>1. slock = c /\ slock' = Nobody
    BY <1>1, <1>12 DEF FinishTransition, ClientsOK, At
  <2> QED BY <1>6, <1>12, <2>1
<1>13. CASE Open(c)
  BY <1>10, <1>13 DEF Open, Holding
<1>14. CASE Close(c)
  BY <1>10, <1>14 DEF Close, Holding
<1>15. CASE \/ Ask(c) \/ CheckTimeout(c) \/ LoadProbes(c) \/ AddProbe(c) \/ Record(c)
            \/ ReadState(c) \/ ClosedSuccess(c) \/ ClosedFailure(c) \/ CheckRate(c)
            \/ HalfOpenSuccess(c) \/ SubProbe(c) \/ ResetState(c) \/ ResetCell(c) \/ Reset(c)
  <2>1. slock' = slock
    BY <1>15 DEF Ask, CheckTimeout, LoadProbes, AddProbe, Record, ReadState, ClosedSuccess,
       ClosedFailure, CheckRate, HalfOpenSuccess, SubProbe, ResetState, ResetCell, Reset
  <2>2. \E pc \in {"idle", "elapsed", "load", "add", "sent", "recorded", "closedOk",
                   "closedBad", "rate", "halfOk", "sub", "reset", "resetting"} : At(c, pc)
    BY <1>15 DEF Ask, CheckTimeout, LoadProbes, AddProbe, Record, ReadState, ClosedSuccess,
       ClosedFailure, CheckRate, HalfOpenSuccess, SubProbe, ResetState, ResetCell, Reset
  <2>3. slock # c
    BY <1>4, <2>2 DEF Holding
  <2>4. th[c].pc \notin {"halfopen", "halfopen2", "open", "open2", "close", "close2"}
    BY <2>2 DEF At
  <2>5. \E pcs : /\ Moves(c, pcs)
                 /\ "halfopen2" \notin pcs /\ "open2" \notin pcs /\ "close2" \notin pcs
    <3>1. ~HalfOpen(c) /\ ~Open(c) /\ ~Close(c)
      BY <2>4 DEF HalfOpen, Open, Close, Transition, At
    <3> QED BY <1>3, <3>1 DEF Path
  <2> QED BY <1>5, <2>1, <2>3, <2>5
<1>16. FinishHalfOpen(c) => Moves(c, {"sent"})
  BY <1>1, SendMoves DEF FinishHalfOpen
<1>17. FinishTransition(c) => Moves(c, {"idle", "sub"})
  BY <1>1, ReturnMoves DEF FinishTransition
<1> QED BY <1>9, <1>11, <1>12, <1>13, <1>14, <1>15, <1>16, <1>17 DEF Inside

\* A reset that is under way has a cell to go to.
Resetting == \A c \in Client : th[c].pc = "resetting" => th[c].todo \in 1..5

\* Emptying the window never makes its failures too many.
LEMMA EmptyWindow ==
  ASSUME window \in Seq(BOOLEAN), window' = <<>>, TooManyFailures'
  PROVE  TooManyFailures
<1>1. Len(window') = 0
  OBVIOUS
<1>2. 0 >= MinRequests /\ FailurePercent = 0
  BY <1>1 DEF TooManyFailures
<1>3. Len(window) \in Nat
  OBVIOUS
<1>4. Bad \in Nat
  <2>1. IsFiniteSet(1..Len(window))
    BY <1>3, FS_Interval
  <2>2. {i \in 1..Len(window) : ~window[i]} \in SUBSET (1..Len(window))
    OBVIOUS
  <2>3. IsFiniteSet({i \in 1..Len(window) : ~window[i]})
    BY <2>1, <2>2, FS_Subset
  <2> QED BY <2>3, FS_CardinalityType DEF Bad
<1>5. 100 * Bad >= FailurePercent * Len(window)
  <2>1. FailurePercent * Len(window) = 0
    BY <1>2, <1>3
  <2>2. 100 * Bad >= 0
    BY <1>4
  <2> QED BY <2>1, <2>2
<1>6. Len(window) >= MinRequests
  BY <1>2, <1>3, BreakerConstants
<1> QED BY <1>2, <1>5, <1>6 DEF TooManyFailures

LEMMA StepResetting ==
  ASSUME BreakerTypeOK, Resetting, BreakerNext
  PROVE  Resetting'
<1>1. th \in [Client -> Place]
  BY DEF BreakerTypeOK, Place
<1>2. CASE Elapse
  BY <1>2 DEF Elapse, Resetting
<1> SUFFICES ASSUME NEW c \in Client, Ask(c) \/ Inside(c) \/ Reset(c) PROVE Resetting'
  BY <1>2 DEF BreakerNext
<1>3. Path(c)
  BY <1>1, StepPath
<1>4. ASSUME NEW pcs, Moves(c, pcs), "resetting" \notin pcs PROVE Resetting'
  BY <1>1, <1>4 DEF Moves, Resetting
<1>5. CASE ResetState(c)
  <2>1. th' = [th EXCEPT ![c] = [[th[c] EXCEPT !.pc = "resetting"] EXCEPT !.todo = 1]]
    BY <1>5 DEF ResetState
  <2>2. th'[c].todo = 1 /\ \A d \in Client \ {c} : th'[d] = th[d]
    BY <1>1, <2>1 DEF Place
  <2> QED BY <2>2 DEF Resetting
<1>6. CASE ResetCell(c)
  <2>1. th[c].todo \in 1..5
    BY <1>6 DEF ResetCell, At, Resetting
  <2>2. CASE Cells[th[c].todo] = "window"
    <3>1. th' = [th EXCEPT ![c] = Idle]
      BY <1>6, <2>2 DEF ResetCell
    <3> QED BY <1>1, <3>1, IdlePlace DEF Resetting
  <2>3. CASE Cells[th[c].todo] # "window"
    <3>1. th' = [th EXCEPT ![c] = [th[c] EXCEPT !.todo = th[c].todo + 1]]
      BY <1>6, <2>3 DEF ResetCell
    <3>2. th'[c].todo = th[c].todo + 1 /\ \A d \in Client \ {c} : th'[d] = th[d]
      BY <1>1, <3>1 DEF Place
    <3>3. th[c].todo + 1 \in 1..5
      BY <2>1, <2>3, CellsNamed
    <3> QED BY <3>2, <3>3 DEF Resetting
  <2> QED BY <2>2, <2>3
<1>7. CASE ~ResetState(c) /\ ~ResetCell(c)
  BY <1>3, <1>4, <1>7 DEF Path
<1> QED BY <1>5, <1>6, <1>7

\* Whoever deals with the alarm has made it, or goes on dealing with it.
LEMMA StepAlarm ==
  ASSUME BreakerTypeOK, Resetting, Alarming => \E d \in Client : Deals(d),
         BreakerNext, Alarming'
  PROVE  \E d \in Client : Deals(d)'
<1>1. th \in [Client -> Place] /\ failures \in Nat /\ FailureThreshold \in Nat \ {0}
      /\ window \in Seq(BOOLEAN)
  BY BreakerConstants DEF BreakerTypeOK, Place
<1>2. state' = "Closed" /\ failures' >= FailureThreshold /\ TooManyFailures'
  BY DEF Alarming
<1>3. failures' # 0
  BY <1>1, <1>2
<1>4. UNCHANGED window => TooManyFailures
  BY <1>2 DEF TooManyFailures, Bad
<1>5. CASE Elapse
  BY <1>5 DEF Elapse, Alarming, TooManyFailures, Bad, Deals, counters
<1> SUFFICES ASSUME NEW c \in Client, Ask(c) \/ Inside(c) \/ Reset(c)
             PROVE  \E d \in Client : Deals(d)'
  BY <1>5 DEF BreakerNext
<1>6. Path(c)
  BY <1>1, StepPath
\* Somebody else was dealing with it, and still is.
<1>7. ASSUME NEW pcs, Moves(c, pcs), UNCHANGED <<state, failures>>, TooManyFailures, ~Deals(c)
      PROVE  \E d \in Client : Deals(d)'
  <2>1. PICK d \in Client : Deals(d)
    BY <1>2, <1>7 DEF Alarming
  <2>2. th'[d] = th[d]
    BY <1>1, <1>7, <2>1 DEF Moves
  <2> QED BY <2>1, <2>2 DEF Deals
\* The client itself deals with it.
<1>8. ASSUME NEW pcs, Moves(c, pcs),
             pcs \subseteq {"recorded", "closedOk", "closedBad", "rate", "open"}
      PROVE  \E d \in Client : Deals(d)'
  <2>1. th'[c].pc \in pcs
    BY <1>1, <1>8 DEF Moves
  <2> QED BY <1>8, <2>1 DEF Deals
<1>9. ASSUME NEW pc \in {"recorded", "closedOk", "closedBad", "rate", "open"}, Goto(c, pc)
      PROVE  \E d \in Client : Deals(d)'
  <2>1. Moves(c, {pc})
    BY <1>1, <1>9, GotoMoves DEF PC
  <2> QED BY <1>8, <2>1
<1>10. CASE \/ Ask(c) \/ CheckTimeout(c) \/ LoadProbes(c) \/ AddProbe(c)
            \/ HalfOpenSuccess(c) \/ SubProbe(c) \/ Reset(c) \/ FinishTransition(c)
  <2>1. UNCHANGED <<state, failures, window>>
    BY <1>10 DEF Ask, CheckTimeout, LoadProbes, AddProbe, HalfOpenSuccess, SubProbe, Reset,
       FinishTransition, counters
  <2>2. \E pc \in {"idle", "elapsed", "load", "add", "halfOk", "sub", "open2", "close2"} :
          At(c, pc)
    BY <1>10 DEF Ask, CheckTimeout, LoadProbes, AddProbe, HalfOpenSuccess, SubProbe, Reset,
       FinishTransition
  <2>3. ~Deals(c)
    BY <2>2 DEF At, Deals
  <2>4. \E pcs : Moves(c, pcs)
    BY <1>6 DEF Path
  <2> QED BY <1>4, <1>7, <2>1, <2>3, <2>4
<1>11. CASE HalfOpen(c)
  <2>1. UNCHANGED <<state, failures, window>> /\ At(c, "halfopen")
    BY <1>2, <1>11 DEF HalfOpen
  <2>2. ~Deals(c)
    BY <2>1 DEF At, Deals
  <2>3. \E pcs : Moves(c, pcs)
    BY <1>6 DEF Path
  <2> QED BY <1>4, <1>7, <2>1, <2>2, <2>3
<1>12. CASE FinishHalfOpen(c)
  <2>1. UNCHANGED <<state, failures>> /\ window' = <<>> /\ At(c, "halfopen2")
    BY <1>12 DEF FinishHalfOpen
  <2>2. ~Deals(c) /\ TooManyFailures
    BY <1>1, <1>2, <2>1, EmptyWindow DEF At, Deals
  <2>3. \E pcs : Moves(c, pcs)
    BY <1>6 DEF Path
  <2> QED BY <1>7, <2>1, <2>2, <2>3
<1>13. CASE Record(c)
  <2>1. PICK ok \in BOOLEAN : th' = [th EXCEPT ![c].pc = "recorded", ![c].ok = ok]
    BY <1>13 DEF Record
  <2>2. th'[c].pc = "recorded"
    BY <1>1, <2>1 DEF Place
  <2> QED BY <2>2 DEF Deals
<1>14. CASE ReadState(c)
  <2>1. state = "Closed" /\ Goto(c, IF th[c].ok THEN "closedOk" ELSE "closedBad")
    BY <1>2, <1>14 DEF ReadState
  <2>2. CASE th[c].ok
    <3>1. Goto(c, "closedOk")
      BY <2>1, <2>2
    <3> QED BY <1>9, <3>1
  <2>3. CASE ~th[c].ok
    <3>1. Goto(c, "closedBad")
      BY <2>1, <2>3
    <3> QED BY <1>9, <3>1
  <2> QED BY <2>2, <2>3
<1>15. CASE ClosedSuccess(c)
  BY <1>3, <1>15 DEF ClosedSuccess
<1>16. CASE ClosedFailure(c)
  <2>1. Goto(c, "rate")
    BY <1>2, <1>16 DEF ClosedFailure
  <2> QED BY <1>9, <2>1
<1>17. CASE CheckRate(c)
  <2>1. Goto(c, "open")
    BY <1>4, <1>17 DEF CheckRate
  <2> QED BY <1>9, <2>1
<1>18. CASE Open(c)
  BY <1>2, <1>18 DEF Open, Transition
<1>19. CASE Close(c)
  <2>1. UNCHANGED <<state, failures, window>> /\ At(c, "close")
    BY <1>3, <1>19 DEF Close, Transition
  <2>2. ~Deals(c)
    BY <2>1 DEF At, Deals
  <2>3. \E pcs : Moves(c, pcs)
    BY <1>6 DEF Path
  <2> QED BY <1>4, <1>7, <2>1, <2>2, <2>3
<1>20. CASE ResetState(c)
  <2>1. th' = [th EXCEPT ![c] = [[th[c] EXCEPT !.pc = "resetting"] EXCEPT !.todo = 1]]
    BY <1>20 DEF ResetState
  <2>2. th'[c].pc = "resetting" /\ th'[c].todo = 1
    BY <1>1, <2>1 DEF Place
  <2> QED BY <2>2 DEF Deals
<1>21. CASE ResetCell(c)
  <2>1. th[c].todo \in 1..5 /\ th[c].pc = "resetting" /\ state' = state
    BY <1>21 DEF ResetCell, At, Resetting
  <2>2. CASE th[c].todo = 1
    <3>1. th' = [th EXCEPT ![c] = [th[c] EXCEPT !.todo = th[c].todo + 1]]
      BY <1>21, <2>2, CellsNamed DEF ResetCell
    <3>2. th'[c].pc = "resetting" /\ th'[c].todo = 2
      BY <1>1, <2>1, <2>2, <3>1 DEF Place
    <3> QED BY <3>2 DEF Deals
  <2>3. CASE th[c].todo = 2
    BY <1>3, <1>21, <2>3, CellsNamed DEF ResetCell
  <2>4. CASE th[c].todo \in 3..5
    <3>1. Cells[th[c].todo] # "failures"
      BY <2>4, CellsNamed
    <3>2. failures' = failures /\ window' \in {<<>>, window}
      BY <1>21, <3>1 DEF ResetCell
    <3>3. TooManyFailures
      BY <1>1, <1>2, <1>4, <3>2, EmptyWindow
    <3>4. ~Deals(c)
      BY <2>1, <2>4 DEF Deals
    <3>5. \E pcs : Moves(c, pcs)
      BY <1>6 DEF Path
    <3> QED BY <1>7, <2>1, <3>2, <3>3, <3>4, <3>5
  <2> QED BY <2>1, <2>2, <2>3, <2>4
<1> QED BY <1>10, <1>11, <1>12, <1>13, <1>14, <1>15, <1>16, <1>17, <1>18, <1>19, <1>20,
           <1>21 DEF Inside

\* BreakerInv is inductive, with the place of a reset in its cells.
THEOREM BreakerInductive == BreakerSpec => [](BreakerInv /\ Resetting)
<1>1. BreakerInit => BreakerInv /\ Resetting
  <2> SUFFICES ASSUME BreakerInit PROVE BreakerInv /\ Resetting
    OBVIOUS
  <2>1. th \in [Client -> Place] /\ \A c \in Client : th[c].pc = "idle"
    BY IdlePlace DEF BreakerInit
  <2>2. ClientsOK
    BY <2>1, BreakerConstants DEF BreakerInit, ClientsOK, Place
  <2>3. CellsOK
    <3>1. <<>> \in Seq(BOOLEAN) /\ Len(<<>>) = 0
      OBVIOUS
    <3>2. window \in Seq(BOOLEAN) /\ Len(window) <= WindowMax
      BY <3>1, BreakerConstants DEF BreakerInit
    <3>3. /\ failures \in 0..FailureThreshold /\ successes \in 0..SuccessThreshold
          /\ probes \in 0..UsizeMax /\ resets \in 0..MaxResets
      BY BreakerConstants DEF BreakerInit
    <3>4. state \in CircuitState /\ ripe \in BOOLEAN
      BY DEF BreakerInit, CircuitState
    <3> QED BY <3>2, <3>3, <3>4 DEF CellsOK
  <2>4. ~Alarming
    BY BreakerConstants DEF BreakerInit, Alarming
  <2> QED BY <2>1, <2>2, <2>3, <2>4, TypeInParts DEF BreakerInv, Resetting
<1>2. BreakerInv /\ Resetting /\ [BreakerNext]_breakerVars => (BreakerInv /\ Resetting)'
  <2> SUFFICES ASSUME BreakerInv, Resetting, [BreakerNext]_breakerVars
               PROVE  BreakerInv' /\ Resetting'
    OBVIOUS
  <2>1. CASE BreakerNext
    <3>1. BreakerTypeOK
      BY DEF BreakerInv
    <3>2. CellsOK' /\ ClientsOK'
      BY <2>1, <3>1, StepCells, StepClients
    <3>3. BreakerTypeOK'
      BY <3>2 DEF BreakerTypeOK, CellsOK, ClientsOK
    <3>4. Alarming' => \E d \in Client : Deals(d)'
      BY <2>1, <3>1, StepAlarm DEF BreakerInv
    <3>5. Resetting'
      BY <2>1, <3>1, StepResetting
    <3> QED BY <3>3, <3>4, <3>5 DEF BreakerInv
  <2>2. CASE UNCHANGED breakerVars
    <3> USE <2>2 DEF breakerVars, counters
    <3>1. BreakerTypeOK'
      BY DEF BreakerInv, BreakerTypeOK
    <3>2. Alarming' => Alarming
      BY DEF Alarming, TooManyFailures, Bad
    <3> QED BY <3>1, <3>2 DEF BreakerInv, Resetting, Deals
  <2> QED BY <2>1, <2>2
<1> QED BY <1>1, <1>2, PTL DEF BreakerSpec

\* No series of failures is missed: any number of clients that count failures
\* at the same time, and resets, do not leave the decision to each other
\* (check_and_open_circuit, 278-290).
THEOREM NoFailureMissedAlways == BreakerSpec => []NoFailureMissed
<1>1. BreakerInv => NoFailureMissed
  <2> SUFFICES ASSUME BreakerInv PROVE NoFailureMissed
    OBVIOUS
  <2>1. AllIdle => \A c \in Client : ~Deals(c)
    BY DEF AllIdle, At, Deals
  <2>2. AllIdle => ~Alarming
    BY <2>1 DEF BreakerInv
  <2> QED BY <2>2 DEF BreakerInv, Alarming, NoFailureMissed
<1> QED BY BreakerInductive, <1>1, PTL

\* However many clients saw the timeout pass, one of them half-opens the
\* circuit: the others find it half open or closed (transition_to_half_open).
THEOREM HalfOpensOnceAlways == BreakerSpec => HalfOpensOnce
<1>1. [BreakerNext]_breakerVars
        => [state' = "HalfOpen" /\ state # state' => state = "Open"]_breakerVars
  <2> SUFFICES ASSUME BreakerNext, state' = "HalfOpen", state # state' PROVE state = "Open"
    OBVIOUS
  <2>1. CASE Elapse
    BY <2>1 DEF Elapse
  <2> SUFFICES ASSUME NEW c \in Client, Ask(c) \/ Inside(c) \/ Reset(c) PROVE state = "Open"
    BY <2>1 DEF BreakerNext
  <2>2. CASE HalfOpen(c)
    BY <2>2 DEF HalfOpen
  <2>3. CASE Open(c) \/ Close(c)
    BY <2>3 DEF Open, Close, Transition
  <2>4. CASE \/ Ask(c) \/ CheckTimeout(c) \/ FinishHalfOpen(c) \/ LoadProbes(c) \/ AddProbe(c)
             \/ Record(c) \/ ReadState(c) \/ ClosedSuccess(c) \/ ClosedFailure(c)
             \/ CheckRate(c) \/ HalfOpenSuccess(c) \/ FinishTransition(c) \/ SubProbe(c)
             \/ ResetState(c) \/ ResetCell(c) \/ Reset(c)
    BY <2>4 DEF Ask, CheckTimeout, FinishHalfOpen, LoadProbes, AddProbe, Record, ReadState,
       ClosedSuccess, ClosedFailure, CheckRate, HalfOpenSuccess, FinishTransition, SubProbe,
       ResetState, ResetCell, Reset, counters
  <2> QED BY <2>2, <2>3, <2>4 DEF Inside
<1> QED BY <1>1, PTL DEF BreakerSpec, HalfOpensOnce

(***************************************************************************)
(* What HalfOpenResolves rests on.  When one success closes the circuit, a *)
(* half-open circuit always has a client whose outcome will decide it: the *)
(* request that was let through is counted by nobody, but it is on its way *)
(* and ends in transition_to_open or transition_to_closed, unless somebody *)
(* decides before.  With a higher success threshold a success may be the   *)
(* last that is admitted, and nobody is left (the run breaker_stuck).      *)
(***************************************************************************)
Probing == {"halfopen2", "sent", "recorded", "halfOk", "close", "open"}
Probed == state = "HalfOpen" => \E c \in Client : th[c].pc \in Probing

LEMMA StepProbed ==
  ASSUME BreakerTypeOK, SuccessThreshold = 1, Probed, BreakerNext
  PROVE  Probed'
<1>1. th \in [Client -> Place]
  BY DEF BreakerTypeOK, Place
<1>2. CASE Elapse
  BY <1>2 DEF Elapse, Probed
<1> SUFFICES ASSUME NEW c \in Client, Ask(c) \/ Inside(c) \/ Reset(c),
                    state' = "HalfOpen"
             PROVE  \E d \in Client : th'[d].pc \in Probing
  BY <1>2 DEF BreakerNext, Probed
<1>3. Path(c)
  BY <1>1, StepPath
<1>4. ASSUME NEW pcs, Moves(c, pcs)
      PROVE  /\ th'[c].pc \in pcs
             /\ \A d \in Client \ {c} : th'[d] = th[d]
  BY <1>1, <1>4 DEF Moves
<1>5. ASSUME NEW pcs, pcs \subseteq Probing, Moves(c, pcs)
      PROVE  \E d \in Client : th'[d].pc \in Probing
  BY <1>4, <1>5
\* A client that does not probe leaves those that do where they are.
<1>6. ASSUME NEW pcs, Moves(c, pcs), state = "HalfOpen", th[c].pc \notin Probing
      PROVE  \E d \in Client : th'[d].pc \in Probing
  <2>1. PICK d \in Client : th[d].pc \in Probing
    BY <1>6 DEF Probed
  <2>2. d # c
    BY <1>6, <2>1
  <2>3. th'[d] = th[d]
    BY <1>4, <1>6, <2>2
  <2> QED BY <2>1, <2>3
<1>7. CASE \/ Ask(c) \/ CheckTimeout(c) \/ LoadProbes(c) \/ ClosedSuccess(c) \/ ClosedFailure(c)
           \/ CheckRate(c) \/ FinishTransition(c) \/ SubProbe(c) \/ ResetCell(c) \/ Reset(c)
  <2>1. state = "HalfOpen"
    BY <1>7 DEF Ask, CheckTimeout, LoadProbes, ClosedSuccess, ClosedFailure, CheckRate,
       FinishTransition, SubProbe, ResetCell, Reset
  <2>2. th[c].pc \in {"idle", "elapsed", "load", "closedOk", "closedBad", "rate", "open2",
                     "close2", "sub", "resetting"}
    BY <1>7 DEF Ask, CheckTimeout, LoadProbes, ClosedSuccess, ClosedFailure, CheckRate,
       FinishTransition, SubProbe, ResetCell, Reset, At
  <2>3. th[c].pc \notin Probing
    BY <2>2 DEF Probing
  <2>4. \E pcs : Moves(c, pcs)
    BY <1>3 DEF Path
  <2> QED BY <1>6, <2>1, <2>3, <2>4
<1>8. CASE FinishHalfOpen(c) \/ AddProbe(c) \/ Record(c)
  <2>1. Moves(c, {"sent"}) \/ Moves(c, {"recorded"})
    <3>1. CASE FinishHalfOpen(c)
      BY <1>1, <3>1, SendMoves DEF FinishHalfOpen
    <3>2. CASE AddProbe(c)
      BY <1>1, <3>2, SendMoves DEF AddProbe
    <3>3. CASE Record(c)
      <4>1. th[c].pc = "sent"
        BY <3>3 DEF Record, At
      <4>2. Record(c) => \E ok \in BOOLEAN :
                           th' = [th EXCEPT ![c].pc = "recorded", ![c].ok = ok]
        BY DEF Record
      <4>3. PICK ok \in BOOLEAN : th' = [th EXCEPT ![c].pc = "recorded", ![c].ok = ok]
        BY <3>3, <4>2
      <4> DEFINE r == [[th[c] EXCEPT !.pc = "recorded"] EXCEPT !.ok = ok]
      <4>4. r \in Place /\ r.pc = "recorded" /\ th' = [th EXCEPT ![c] = r]
        BY <1>1, <4>3 DEF Place, PC
      <4> QED BY <4>4 DEF Moves
    <3> QED BY <1>8, <3>1, <3>2, <3>3
  <2> QED BY <1>5, <2>1 DEF Probing
<1>9. CASE HalfOpen(c)
  <2>1. CASE state = "Open"
    <3>1. Goto(c, "halfopen2") /\ "halfopen2" \in PC
      BY <1>9, <2>1 DEF HalfOpen, PC
    <3>2. Moves(c, {"halfopen2"})
      BY <1>1, <3>1, GotoMoves
    <3> QED BY <1>5, <3>2 DEF Probing
  <2>2. CASE state # "Open"
    <3>1. Moves(c, {"sent"})
      BY <1>1, <1>9, <2>2, SendMoves DEF HalfOpen
    <3> QED BY <1>5, <3>1 DEF Probing
  <2> QED BY <2>1, <2>2
\* record_outcome under a half-open circuit
<1>10. CASE ReadState(c)
  <2>1. state = "HalfOpen"
    BY <1>10 DEF ReadState
  <2>2. th' = [th EXCEPT ![c].pc = IF th[c].ok THEN "halfOk" ELSE "open", ![c].after = "sub"]
    BY <1>10, <2>1 DEF ReadState
  <2>3. th'[c].pc \in {"halfOk", "open"}
    BY <1>1, <2>2 DEF Place
  <2> QED BY <2>3 DEF Probing
<1>11. CASE HalfOpenSuccess(c)
  <2>1. successes \in 0..1
    BY DEF BreakerTypeOK
  <2>2. Capped(successes, SuccessThreshold) >= SuccessThreshold
    BY <2>1 DEF Capped
  <2>3. Goto(c, "close") /\ "close" \in PC
    BY <1>11, <2>2 DEF HalfOpenSuccess, PC
  <2>4. Moves(c, {"close"})
    BY <1>1, <2>3, GotoMoves
  <2> QED BY <1>5, <2>4 DEF Probing
<1>12. ~Open(c) /\ ~Close(c) /\ ~ResetState(c)
  BY DEF Open, Close, Transition, ResetState
<1> QED BY <1>7, <1>8, <1>9, <1>10, <1>11, <1>12 DEF Inside

\* With success_threshold 1 a half-open circuit is never left without a client
\* whose outcome decides it, for any number of clients and resets.
THEOREM HalfOpenHasProbe ==
  BreakerSpec /\ SuccessThreshold = 1 => [](state = "HalfOpen" => \E c \in Client : th[c].pc \in Probing)
<1> SUFFICES ASSUME SuccessThreshold = 1 PROVE BreakerSpec => []Probed
  BY DEF Probed
<1>1. BreakerInit => Probed
  BY DEF BreakerInit, Probed
<1>2. BreakerInv /\ Probed /\ [BreakerNext]_breakerVars => Probed'
  <2> SUFFICES ASSUME BreakerInv, Probed, [BreakerNext]_breakerVars PROVE Probed'
    OBVIOUS
  <2>1. CASE BreakerNext
    BY <2>1, StepProbed DEF BreakerInv
  <2>2. CASE UNCHANGED breakerVars
    BY <2>2 DEF breakerVars, Probed
  <2> QED BY <2>1, <2>2
<1> QED BY <1>1, <1>2, BreakerInductive, PTL DEF BreakerSpec
=============================================================================
