------------------------------ MODULE Handshake ------------------------------
(***************************************************************************)
(* The HandshakeCoordinators of core/protocol/src/handshake.rs on the      *)
(* nodes of a network, each with the ProtocolStateMachine it owns          *)
(* (core/protocol/src/state.rs).  A handshake is Init, Response, Complete: *)
(* the initiator's session goes InitSent -> Completed, the answering one   *)
(* ResponseSent -> Completed.                                              *)
(*                                                                         *)
(* The coordinator only turns messages into messages: its caller carries   *)
(* them, and says which session a Response or a Complete is for (neither   *)
(* message names the receiver's session).  Here the caller may lose, delay,*)
(* reorder and repeat a message, and pick any session of the node.  A      *)
(* message with a timestamp out of range is refused without an effect: it  *)
(* is one more way to be lost.  So a message sent stays deliverable, and   *)
(* the sessions tell which were sent.                                      *)
(*                                                                         *)
(* The handlers sign each message once, and a message signed once does not *)
(* verify (Sign).  The caller of a node may sign it once more before it    *)
(* carries it, as Message::sign and the keys of the session are public;    *)
(* the nodes where it does are the set again.                              *)
(*                                                                         *)
(* A session holds keys and a nonce of its own, made with it: its identity *)
(* stands for them.  A session removed before it was Completed keeps its   *)
(* record, marked gone, so that what it sent is still known.               *)
(***************************************************************************)
EXTENDS Integers, Sequences, FiniteSets

CONSTANTS
  Nodes,
  Inits,      \* the handshakes that may be initiated; i is also the session
  Owner,      \* Owner[i]: the initiator
  Peer,       \* Peer[i]: the node its Init is carried to
  Copies,     \* Copies[i]: how often that Init may be delivered
  Configs,    \* HandshakeConfigs, records of versions, required and offered
  CURRENT,    \* ProtocolVersion::CURRENT
  Starts      \* the states a machine may be in when it is handed over

\* The sessions that answer Init i, one for each of its deliveries.
Answering(i) == {i} \X (1 .. Copies[i])
Answers == UNION {Answering(i) : i \in Inits}
Of(r) == r[1]

Handshaking == {"Waiting", "InProgress", "Processing", "Completed", "Failed"}
States == {"Initial", "Active", "Elsewhere"} \cup Handshaking

ASSUME HandshakeAssumption ==
  /\ Owner \in [Inits -> Nodes] /\ Peer \in [Inits -> Nodes]
  /\ \A i \in Inits : Owner[i] # Peer[i]
  /\ Copies \in [Inits -> Nat]
  /\ \A c \in Configs : c.versions \in Seq([major : Nat, minor : Nat])
  /\ Starts \subseteq States

VARIABLES
  config,    \* config[n], which never changes
  start,     \* start[n]: the state the machine of n was handed over in
  again,     \* the nodes whose caller signs what it carries; it never changes
  machine,   \* machine[n]: current_state
  own,       \* own[i]: the initiator's session i
  ans        \* ans[r]: the session r that answers

vars == <<config, start, again, machine, own, ans>>

NoOne == <<>>
NoVersion == [major |-> 0, minor |-> 0]

\* own: peer is whose signature key peer_keys holds; secret is shared_secrets.
\* ans: sent tells that the Response left the coordinator.
NotInitiated == [state |-> "absent", gone |-> FALSE, peer |-> NoOne,
                 version |-> NoVersion, secret |-> NoOne]
NotAnswered  == [state |-> "absent", gone |-> FALSE, sent |-> FALSE,
                 version |-> NoVersion, secret |-> NoOne]

-----------------------------------------------------------------------------
(* Versions and capabilities *)

Elements(s) == {s[k] : k \in 1 .. Len(s)}

Compatible(v, w) == v.major = w.major /\ v.minor <= w.minor

\* The versions of ours that suit a peer that lists theirs.
Suiting(ours, theirs) ==
  {k \in 1 .. Len(ours) : \E w \in Elements(theirs) : Compatible(ours[k], w)}

\* negotiate_version: CURRENT, which every initiator prefers, or the first of
\* ours that suits.
Negotiable(ours, theirs) ==
  CURRENT \in Elements(ours) \/ Suiting(ours, theirs) # {}
Negotiated(ours, theirs) ==
  IF CURRENT \in Elements(ours) THEN CURRENT
  ELSE ours[CHOOSE k \in Suiting(ours, theirs) :
                   \A j \in Suiting(ours, theirs) : k <= j]

\* verify_capabilities of n on what node p offers
Capable(n, p) == config[n].required \subseteq config[p].offered

-----------------------------------------------------------------------------
(* Signatures *)

\* Of a message: its sender_key_hash, and what that was in the bytes signed.
Unsigned == [hash |-> "none", covers |-> "nothing"]

\* sign fills in the hash after it has signed.
Sign(m) == [hash |-> "key", covers |-> m.hash]

\* verify signs the message as it is now, with the hash in it.  (Given another
\* key than the sender's, it fails whatever was signed.)
Verifies(m) == m.covers = m.hash

\* A message of n as it is carried: the handlers have signed it.
Carried(n) == IF n \in again THEN Sign(Sign(Unsigned)) ELSE Sign(Unsigned)

-----------------------------------------------------------------------------
(* Secrets *)

\* What encapsulating to the key of i yields in session r, and what decapsulating
\* that ciphertext yields with the key of j: another secret unless j is i.
KemSecret(j, r) == IF j = Of(r) THEN <<"kem", r>> ELSE <<"other", j, r>>

\* derive_session_keys: both nonces go in, in an order that does not matter.
SessionKeys(kem, i, r) == <<kem, {i, r}>>

-----------------------------------------------------------------------------
(* The state machine, as messages move it *)

Transitions ==
  {<<"Initial", "Waiting">>, <<"Waiting", "InProgress">>,
   <<"InProgress", "Processing">>, <<"InProgress", "Failed">>,
   <<"Processing", "Completed">>, <<"Processing", "Failed">>,
   <<"Completed", "Active">>}

\* mutant: staying where it is counts as a wrong transition
ValidStrictly(from, to) == <<from, to>> \in Transitions

Valid(from, to) == from = to \/ <<from, to>> \in Transitions

\* On Init it goes InProgress, or refuses; it cares not, when past handshaking.
Takes(m) == m \in {"Initial"} \cup Handshaking => Valid(m, "InProgress")
AfterInit(m) == IF m \in {"Initial"} \cup Handshaking THEN "InProgress" ELSE m

AfterResponse(m) == IF m = "InProgress" THEN "Processing" ELSE m

\* mutant: the machine goes Active on a Complete in any state of a handshake
AfterAnyComplete(m) == IF m \in {"InProgress", "Processing"} THEN "Active" ELSE m

\* Completed is passed through on the way to Active.
AfterComplete(m) == IF m = "Processing" THEN "Active" ELSE m

Init ==
  /\ config \in [Nodes -> Configs]
  /\ start \in [Nodes -> Starts]
  /\ again \in SUBSET Nodes
  /\ machine = start
  /\ own = [i \in Inits |-> NotInitiated]
  /\ ans = [r \in Answers |-> NotAnswered]

-----------------------------------------------------------------------------
(* The handlers *)

\* initiate_handshake: the session is stored, Init is on its way; the machine
\* is not told.
Initiate(i) ==
  /\ own[i].state = "absent"
  /\ own' = [own EXCEPT ![i].state = "InitSent"]
  /\ UNCHANGED <<config, start, again, machine, ans>>

InitSent(i) == own[i].state # "absent"

\* process_handshake_init makes session r.  It is stored before the machine is
\* asked: when that refuses, the session stays and the Response is dropped.
RecvInit(r) ==
  LET i == Of(r)   n == Peer[i]   p == Owner[i] IN
  /\ InitSent(i) /\ ans[r].state = "absent"
  /\ \A q \in Answering(i) : q[2] < r[2] => ans[q].state # "absent"
  /\ Verifies(Carried(p))
  /\ Negotiable(config[n].versions, config[p].versions)
  /\ Capable(n, p)
  /\ ans' = [ans EXCEPT ![r] =
               [state |-> "ResponseSent", gone |-> FALSE, sent |-> Takes(machine[n]),
                version |-> Negotiated(config[n].versions, config[p].versions),
                secret |-> SessionKeys(KemSecret(i, r), i, r)]]
  /\ machine' = IF Takes(machine[n])
                THEN [machine EXCEPT ![n] = AfterInit(@)] ELSE machine
  /\ UNCHANGED <<config, start, again, own>>

\* mutant: the version in the Response is taken as it comes
RecvResponseUnread(i, r) ==
  LET n == Owner[i]   p == Peer[Of(r)] IN
  /\ own[i].state = "InitSent" /\ ~own[i].gone
  /\ ans[r].sent /\ Owner[Of(r)] = n
  /\ Verifies(Carried(p))
  /\ Capable(n, p)
  /\ own' = [own EXCEPT ![i] =
               [state |-> "Completed", gone |-> FALSE, peer |-> r,
                version |-> ans[r].version,
                secret |-> SessionKeys(KemSecret(i, r), i, r)]]
  /\ machine' = [machine EXCEPT ![n] = AfterResponse(@)]
  /\ UNCHANGED <<config, start, again, ans>>

\* process_handshake_response: the Response of r is given to session i.
RecvResponse(i, r) ==
  LET n == Owner[i]   p == Peer[Of(r)] IN
  /\ own[i].state = "InitSent" /\ ~own[i].gone
  /\ ans[r].sent /\ Owner[Of(r)] = n
  /\ Verifies(Carried(p))
  /\ ans[r].version \in Elements(config[n].versions)
  /\ Capable(n, p)
  /\ own' = [own EXCEPT ![i] =
               [state |-> "Completed", gone |-> FALSE, peer |-> r,
                version |-> ans[r].version,
                secret |-> SessionKeys(KemSecret(i, r), i, r)]]
  /\ machine' = [machine EXCEPT ![n] = AfterResponse(@)]
  /\ UNCHANGED <<config, start, again, ans>>

CompleteSent(i) == own[i].state = "Completed"

\* mutant: a Complete is not checked against the key the session holds
RecvCompleteOf(i, r) ==
  /\ CompleteSent(i) /\ Verifies(Carried(Owner[i]))
  /\ ans[r].state = "ResponseSent" /\ ~ans[r].gone
  /\ ans' = [ans EXCEPT ![r].state = "Completed"]
  /\ machine' = [machine EXCEPT ![Peer[i]] = AfterComplete(@)]
  /\ UNCHANGED <<config, start, again, own>>

\* process_handshake_complete: the Complete of i is given to session r of the node
\* it is carried to, and must verify with the key r holds for its peer.
RecvComplete(i, r) ==
  /\ CompleteSent(i) /\ Of(r) = i /\ Verifies(Carried(Owner[i]))
  /\ ans[r].state = "ResponseSent" /\ ~ans[r].gone
  /\ ans' = [ans EXCEPT ![r].state = "Completed"]
  /\ machine' = [machine EXCEPT ![Peer[i]] = AfterComplete(@)]
  /\ UNCHANGED <<config, start, again, own>>

\* The sessions of n under way.
Pending(n) ==
  {i \in Inits : Owner[i] = n /\ own[i].state = "InitSent" /\ ~own[i].gone}
  \cup {r \in Answers : Peer[Of(r)] = n /\ ans[r].state = "ResponseSent" /\ ~ans[r].gone}

\* cleanup_sessions on n: of the sessions under way it removes those older than
\* the timeout, which may be any: the model does not tell their ages.  Those
\* that are Completed go too, which no handler would notice, as none takes a
\* message for them: they are left as they are.
Cleanup(n, late) ==
  /\ late # {} /\ late \subseteq Pending(n)
  /\ own' = [i \in Inits |-> IF i \in late THEN [own[i] EXCEPT !.gone = TRUE] ELSE own[i]]
  /\ ans' = [r \in Answers |-> IF r \in late THEN [ans[r] EXCEPT !.gone = TRUE] ELSE ans[r]]
  /\ UNCHANGED <<config, start, again, machine>>

Next ==
  \/ \E i \in Inits : Initiate(i)
  \/ \E i \in Inits : \E r \in Answering(i) : RecvInit(r)
  \/ \E i \in Inits, r \in Answers : RecvResponse(i, r) \/ RecvComplete(i, r)
  \/ \E n \in Nodes : \E late \in SUBSET Pending(n) : Cleanup(n, late)

Spec == Init /\ [][Next]_vars

\* A caller and a network that deliver every message in the end, a Response to
\* the session it answers.
FairSpec ==
  /\ Spec
  /\ \A i \in Inits : \A r \in Answering(i) :
       WF_vars(RecvInit(r)) /\ WF_vars(RecvResponse(i, r))

-----------------------------------------------------------------------------
(* Properties *)

Versions == (UNION {Elements(c.versions) : c \in Configs}) \cup {CURRENT, NoVersion}
Secrets  == {SessionKeys(KemSecret(i, r), i, r) : i \in Inits, r \in Answers} \cup {NoOne}

TypeOK ==
  /\ config \in [Nodes -> Configs] /\ start \in [Nodes -> Starts]
  /\ again \subseteq Nodes
  /\ machine \in [Nodes -> States]
  /\ own \in [Inits -> [state : {"absent", "InitSent", "Completed"}, gone : BOOLEAN,
                        peer : Answers \cup {NoOne}, version : Versions,
                        secret : Secrets]]
  /\ ans \in [Answers -> [state : {"absent", "ResponseSent", "Completed"},
                          gone : BOOLEAN, sent : BOOLEAN, version : Versions,
                          secret : Secrets]]

\* An initiator's session that is Completed speaks a version both nodes support,
\* each has the capabilities the other requires, the callers of both sign again
\* (what the handlers sign is refused), and it holds the secret of the
\* session whose Response it took exactly when that Response was to its own Init:
\* a Response the caller gave to the wrong session completes it as well.
SameSecrets ==
  /\ TypeOK
  /\ \A i \in Inits : own[i].state = "Completed" =>
       LET r == own[i].peer   n == Owner[i]   p == Peer[Of(r)] IN
       /\ ans[r].sent /\ Owner[Of(r)] = n
       /\ {n, p} \subseteq again
       /\ own[i].version = ans[r].version
       /\ own[i].version \in Elements(config[n].versions)
                             \cap Elements(config[p].versions)
       /\ Capable(n, p) /\ Capable(p, n)
       /\ (own[i].secret = ans[r].secret) <=> (Of(r) = i)

\* An answering session that is Completed has an initiator that is; and it shares
\* the secret and the version with it, provided the Init was delivered once and
\* its Response went where it belongs.  (With two deliveries it may be the other
\* one that the initiator took: a Complete does not tell which.)
CompletedPair ==
  \A i \in Inits : \A r \in Answering(i) : ans[r].state = "Completed" =>
    /\ own[i].state = "Completed"
    /\ (\A q \in Answering(i) : q # r => ans[q].state = "absent")
         /\ Of(own[i].peer) = i
       => own[i].peer = r /\ own[i].secret = ans[r].secret
                          /\ own[i].version = ans[r].version

WasAnswered(n) == \E i \in Inits : Owner[i] = n /\ own[i].state = "Completed"
Answered(n) == \E r \in Answers : Peer[Of(r)] = n /\ ans[r].state # "absent"
HasSent(n) == \E r \in Answers : Peer[Of(r)] = n /\ ans[r].sent
HasDropped(n) ==
  \E r \in Answers : Peer[Of(r)] = n /\ ans[r].state # "absent" /\ ~ans[r].sent
WasCompleted(n) == \E r \in Answers : Peer[Of(r)] = n /\ ans[r].state = "Completed"

\* How far the machine got tells what the node did.  It does not leave Initial,
\* and then the node has sent no Response; no handshake takes it from Waiting to
\* Active, but two do: one that the node answered, and one of its own.  A
\* Response is dropped only by a node that is fresh or was itself answered, if its
\* machine was handed over with its handshake still ahead.  And no machine moves
\* unless the caller of some other node signs again.
MachineFollows ==
  \A n \in Nodes :
    /\ machine[n] # start[n] => again \ {n} # {}
    /\ start[n] = "Initial" => machine[n] = "Initial" /\ ~HasSent(n)
    /\ start[n] = "Waiting" =>
         (machine[n] \in {"InProgress", "Processing", "Active"} <=> Answered(n))
    /\ start[n] \in {"Waiting", "InProgress"} =>
         /\ machine[n] \in {"Processing", "Active"} => WasAnswered(n)
         /\ machine[n] = "Active" => WasCompleted(n)
    /\ HasDropped(n) =>
         \/ start[n] \in {"Initial", "Processing", "Completed", "Failed"}
         \/ start[n] \in {"Waiting", "InProgress"} /\ WasAnswered(n)

\* What both nodes need for a handshake to go through.
Matching(n, p) ==
  /\ {n, p} \subseteq again
  /\ Negotiable(config[p].versions, config[n].versions)
  /\ Negotiated(config[p].versions, config[n].versions) \in Elements(config[n].versions)
  /\ Capable(n, p) /\ Capable(p, n)

\* If messages arrive, an initiated handshake completes or is cleaned up, between
\* nodes that match, whose callers sign again, and when the peer's machine is past
\* handshaking, or still waiting and not itself answered in the meantime.
HandshakeCompletes ==
  \A i \in Inits :
    LET n == Owner[i]   p == Peer[i] IN
    InitSent(i) /\ Matching(n, p) /\ start[p] # "Initial"
    ~> \/ own[i].state = "Completed" \/ own[i].gone
       \/ start[p] = "Waiting" /\ WasAnswered(p)

\* A message signed with the key it names verifies (protocol_compliance_tests.rs,
\* "Signature verification must succeed"): an Init that arrives, with a version
\* and capabilities that suit, is answered.
InitAnswered ==
  \A i \in Inits :
    /\ InitSent(i) /\ Copies[i] > 0
    /\ Negotiable(config[Peer[i]].versions, config[Owner[i]].versions)
    /\ Capable(Peer[i], Owner[i])
    ~> \E r \in Answering(i) : ans[r].state # "absent"

=============================================================================
