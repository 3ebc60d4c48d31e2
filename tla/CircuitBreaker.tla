--------------------------- MODULE CircuitBreaker ---------------------------
(***************************************************************************)
(* CircuitBreaker of core/network/src/circuit_breaker.rs: the state behind *)
(* one RwLock, three atomic counters, the sliding window behind another    *)
(* lock.  The clients are the tasks that share one breaker: each asks      *)
(* allow_request, sends its request when allowed, and reports the outcome. *)
(* A step is what happens between two points where another client may get  *)
(* in: one lock section or one atomic operation.                           *)
(***************************************************************************)
EXTENDS Integers, Sequences, FiniteSets

CONSTANTS Client, Nobody,
          FailureThreshold, SuccessThreshold, MinRequests,
          FailurePercent,      \* failure_rate_threshold, in percent
          HalfOpenMax,         \* half_open_max_requests
          UsizeMax,            \* usize::MAX, scaled down
          WindowMax,           \* bound: outcomes in the sliding window
          MaxResets            \* bound: calls of reset

ASSUME CircuitBreakerAssumption ==
  /\ Nobody \notin Client
  /\ {FailureThreshold, SuccessThreshold, HalfOpenMax, UsizeMax, WindowMax}
       \subseteq Nat \ {0}
  /\ MinRequests \in Nat /\ FailurePercent \in 0..100 /\ MaxResets \in Nat

VARIABLES
  state,      \* CircuitState
  slock,      \* the client inside a transition, which holds state.write()
  ripe,       \* has the timeout elapsed since state_changed_at?
  failures,   \* consecutive_failures
  successes,  \* consecutive_successes
  probes,     \* half_open_requests
  window,     \* the outcomes of the sliding window, oldest first
  th,         \* where each client is
  resets      \* calls of reset so far

counters == <<failures, successes, probes>>
breakerVars == <<state, slock, ripe, counters, window, th, resets>>

CircuitState == {"Closed", "Open", "HalfOpen"}

(* pc is the next thing a client does.  "sent" is the request itself, between
   allow_request and record_outcome.  after is where a transition returns to,
   probe tells a request allowed while the circuit was not Closed, todo what
   reset has left to do. *)
PC == {"idle", "elapsed", "halfopen", "halfopen2", "load", "add", "sent",
       "recorded", "closedOk", "closedBad", "rate", "halfOk",
       "open", "open2", "close", "close2", "sub", "reset", "resetting"}

Cells == <<"changed", "failures", "successes", "probes", "window">>

BreakerTypeOK ==
  /\ state \in CircuitState
  /\ slock \in Client \cup {Nobody}
  /\ ripe \in BOOLEAN
  /\ failures \in 0..FailureThreshold
  /\ successes \in 0..SuccessThreshold
  /\ probes \in 0..UsizeMax
  /\ window \in Seq(BOOLEAN) /\ Len(window) <= WindowMax
  /\ th \in [Client -> [pc : PC, ok : BOOLEAN, after : {"idle", "sub"},
                        probe : BOOLEAN, todo : 0..Len(Cells)]]
  /\ resets \in 0..MaxResets
  /\ \A c \in Client :
       th[c].pc \in {"halfopen2", "open2", "close2"} <=> slock = c

At(c, pc) == th[c].pc = pc
Goto(c, pc) == th' = [th EXCEPT ![c].pc = pc]
Idle == [pc |-> "idle", ok |-> TRUE, after |-> "idle", probe |-> FALSE, todo |-> 0]
Reject(c) == th' = [th EXCEPT ![c] = Idle]
Send(c, probe) == th' = [th EXCEPT ![c].pc = "sent", ![c].probe = probe]

\* The counters are only compared with their thresholds: saturating is exact.
Capped(n, cap) == IF n < cap THEN n + 1 ELSE cap

-----------------------------------------------------------------------------
(* allow_request *)

Ask(c) ==
  /\ At(c, "idle") /\ slock = Nobody
  /\ \/ state = "Closed" /\ Send(c, FALSE)
     \/ state = "Open" /\ Goto(c, "elapsed")
     \/ state = "HalfOpen" /\ Goto(c, "load")
  /\ UNCHANGED <<state, slock, ripe, counters, window, resets>>

CheckTimeout(c) ==
  /\ At(c, "elapsed")
  /\ IF ripe THEN Goto(c, "halfopen") ELSE Reject(c)
  /\ UNCHANGED <<state, slock, ripe, counters, window, resets>>

HalfOpenAnyway(c) ==   \* mutant: the state is not looked at again
  /\ At(c, "halfopen") /\ slock = Nobody
  /\ state' = "HalfOpen" /\ slock' = c /\ ripe' = FALSE
  /\ successes' = 0
  /\ Goto(c, "halfopen2")
  /\ UNCHANGED <<failures, probes, window, resets>>

(* transition_to_half_open.  The caller is allowed its request whether or not
   it was the one to make the transition; and nobody counts it as a probe. *)
HalfOpen(c) ==
  /\ At(c, "halfopen") /\ slock = Nobody
  /\ IF state = "Open"
     THEN /\ state' = "HalfOpen" /\ slock' = c /\ ripe' = FALSE
          /\ successes' = 0
          /\ Goto(c, "halfopen2")
     ELSE Send(c, TRUE) /\ UNCHANGED <<state, slock, ripe, successes>>
  /\ UNCHANGED <<failures, probes, window, resets>>

FinishHalfOpen(c) ==
  /\ At(c, "halfopen2")
  /\ probes' = 0 /\ window' = <<>> /\ slock' = Nobody
  /\ Send(c, TRUE)
  /\ UNCHANGED <<state, ripe, failures, successes, resets>>

WaitForSlot(c) ==   \* mutant: spins instead of rejecting
  /\ At(c, "load")
  /\ IF probes < HalfOpenMax THEN Goto(c, "add") ELSE th' = th
  /\ UNCHANGED <<state, slock, ripe, counters, window, resets>>

LoadProbes(c) ==
  /\ At(c, "load")
  /\ IF probes < HalfOpenMax THEN Goto(c, "add") ELSE Reject(c)
  /\ UNCHANGED <<state, slock, ripe, counters, window, resets>>

AddProbe(c) ==
  /\ At(c, "add")
  /\ probes' = (probes + 1) % (UsizeMax + 1)
  /\ Send(c, TRUE)
  /\ UNCHANGED <<state, slock, ripe, failures, successes, window, resets>>

-----------------------------------------------------------------------------
(* record_outcome *)

(* SlidingWindow::record, with cleanup: any of the older outcomes may have
   left the window by now, from the oldest on. *)
Record(c) ==
  /\ At(c, "sent")
  /\ \E ok \in BOOLEAN, expired \in 0..Len(window) :
       /\ Len(window) - expired < WindowMax
       /\ window' = Append(SubSeq(window, expired + 1, Len(window)), ok)
       /\ th' = [th EXCEPT ![c].pc = "recorded", ![c].ok = ok]
  /\ UNCHANGED <<state, slock, ripe, counters, resets>>

ReadState(c) ==
  /\ At(c, "recorded") /\ slock = Nobody
  /\ \/ /\ state = "Closed"
        /\ Goto(c, IF th[c].ok THEN "closedOk" ELSE "closedBad")
     \/ state = "Open" /\ th' = [th EXCEPT ![c] = Idle]
     \/ /\ state = "HalfOpen"
        /\ th' = [th EXCEPT ![c].pc = IF th[c].ok THEN "halfOk" ELSE "open",
                            ![c].after = "sub"]
  /\ UNCHANGED <<state, slock, ripe, counters, window, resets>>

ClosedSuccess(c) ==
  /\ At(c, "closedOk")
  /\ failures' = 0
  /\ th' = [th EXCEPT ![c] = Idle]
  /\ UNCHANGED <<state, slock, ripe, successes, probes, window, resets>>

CheckWhenReached(c) ==   \* mutant: == for >=, checks when the threshold is reached
  /\ At(c, "closedBad")
  /\ failures' = Capped(failures, FailureThreshold)
  /\ IF failures' = FailureThreshold /\ failures # failures' THEN Goto(c, "rate")
     ELSE th' = [th EXCEPT ![c] = Idle]
  /\ UNCHANGED <<state, slock, ripe, successes, probes, window, resets>>

ClosedFailure(c) ==
  /\ At(c, "closedBad")
  /\ failures' = Capped(failures, FailureThreshold)
  /\ IF failures' >= FailureThreshold THEN Goto(c, "rate")
     ELSE th' = [th EXCEPT ![c] = Idle]
  /\ UNCHANGED <<state, slock, ripe, successes, probes, window, resets>>

Bad == Cardinality({i \in 1..Len(window) : ~window[i]})
\* The rate of an empty window is 0.
TooManyFailures ==
  /\ Len(window) >= MinRequests
  /\ 100 * Bad >= FailurePercent * Len(window)
  /\ window = <<>> => FailurePercent = 0

\* check_and_open_circuit, up to the release of the window
CheckRate(c) ==
  /\ At(c, "rate")
  /\ IF TooManyFailures
     THEN Goto(c, "open")
     ELSE th' = [th EXCEPT ![c] = Idle]
  /\ UNCHANGED <<state, slock, ripe, counters, window, resets>>

MoreSuccesses(c) ==   \* mutant: one more success than the threshold
  /\ At(c, "halfOk")
  /\ successes' = Capped(successes, SuccessThreshold)
  /\ Goto(c, IF successes' > SuccessThreshold THEN "close" ELSE "sub")
  /\ UNCHANGED <<state, slock, ripe, failures, probes, window, resets>>

HalfOpenSuccess(c) ==
  /\ At(c, "halfOk")
  /\ successes' = Capped(successes, SuccessThreshold)
  /\ Goto(c, IF successes' >= SuccessThreshold THEN "close" ELSE "sub")
  /\ UNCHANGED <<state, slock, ripe, failures, probes, window, resets>>

(* transition_to_open and transition_to_closed: nothing happens when the
   state is already to. *)
Return(c) == IF th[c].after = "idle" THEN Idle ELSE [th[c] EXCEPT !.pc = "sub"]

Transition(c, pc, pc2, to) ==
  /\ At(c, pc) /\ slock = Nobody
  /\ IF state # to
     THEN /\ state' = to /\ slock' = c /\ ripe' = FALSE /\ failures' = 0
          /\ Goto(c, pc2)
     ELSE th' = [th EXCEPT ![c] = Return(c)] /\ UNCHANGED <<state, slock, ripe, failures>>
  /\ UNCHANGED <<successes, probes, window, resets>>

Open(c) == Transition(c, "open", "open2", "Open")
Close(c) == Transition(c, "close", "close2", "Closed")

FinishTransition(c) ==
  /\ At(c, "open2") \/ At(c, "close2")
  /\ successes' = 0 /\ slock' = Nobody
  /\ th' = [th EXCEPT ![c] = Return(c)]
  /\ UNCHANGED <<state, ripe, failures, probes, window, resets>>

SubProbe(c) ==
  /\ At(c, "sub")
  /\ probes' = IF probes = 0 THEN UsizeMax ELSE probes - 1
  /\ th' = [th EXCEPT ![c] = Idle]
  /\ UNCHANGED <<state, slock, ripe, failures, successes, window, resets>>

-----------------------------------------------------------------------------
(* reset, one cell after the other. *)

Reset(c) ==
  /\ At(c, "idle") /\ resets < MaxResets
  /\ resets' = resets + 1
  /\ Goto(c, "reset")
  /\ UNCHANGED <<state, slock, ripe, counters, window>>

ResetState(c) ==
  /\ At(c, "reset") /\ slock = Nobody
  /\ state' = "Closed"
  /\ th' = [th EXCEPT ![c].pc = "resetting", ![c].todo = 1]
  /\ UNCHANGED <<slock, ripe, counters, window, resets>>

ResetCell(c) ==
  /\ At(c, "resetting")
  /\ LET cell == Cells[th[c].todo]
     IN  /\ ripe' = (ripe /\ cell # "changed")
         /\ failures' = IF cell = "failures" THEN 0 ELSE failures
         /\ successes' = IF cell = "successes" THEN 0 ELSE successes
         /\ probes' = IF cell = "probes" THEN 0 ELSE probes
         /\ window' = IF cell = "window" THEN <<>> ELSE window
         /\ th' = [th EXCEPT ![c] = IF cell = "window" THEN Idle
                                    ELSE [th[c] EXCEPT !.todo = th[c].todo + 1]]
  /\ UNCHANGED <<state, slock, resets>>

-----------------------------------------------------------------------------
(* The clock: the timeout passes after the last change of state. *)
Elapse ==
  /\ ~ripe /\ ripe' = TRUE
  /\ UNCHANGED <<state, slock, counters, window, th, resets>>

BreakerInit ==
  /\ state = "Closed" /\ slock = Nobody /\ ripe = FALSE
  /\ failures = 0 /\ successes = 0 /\ probes = 0
  /\ window = <<>>
  /\ th = [c \in Client |-> Idle]
  /\ resets = 0

Inside(c) ==
  \/ CheckTimeout(c) \/ HalfOpen(c) \/ FinishHalfOpen(c)
  \/ LoadProbes(c) \/ AddProbe(c)
  \/ Record(c) \/ ReadState(c)
  \/ ClosedSuccess(c) \/ ClosedFailure(c) \/ CheckRate(c)
  \/ HalfOpenSuccess(c) \/ Open(c) \/ Close(c) \/ FinishTransition(c)
  \/ SubProbe(c)
  \/ ResetState(c) \/ ResetCell(c)

BreakerNext == Elapse \/ \E c \in Client : Ask(c) \/ Inside(c) \/ Reset(c)

BreakerSpec == BreakerInit /\ [][BreakerNext]_breakerVars

\* Requests end and are reported; tasks inside a call are scheduled, and the
\* state lock (parking_lot's, which is eventually fair) starves nobody.
BreakerFairSpec == BreakerSpec /\ \A c \in Client : SF_breakerVars(Inside(c))
\* Moreover clients keep asking, and time passes.
BusySpec == BreakerFairSpec /\ WF_breakerVars(Elapse) /\ \A c \in Client : WF_breakerVars(Ask(c))

-----------------------------------------------------------------------------
(* Safety. *)

AllIdle == \A c \in Client : At(c, "idle")

(* HalfOpen is entered from Open only, however many clients saw the timeout
   pass. *)
HalfOpensOnce == [][state' = "HalfOpen" /\ state # state' => state = "Open"]_breakerVars

(* No series of failures goes unnoticed: when nobody is inside the breaker, a
   Closed circuit whose counter has reached the threshold has too good a
   window, or too few requests in it, to be opened.  Clients whose failures
   are counted at the same time cannot each leave the decision to the other,
   nor can a reset between the two (check_and_open_circuit, 278-290). *)
NoFailureMissed ==
  BreakerTypeOK /\ (AllIdle /\ state = "Closed" /\ failures >= FailureThreshold => ~TooManyFailures)

-----------------------------------------------------------------------------
(* Liveness. *)

(* A call of allow_request, record_outcome or reset returns, whoever holds
   the locks. *)
CallsReturn == \A c \in Client : ~At(c, "idle") ~> At(c, "idle")

(* A half-open circuit is decided: it opens again or closes. *)
HalfOpenResolves == state = "HalfOpen" ~> state # "HalfOpen"
=============================================================================
