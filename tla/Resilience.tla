------------------------------ MODULE Resilience ------------------------------
(***************************************************************************)
(* How one service calls another and waits for the answer: ServiceClient,  *)
(* which sends a request with a timeout, repeats it after a growing delay, *)
(* and wraps the whole in the circuit breaker of that dependency.          *)
(*                                                                         *)
(* A call is one ServiceClient.send in flight.  Calls run concurrently in  *)
(* one process and share the breaker, whose state each reads when it       *)
(* begins and writes when it ends, with seconds of requests and delays in  *)
(* between.  Time passes in ticks; a timer that is due is handled before   *)
(* the next tick, and the clock matters only as the time since the         *)
(* breaker's last failure, up to the reset timeout.                        *)
(***************************************************************************)
EXTENDS Integers

CONSTANTS
  Calls,             \* calls that can be in flight together
  Timeout,           \* ticks before a request is given up
  Attempts,          \* requests a call sends at most
  Delay,             \* Delay[a]: ticks between attempts a and a + 1
  Left,              \* Left[a]: ticks a call can still last when attempt a fails
  FailureThreshold,  \* consecutive failures that open the breaker
  SuccessThreshold,  \* successes in HALF_OPEN that close it
  ResetTimeout       \* ticks it stays open after its last failure

\* The order service's calls take at most 8+1+8+2+8 seconds, and the breaker
\* resets after 30: Left is the tail of that sum.
ASSUME ResilienceAssumption ==
  /\ Timeout \in Nat \ {0}
  /\ Attempts \in Nat \ {0}
  /\ Delay \in [1..Attempts -> Nat]
  /\ Left \in [1..Attempts -> Nat]
  /\ \A a \in 1..(Attempts - 1) : Left[a] = Delay[a] + Timeout + Left[a + 1]
  /\ FailureThreshold \in Nat \ {0}
  /\ SuccessThreshold \in Nat \ {0}
  /\ ResetTimeout \in Nat
  /\ Timeout + Left[1] < ResetTimeout

VARIABLES
  state,      \* the breaker's: "CLOSED", "OPEN" or "HALF_OPEN"
  failures,   \* stats.failures, counted up to the threshold
  successes,  \* stats.successes
  since,      \* ticks since lastFailureAt, counted up to the reset timeout
  healthy,    \* whether the dependency answers
  call        \* per call: what it waits for, in which attempt, how long still

breaker == <<state, failures, successes, since>>
vars == <<state, failures, successes, since, healthy, call>>

Idle == [step |-> "idle"]
Sent(a) == [step |-> "sent", attempt |-> a, timer |-> Timeout]
Sleeping(a) == [step |-> "sleep", attempt |-> a, timer |-> Delay[a]]

Init ==
  /\ state = "CLOSED"
  /\ failures = 0
  /\ successes = 0
  /\ since = ResetTimeout
  /\ healthy = TRUE
  /\ call = [c \in Calls |-> Idle]

-----------------------------------------------------------------------------
(* CircuitBreakerService *)

\* Mutant: a breaker that is open is probed after one timeout.
ShouldAttemptReset_Early == since >= Timeout

ShouldAttemptReset == since >= ResetTimeout

Transition(to) ==
  /\ state' = to
  /\ successes' = 0

\* Mutant: the probe's success is not counted.
OnSuccess_Uncounted ==
  /\ UNCHANGED <<state, successes, since>>
  /\ failures' = IF state = "HALF_OPEN" THEN failures ELSE 0

\* A success in OPEN, of a call that began before, resets failures too.
OnSuccess ==
  /\ UNCHANGED since
  /\ IF state # "HALF_OPEN"
     THEN failures' = 0 /\ UNCHANGED <<state, successes>>
     ELSE IF successes + 1 >= SuccessThreshold
     THEN Transition("CLOSED") /\ failures' = 0
     ELSE successes' = successes + 1 /\ UNCHANGED <<state, failures>>

Counted == IF failures < FailureThreshold THEN failures + 1 ELSE failures

OnFailure ==
  /\ failures' = Counted
  /\ since' = 0
  /\ IF state = "HALF_OPEN" \/ Counted >= FailureThreshold
     THEN Transition("OPEN")
     ELSE UNCHANGED <<state, successes>>

-----------------------------------------------------------------------------
(* ServiceClient.send: execute, withRetry, resolveWithTimeout *)

\* The breaker lets the call through and its first request goes out.  In
\* HALF_OPEN it lets every call through.  A call it refuses changes nothing.
Admit(c) ==
  /\ call[c] = Idle
  /\ \/ state # "OPEN" /\ UNCHANGED breaker
     \/ /\ state = "OPEN"
        /\ ShouldAttemptReset
        /\ Transition("HALF_OPEN")
        /\ UNCHANGED <<failures, since>>
  /\ call' = [call EXCEPT ![c] = Sent(1)]
  /\ UNCHANGED healthy

\* Mutant: one attempt more than asked for.
LastAttempt_OneMore(a) == a > Attempts

LastAttempt(a) == a = Attempts

\* The attempt failed in a way classifyError calls transient.
AttemptFails(c) ==
  LET a == call[c].attempt
  IN IF LastAttempt(a)
     THEN call' = [call EXCEPT ![c] = Idle] /\ OnFailure
     ELSE call' = [call EXCEPT ![c] = Sleeping(a)] /\ UNCHANGED breaker

\* Mutant: only the first request has a timeout.
RequestTimesOut_FirstOnly(c) ==
  /\ call[c].step = "sent"
  /\ call[c].timer = 0
  /\ call[c].attempt = 1
  /\ ~healthy
  /\ AttemptFails(c)
  /\ UNCHANGED healthy

\* The timeout of resolveWithTimeout, when no answer comes.
RequestTimesOut(c) ==
  /\ call[c].step = "sent"
  /\ call[c].timer = 0
  /\ ~healthy
  /\ AttemptFails(c)
  /\ UNCHANGED healthy

\* The answer is an error: the connection is refused, or the other side's
\* handler throws, which reaches the caller without an HTTP status.
ErrorReply(c) ==
  /\ call[c].step = "sent"
  /\ ~healthy
  /\ AttemptFails(c)
  /\ UNCHANGED healthy

Answer(c) ==
  /\ call[c].step = "sent"
  /\ healthy
  /\ call' = [call EXCEPT ![c] = Idle]
  /\ OnSuccess
  /\ UNCHANGED healthy

\* The delay is over.  The request is repeated whatever the breaker says now.
Retry(c) ==
  /\ call[c].step = "sleep"
  /\ call[c].timer = 0
  /\ call' = [call EXCEPT ![c] = Sent(@.attempt + 1)]
  /\ UNCHANGED <<breaker, healthy>>

-----------------------------------------------------------------------------
(* The environment *)

Tick ==
  /\ \A c \in Calls : call[c] # Idle => call[c].timer > 0
  /\ since' = IF since < ResetTimeout THEN since + 1 ELSE since
  /\ call' = [c \in Calls |-> IF call[c] = Idle THEN Idle
                              ELSE [call[c] EXCEPT !.timer = @ - 1]]
  /\ UNCHANGED <<state, failures, successes, healthy>>

\* The dependency goes down, or comes back.
HealthChanges ==
  /\ healthy' = ~healthy
  /\ UNCHANGED <<breaker, call>>

CallStep(c) ==
  \/ RequestTimesOut(c)
  \/ ErrorReply(c)
  \/ Answer(c)
  \/ Retry(c)

Next ==
  \/ \E c \in Calls : Admit(c) \/ CallStep(c)
  \/ Tick
  \/ HealthChanges

Spec == Init /\ [][Next]_vars

\* Timers run and fire, a healthy dependency answers, and calls keep coming.  A
\* dependency that is down owes nothing: no fairness of ErrorReply.
Fairness ==
  /\ WF_vars(Tick)
  /\ \A c \in Calls :
       /\ WF_vars(Admit(c))
       /\ WF_vars(Answer(c) \/ RequestTimesOut(c))
       /\ WF_vars(Retry(c))

FairSpec == Spec /\ Fairness

-----------------------------------------------------------------------------
(* Properties *)

\* Every variable has its type.  Of the whole module: circuit-breaker.service.ts,
\* retry.ts.
TypeOK ==
  /\ state \in {"CLOSED", "OPEN", "HALF_OPEN"}
  /\ failures \in 0..FailureThreshold
  /\ successes \in 0..(SuccessThreshold - 1)
  /\ since \in 0..ResetTimeout
  /\ healthy \in BOOLEAN
  /\ call \in [Calls -> {Idle}
                 \cup [step : {"sent"}, attempt : 1..Attempts, timer : 0..Timeout]
                 \cup [step : {"sleep"}, attempt : 1..Attempts, timer : Nat]]

\* When an open breaker lets its first probe through, every call that began
\* before it opened has ended: no straggler's late success or failure is
\* counted as a probe's, although the breaker does not tell them apart.  It
\* rests on the timeouts, the retries and the reset timeout together.
QuietBeforeProbe ==
  [][state = "OPEN" /\ state' = "HALF_OPEN" =>
       \A c \in Calls : call[c] = Idle]_vars

\* Every call ends, although a dependency that is down may never answer: each
\* attempt runs into its timeout at the latest, and the attempts are counted.
\* "Could hang forever" is over (order-creation.service.ts).
CallsEnd == \A c \in Calls : call[c] # Idle ~> call[c] = Idle

\* Once the dependency is healthy for good, the breaker closes for good,
\* whatever the calls in flight were when it came back.
Recovers == <>[]healthy => <>[](state = "CLOSED")

=============================================================================
