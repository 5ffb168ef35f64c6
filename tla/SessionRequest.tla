--------------------------- MODULE SessionRequest ---------------------------
(***************************************************************************)
(* SessionManager.request(): the requests the process makes to one host.   *)
(* A request waits for the rate limiter once, then makes up to MaxAttempts *)
(* attempts, each of them a call through the host's circuit breaker        *)
(* (CircuitBreaker), and sleeps between them.  NetworkMetrics counts what  *)
(* begins, what ends and what is retried.                                  *)
(*                                                                         *)
(* Nothing suspends between the limiter's or the backoff's return and the  *)
(* breaker's decision, nor between an answer and the next sleep.           *)
(***************************************************************************)
EXTENDS CircuitBreaker

CONSTANTS
    MaxAttempts,        \* RetryPolicy.max_attempts
    MaxRequests         \* bound on the requests made

ASSUME PolicyAssumption == MaxAttempts \in Nat \ {0} /\ MaxRequests \in Nat

VARIABLES
    phase,              \* where each request is suspended
    attempt,            \* how many attempts it has made
    metrics,            \* NetworkMetrics
    abandoned,          \* history: the requests that were cancelled
    begun               \* history: the requests that were made

requestVars == <<phase, attempt>>
history     == <<abandoned, begun>>
sessionVars == <<vars, requestVars, metrics, history>>

\* Waiting for the limiter, on the network, asleep between two attempts.
Phases   == {"idle", "limited", "sent", "backoff"}
Counters == {"open", "total", "successful", "failed", "retries"}

SessionTypeOK ==
    /\ TypeOK
    /\ phase \in [Callers -> Phases]
    /\ attempt \in [Callers -> 0..MaxAttempts]
    /\ metrics \in [Counters -> Nat]
    /\ abandoned \in Nat
    /\ begun \in Nat

SessionInit ==
    /\ Init
    /\ phase = [c \in Callers |-> "idle"]
    /\ attempt = [c \in Callers |-> 0]
    /\ metrics = [n \in Counters |-> 0]
    /\ abandoned = 0
    /\ begun = 0

Move(c, to, n) ==
    /\ phase' = [phase EXCEPT ![c] = to]
    /\ attempt' = [attempt EXCEPT ![c] = n]

-----------------------------------------------------------------------------
(* What the code would be with one plausible mistake in it: no action uses *)
(* these; each stands in for a definition below to show that a property    *)
(* notices.                                                                *)

\* A request that is refused by the breaker does not record its end.
ForgetRefused(c) ==
    /\ Reject(c)
    /\ Move(c, "idle", 0)
    /\ UNCHANGED metrics

\* A request that is refused by the breaker sleeps until it is let in.
WaitForCircuit(c) ==
    /\ Reject(c)
    /\ Move(c, "backoff", attempt[c])
    /\ UNCHANGED metrics

\* The request sleeps before its call through the breaker is over.
SleepInsideCall(c) ==
    /\ CountFailure
    /\ UNCHANGED <<halfOpenCalls, lost, call>>
    /\ Move(c, "backoff", attempt[c])
    /\ metrics' = [metrics EXCEPT !["retries"] = @ + 1]
-----------------------------------------------------------------------------
(* NetworkMetrics                                                          *)

RecordStart == [metrics EXCEPT !["open"] = @ + 1]

RecordEnd(outcome) ==
    [metrics EXCEPT !["open"] = IF @ > 0 THEN @ - 1 ELSE 0,
                    !["total"] = @ + 1,
                    ![outcome] = @ + 1]

EndRequest(c, outcome) ==
    /\ Move(c, "idle", 0)
    /\ metrics' = RecordEnd(outcome)

-----------------------------------------------------------------------------
Begin(c) ==
    /\ phase[c] = "idle" /\ begun < MaxRequests
    /\ begun' = begun + 1
    /\ Move(c, "limited", 0)
    /\ metrics' = RecordStart
    /\ UNCHANGED <<vars, abandoned>>

(* An attempt, the first once the limiter lets the request through, the    *)
(* others after a sleep.                                                   *)
Send(c) ==
    /\ PassClosed(c) \/ FirstTrial(c) \/ FurtherTrial(c)
    /\ Move(c, "sent", attempt[c] + 1)
    /\ UNCHANGED metrics

\* CircuitOpen is not among the exceptions that are retried.  (A policy of
\* one attempt catches it, and raises RetryExceeded all the same.)
Refused(c) == Reject(c) /\ EndRequest(c, "failed")

Try(c) ==
    /\ phase[c] \in {"limited", "backoff"}
    /\ Send(c) \/ Refused(c)
    /\ UNCHANGED history

MayRetry(c) == attempt[c] < MaxAttempts

\* A timeout or another HTTP error is retried as long as attempts are left.
SleepAndRetry(c) ==
    /\ Fail(c)
    /\ Move(c, "backoff", attempt[c])
    /\ metrics' = [metrics EXCEPT !["retries"] = @ + 1]

\* Any other error ends the request at once.
Answered(c) ==
    /\ phase[c] = "sent"
    /\ \/ Succeed(c) /\ EndRequest(c, "successful")
       \/ MayRetry(c) /\ SleepAndRetry(c)
       \/ Fail(c) /\ EndRequest(c, "failed")
    /\ UNCHANGED history

\* CancelledError is no Exception: the end is not recorded.
Abandon(c) ==
    /\ c \in Cancellable /\ phase[c] # "idle"
    /\ IF phase[c] = "sent" THEN Cancel(c) ELSE UNCHANGED vars
    /\ Move(c, "idle", 0)
    /\ abandoned' = abandoned + 1
    /\ UNCHANGED <<metrics, begun>>

TimePasses == Tick /\ UNCHANGED <<requestVars, metrics, history>>

SessionNext ==
    \/ \E c \in Callers : Begin(c) \/ Try(c) \/ Answered(c) \/ Abandon(c)
    \/ TimePasses

SessionSpec == SessionInit /\ [][SessionNext]_sessionVars
-----------------------------------------------------------------------------
InFlight == {c \in Callers : phase[c] # "idle"}

(* Each request is counted once when it begins and once when it ends, with *)
(* any number of attempts, refusals and retries in between; a cancelled    *)
(* one stays among the open connections for good, although they are to be  *)
(* tracked ("open-connection tracking", network_metrics.py lines 1-2).     *)
CountersAgree ==
    /\ metrics["open"] = Cardinality(InFlight) + abandoned
    /\ metrics["total"] = metrics["successful"] + metrics["failed"]
    /\ begun = metrics["total"] + metrics["open"]

(* A call is inside the breaker exactly while its request is on the        *)
(* network: a request that sleeps before a retry holds no trial slot, so   *)
(* the slots of a half-open circuit belong to requests that will answer.   *)
OnlySentHoldSlots ==
    /\ \A c \in Callers : call[c] # "idle" <=> phase[c] = "sent"
    /\ SlotsAreTrials

(* Whatever requests do with it, the breaker remains the breaker.          *)
BreakerSpec == Spec

(* Every request ends: retries are bounded, and the breaker lets a request *)
(* through or refuses it, but never makes it wait.                         *)
RequestsEnd == \A c \in Callers : (phase[c] # "idle") ~> (phase[c] = "idle")
=============================================================================
