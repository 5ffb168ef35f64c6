--------------------------- MODULE CircuitBreaker ---------------------------
(***************************************************************************)
(* network/circuit_breaker.py: the breaker of one host, shared by all the  *)
(* requests the process makes to it.  _before_call, _on_success and        *)
(* _on_failure suspend nowhere while they hold the lock, so each is one    *)
(* step; the protected call lies between two of them, and many calls are   *)
(* under way at a time.                                                    *)
(***************************************************************************)
EXTENDS Naturals, FiniteSets

CONSTANTS
    Callers,            \* the tasks that make calls
    Cancellable,        \* those whose task may be cancelled during a call
    Threshold,          \* _failure_threshold
    TrialLimit,         \* _half_open_max_calls
    Recovery            \* _recovery_timeout, in ticks of the clock

ASSUME CallersAssumption == IsFiniteSet(Callers) /\ Cancellable \subseteq Callers
ASSUME LimitsAssumption ==
    Threshold \in Nat \ {0} /\ TrialLimit \in Nat \ {0} /\ Recovery \in Nat \ {0}

VARIABLES
    state,              \* _state
    failures,           \* _failure_count, no further than the threshold
    elapsed,            \* now - _opened_at, no further than the timeout
    halfOpenCalls,      \* _half_open_calls
    call,               \* what each caller is doing, and how it was let in
    lost                \* history: trials of this period that were cancelled

vars == <<state, failures, elapsed, halfOpenCalls, call, lost>>

States == {"closed", "open", "half_open"}

(* A call let in by a closed circuit, one let in as a trial since the      *)
(* circuit last became half-open, and a trial of an earlier such period.   *)
Calls == {"idle", "passed", "trial", "stale"}

TypeOK ==
    /\ state \in States
    /\ failures \in 0..Threshold
    /\ elapsed \in 0..Recovery
    /\ halfOpenCalls \in 0..TrialLimit
    /\ call \in [Callers -> Calls]
    /\ lost \in 0..TrialLimit

Init ==
    /\ state = "closed"
    /\ failures = 0
    /\ elapsed = 0
    /\ halfOpenCalls = 0
    /\ call = [c \in Callers |-> "idle"]
    /\ lost = 0

\* Only "at least n" is ever asked of the two counters: they stop at n.
UpTo(n, i) == IF i < n THEN i ELSE n
-----------------------------------------------------------------------------
(* What the code would be with one plausible mistake in it: no action uses *)
(* these; each stands in for a definition below to show that a property    *)
(* notices.                                                                *)

\* The count of trials is not reset when a new half-open period begins.
SlotsKept == halfOpenCalls

\* A success does not reset the count of failures.
CloseWithoutReset == state' = "closed" /\ failures' = failures

\* A success resets the count but leaves the state as it is.
ResetWithoutClose == state' = state /\ failures' = 0

\* A rejected call counts as a failure of its own.
RejectAsFailure(c) ==
    /\ call[c] = "idle" /\ state = "open" /\ elapsed < Recovery
    /\ elapsed' = 0
    /\ UNCHANGED <<state, failures, halfOpenCalls, call, lost>>
-----------------------------------------------------------------------------
(* _before_call()                                                          *)

TimedOut   == state = "open" /\ elapsed >= Recovery
SlotFree   == halfOpenCalls < TrialLimit
FirstSlots == 0

PassClosed(c) ==
    /\ call[c] = "idle" /\ state = "closed"
    /\ call' = [call EXCEPT ![c] = "passed"]
    /\ UNCHANGED <<state, failures, elapsed, halfOpenCalls, lost>>

\* The first call after the timeout makes the circuit half-open, and is the
\* first trial of the period.
FirstTrial(c) ==
    /\ call[c] = "idle" /\ TimedOut
    /\ state' = "half_open"
    /\ halfOpenCalls' = FirstSlots + 1
    /\ call' = [d \in Callers |-> IF d = c THEN "trial"
                                  ELSE IF call[d] = "trial" THEN "stale" ELSE call[d]]
    /\ lost' = 0
    /\ UNCHANGED <<failures, elapsed>>

FurtherTrial(c) ==
    /\ call[c] = "idle" /\ state = "half_open" /\ SlotFree
    /\ halfOpenCalls' = halfOpenCalls + 1
    /\ call' = [call EXCEPT ![c] = "trial"]
    /\ UNCHANGED <<state, failures, elapsed, lost>>

\* CircuitOpen is raised; nothing changes.
Reject(c) ==
    /\ call[c] = "idle"
    /\ \/ state = "open" /\ ~TimedOut
       \/ state = "half_open" /\ ~SlotFree
    /\ UNCHANGED vars

-----------------------------------------------------------------------------
(* call(): the answer of the protected call                                *)

End(c) ==
    /\ call[c] # "idle"
    /\ call' = [call EXCEPT ![c] = "idle"]

CloseCircuit == state' = "closed" /\ failures' = 0

\* _on_success(), whichever state the circuit is in by now.
Succeed(c) ==
    /\ End(c)
    /\ CloseCircuit
    /\ UNCHANGED <<elapsed, halfOpenCalls, lost>>

\* _on_failure(): a half-open circuit opens at once, any other one when the
\* count has reached the threshold; _opened_at is then taken anew.
CountFailure ==
    /\ failures' = UpTo(Threshold, failures + 1)
    /\ IF state = "half_open" \/ failures' >= Threshold
          THEN state' = "open" /\ elapsed' = 0
          ELSE UNCHANGED <<state, elapsed>>

Fail(c) ==
    /\ End(c)
    /\ CountFailure
    /\ UNCHANGED <<halfOpenCalls, lost>>

\* CancelledError is no Exception: neither callback runs.
Cancel(c) ==
    /\ c \in Cancellable
    /\ End(c)
    /\ lost' = IF call[c] = "trial" THEN lost + 1 ELSE lost
    /\ UNCHANGED <<state, failures, elapsed, halfOpenCalls>>

Tick ==
    /\ elapsed < Recovery
    /\ elapsed' = elapsed + 1
    /\ UNCHANGED <<state, failures, halfOpenCalls, call, lost>>

Ask(c)    == PassClosed(c) \/ FirstTrial(c) \/ FurtherTrial(c) \/ Reject(c)
Answer(c) == Succeed(c) \/ Fail(c) \/ Cancel(c)

Next == (\E c \in Callers : Ask(c) \/ Answer(c)) \/ Tick

Spec == Init /\ [][Next]_vars

(* Time passes, and every call ends: requests run under a timeout.  Nobody *)
(* has to make a call.                                                     *)
FairSpec == Spec /\ WF_vars(Tick) /\ \A c \in Callers : WF_vars(Answer(c))
-----------------------------------------------------------------------------
Trials == {c \in Callers : call[c] = "trial"}

(* The circuit is closed exactly while fewer failures than the threshold   *)
(* came in since the last success, although calls of every period answer   *)
(* in any order: _on_failure changes the state, the count is only ever     *)
(* compared in a closed circuit.                                           *)
ClosedWhileFewFailures == state = "closed" <=> failures < Threshold

(* In a half-open circuit every slot that is taken belongs to a trial of   *)
(* this period that is still under way, or to one that was cancelled: the  *)
(* first answer ends the period, and late answers to other calls never     *)
(* leave a circuit half-open with a wrong count.                           *)
SlotsAreTrials == state = "half_open" => halfOpenCalls = Cardinality(Trials) + lost

(* A half-open circuit that lets nobody in any more is left again: "a      *)
(* success closes the circuit again, a failure reopens it" (lines 7-8).    *)
HalfOpenResolves == (state = "half_open" /\ ~SlotFree) ~> (state # "half_open")

(* Short of that sentence, what the code keeps: as long as not every slot  *)
(* was lost to a cancelled trial, a full half-open circuit is left again,  *)
(* by an answer of one of the trials under way.                            *)
TrialsResolve ==
    (state = "half_open" /\ ~SlotFree /\ lost < TrialLimit)
        ~> (state # "half_open" \/ lost = TrialLimit)

(* An open circuit is ready for a trial after the recovery timeout, though *)
(* answers that come in late start the timeout anew.                       *)
RecoveryComes == (state = "open") ~> (state # "open" \/ TimedOut)

(* "Open: calls are rejected immediately (CircuitOpen) until the recovery  *)
(* timeout elapses" (lines 5-6): until then the circuit stays open.        *)
StaysOpen == [][state = "open" /\ ~TimedOut => state' = "open"]_vars
=============================================================================
