------------------------ MODULE CircuitBreaker_proofs ------------------------
(***************************************************************************)
(* Theorems about CircuitBreaker, for any callers, any of them cancelled,  *)
(* and any threshold, trial limit and timeout.                             *)
(***************************************************************************)
EXTENDS CircuitBreaker, FiniteSetTheorems, TLAPS

(* The slots in any state: a trial of an ended period may answer later, so *)
(* there only a bound is left, which is what makes the equality of         *)
(* SlotsAreTrials inductive.                                               *)
SlotsBound == Cardinality(Trials) + lost <= halfOpenCalls

BreakerInv == TypeOK /\ ClosedWhileFewFailures /\ SlotsBound /\ SlotsAreTrials

(* The trials when one caller begins or ends a call.                       *)
LEMMA TrialsFinite ==
    ASSUME TypeOK
    PROVE  IsFiniteSet(Trials) /\ Cardinality(Trials) \in Nat
    BY CallersAssumption, FS_Subset, FS_CardinalityType DEF Trials

(* An answer takes its caller, and nobody else, out of the trials.         *)
LEMMA EndEffect ==
    ASSUME TypeOK, NEW c \in Callers, End(c)
    PROVE  /\ call' \in [Callers -> Calls]
           /\ Trials' = Trials \ {c}
           /\ call[c] = "trial" => Cardinality(Trials') = Cardinality(Trials) - 1
           /\ call[c] # "trial" => Cardinality(Trials') = Cardinality(Trials)
           /\ Cardinality(Trials) \in Nat /\ Cardinality(Trials') \in Nat
<1>1. call' \in [Callers -> Calls] /\ Trials' = Trials \ {c}
    BY DEF End, Trials, TypeOK, Calls
<1>2. c \in Trials <=> call[c] = "trial"
    BY DEF Trials
<1>3. IsFiniteSet(Trials) /\ Cardinality(Trials) \in Nat
    BY TrialsFinite
<1>4. QED
    BY <1>1, <1>2, <1>3, FS_RemoveElement, FS_CardinalityType

(* No call is under way and no failure counted at the beginning.           *)
LEMMA BreakerInit == Init => BreakerInv
<1> SUFFICES ASSUME Init PROVE BreakerInv
    OBVIOUS
<1>1. Trials = {}
    BY DEF Init, Trials
<1>2. Cardinality(Trials) = 0
    BY <1>1, FS_EmptySet
<1>3. QED
    BY <1>2, LimitsAssumption
    DEF Init, BreakerInv, TypeOK, States, Calls, ClosedWhileFewFailures, SlotsBound, SlotsAreTrials

(* No call let in and no answer, early, late or cancelled, breaks the      *)
(* count of failures or of trials.                                         *)
LEMMA BreakerStep == ASSUME BreakerInv, [Next]_vars PROVE BreakerInv'
<1> USE LimitsAssumption
<1>1. IsFiniteSet(Trials) /\ Cardinality(Trials) \in Nat
    BY TrialsFinite DEF BreakerInv
<1>2. ASSUME NEW c \in Callers, PassClosed(c) PROVE BreakerInv'
    <2>1. Trials' = Trials
        BY <1>2 DEF PassClosed, Trials, BreakerInv, TypeOK
    <2>2. QED
        BY <1>2, <2>1 DEF PassClosed, BreakerInv, TypeOK, Calls, ClosedWhileFewFailures,
                          SlotsBound, SlotsAreTrials
<1>3. ASSUME NEW c \in Callers, FirstTrial(c) PROVE BreakerInv'
    <2>1. Trials' = {c}
        BY <1>3 DEF FirstTrial, Trials, BreakerInv, TypeOK
    <2>2. Cardinality(Trials') = 1
        BY <2>1, FS_Singleton
    <2>3. call' \in [Callers -> Calls]
        BY <1>3 DEF FirstTrial, BreakerInv, TypeOK, Calls
    <2>4. QED
        BY <1>3, <2>2, <2>3 DEF FirstTrial, FirstSlots, TimedOut, BreakerInv, TypeOK, States,
                                ClosedWhileFewFailures, SlotsBound, SlotsAreTrials
<1>4. ASSUME NEW c \in Callers, FurtherTrial(c) PROVE BreakerInv'
    <2>1. Trials' = Trials \cup {c} /\ c \notin Trials
        BY <1>4 DEF FurtherTrial, Trials, BreakerInv, TypeOK
    <2>2. Cardinality(Trials') = Cardinality(Trials) + 1
        BY <1>1, <2>1, FS_AddElement
    <2>3. QED
        BY <1>1, <1>4, <2>2 DEF FurtherTrial, SlotFree, BreakerInv, TypeOK, Calls,
                          ClosedWhileFewFailures, SlotsBound, SlotsAreTrials
<1>5. ASSUME NEW c \in Callers, Succeed(c) PROVE BreakerInv'
    BY <1>5, EndEffect DEF Succeed, CloseCircuit, BreakerInv, TypeOK, States,
                           ClosedWhileFewFailures, SlotsBound, SlotsAreTrials
<1>6. ASSUME NEW c \in Callers, Fail(c) PROVE BreakerInv'
    <2>1. /\ failures' \in 0..Threshold
          /\ state' \in States /\ elapsed' \in 0..Recovery
          /\ state' # "half_open"
          /\ state' = "closed" <=> failures' < Threshold
        BY <1>6 DEF Fail, CountFailure, UpTo, BreakerInv, TypeOK, States, ClosedWhileFewFailures
    <2>2. UNCHANGED <<halfOpenCalls, lost>>
        BY <1>6 DEF Fail
    <2>3. QED
        BY <1>6, <2>1, <2>2, EndEffect DEF Fail, BreakerInv, TypeOK,
                           ClosedWhileFewFailures, SlotsBound, SlotsAreTrials
<1>7. ASSUME NEW c \in Callers, Cancel(c) PROVE BreakerInv'
    BY <1>7, EndEffect DEF Cancel, BreakerInv, TypeOK, ClosedWhileFewFailures, SlotsBound, SlotsAreTrials
<1>8. CASE Tick
    BY <1>8 DEF Tick, BreakerInv, TypeOK, ClosedWhileFewFailures, SlotsBound, SlotsAreTrials, Trials
<1>9. CASE UNCHANGED vars
    BY <1>9 DEF vars, BreakerInv, TypeOK, ClosedWhileFewFailures, SlotsBound, SlotsAreTrials, Trials
<1>10. QED
    BY <1>2, <1>3, <1>4, <1>5, <1>6, <1>7, <1>8, <1>9 DEF Next, Ask, Answer, Reject

(* The inductive invariant of the breaker.                                 *)
LEMMA BreakerInvariant == Spec => []BreakerInv
    BY BreakerInit, BreakerStep, PTL DEF Spec

(* The variables keep their types: above all, never more than the limit of *)
(* trials is let in during one half-open period.                           *)
THEOREM BreakerTyping == Spec => []TypeOK
    BY BreakerInvariant, PTL DEF BreakerInv

(* The state and the count of failures never disagree, in whatever order   *)
(* the calls answer.                                                       *)
THEOREM StateFollowsCount == Spec => []ClosedWhileFewFailures
    BY BreakerInvariant, PTL DEF BreakerInv

(* While the circuit is half-open, its slots are those of its trials and   *)
(* of the trials that were cancelled: exactly the slots that never return. *)
THEOREM SlotsAccounted == Spec => []SlotsAreTrials
    BY BreakerInvariant, PTL DEF BreakerInv
=============================================================================
