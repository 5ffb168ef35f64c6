------------------------- MODULE RateLimiter_proofs -------------------------
(***************************************************************************)
(* Proofs about the token bucket, for any number of callers, any rate and  *)
(* burst, and windows of any length.                                       *)
(***************************************************************************)
EXTENDS RateLimiter, TLAPS

(* What is in the bucket, and what was handed out of it, came into it: at  *)
(* most a full bucket when the window began, and one unit per tick since.  *)
Balance == spent + Refilled <= Capacity + since

(* A running timer and the bucket together never make more than a token.   *)
TimersExact == \A c \in sleeping : wait[c] > 0 => Refilled + wait[c] <= TokenTime

BucketInv == TypeOK /\ Balance /\ TimersExact

-----------------------------------------------------------------------------
(* The bucket never holds more than its capacity.                          *)
LEMMA RefillBound ==
    ASSUME TypeOK
    PROVE  Refilled \in 0..Capacity
    BY BucketAssumption DEF TypeOK, Refilled, UpTo

(* One turn of the loop keeps the balance: a token taken is a token spent. *)
LEMMA TakeKeeps ==
    ASSUME BucketInv, NEW c \in Callers, Take(c)
    PROVE  BucketInv'
<1>1. /\ Refilled \in 0..Capacity /\ Refilled >= TokenTime
      /\ tokens' = Refilled - TokenTime /\ elapsed' = 0
    BY RefillBound DEF BucketInv, Take
<1>2. Refilled' = Refilled - TokenTime
    BY <1>1, BucketAssumption DEF Refilled, UpTo
<1>3. QED
    BY <1>1, <1>2, BucketAssumption DEF BucketInv, TypeOK, Balance, TimersExact, Take

(* A caller that goes to sleep starts a timer for exactly what is missing. *)
LEMMA SleepKeeps ==
    ASSUME BucketInv, NEW c \in Callers, Sleep(c)
    PROVE  BucketInv'
<1>1. /\ Refilled \in 0..Capacity /\ Refilled < TokenTime
      /\ tokens' = Refilled /\ elapsed' = 0
    BY RefillBound DEF BucketInv, Sleep
<1>2. Refilled' = Refilled
    BY <1>1, BucketAssumption DEF Refilled, UpTo
<1>3. wait'[c] = TokenTime - Refilled /\ \A d \in Callers \ {c} : wait'[d] = wait[d]
    BY DEF BucketInv, TypeOK, Sleep, Deficit
<1>4. TypeOK'
    BY <1>1, <1>2, BucketAssumption DEF BucketInv, TypeOK, Sleep, Deficit
<1>5. TimersExact'
    BY <1>1, <1>2, <1>3, BucketAssumption DEF BucketInv, TypeOK, TimersExact, Sleep
<1>6. QED
    BY <1>1, <1>2, <1>4, <1>5 DEF BucketInv, Balance, Sleep

(* A tick adds at most one unit to the bucket and takes one off a timer.   *)
LEMMA TickKeeps ==
    ASSUME BucketInv, Tick
    PROVE  BucketInv'
<1>1. /\ Refilled \in 0..Capacity /\ elapsed' \in 0..Capacity
      /\ Refilled' <= Refilled + 1 /\ Refilled' \in 0..Capacity
    BY BucketAssumption, RefillBound DEF BucketInv, TypeOK, Tick, Refilled, UpTo
<1>2. TypeOK'
    BY <1>1, BucketAssumption DEF BucketInv, TypeOK, Tick
<1>3. Balance'
    BY <1>1, BucketAssumption DEF BucketInv, TypeOK, Tick, Balance
<1>4. \A c \in Callers : wait'[c] > 0 => wait'[c] = wait[c] - 1 /\ wait[c] > 0
    BY DEF BucketInv, TypeOK, Tick
<1>5. ASSUME NEW c \in sleeping', wait'[c] > 0
      PROVE  Refilled' + wait'[c] <= TokenTime
    <2>1. c \in sleeping /\ c \in Callers
        BY <1>5 DEF BucketInv, TypeOK, Tick
    <2>2. /\ wait[c] \in 0..TokenTime /\ wait[c] > 0 /\ wait'[c] = wait[c] - 1
          /\ Refilled + wait[c] <= TokenTime
        BY <1>4, <1>5, <2>1 DEF BucketInv, TypeOK, TimersExact
    <2>3. QED
        BY <1>1, <2>2, BucketAssumption
<1>6. QED
    BY <1>2, <1>3, <1>5 DEF BucketInv, TimersExact

(* The bucket is full, and nobody sleeps, when the limiter is created.     *)
LEMMA BucketInit == Init => BucketInv
    BY BucketAssumption DEF Init, BucketInv, TypeOK, Balance, TimersExact, Refilled, UpTo

(* Every step keeps the balance of the bucket and of the timers.           *)
LEMMA BucketStep == ASSUME BucketInv, [Next]_vars PROVE BucketInv'
<1>1. CASE Arrive
    BY <1>1, TakeKeeps, SleepKeeps DEF Arrive, Ask
<1>2. ASSUME NEW c \in Callers, Wake(c) PROVE BucketInv'
    BY <1>2, TakeKeeps, SleepKeeps DEF Wake
<1>3. ASSUME NEW c \in Callers, Cancel(c) PROVE BucketInv'
    BY <1>3 DEF Cancel, BucketInv, TypeOK, Balance, TimersExact, Refilled
<1>4. CASE OpenWindow
    <2>1. Refilled' = Refilled
        BY <1>4 DEF OpenWindow, Refilled
    <2>2. QED
        BY <1>4, <2>1, RefillBound, BucketAssumption
        DEF OpenWindow, BucketInv, TypeOK, Balance, TimersExact
<1>5. CASE Tick
    BY <1>5, TickKeeps
<1>6. CASE UNCHANGED vars
    BY <1>6 DEF vars, BucketInv, TypeOK, Balance, TimersExact, Refilled
<1>7. QED
    BY <1>1, <1>2, <1>3, <1>4, <1>5, <1>6 DEF Next

(* The inductive invariant of the bucket.                                  *)
LEMMA BucketInvariant == Spec => []BucketInv
    BY BucketInit, BucketStep, PTL DEF Spec

(* The bucket never holds more than a burst, nobody waits longer than for  *)
(* one token.                                                              *)
THEOREM BucketTyping == Spec => []TypeOK
    BY BucketInvariant, PTL DEF BucketInv

(* No window of time lets through more than a burst and what accrues in    *)
(* it, however callers interleave.                                         *)
THEOREM RateKept == Spec => []WindowBound
<1>1. BucketInv => WindowBound
    BY RefillBound, BucketAssumption DEF BucketInv, TypeOK, Balance, WindowBound
<1>2. QED
    BY <1>1, BucketInvariant, PTL

(* Nobody's timer runs while there is a token to be had.                   *)
THEOREM TimersNotTooLong == Spec => []NoTokenLeftWaiting
<1>1. BucketInv => NoTokenLeftWaiting
    BY RefillBound, BucketAssumption DEF BucketInv, TypeOK, TimersExact, NoTokenLeftWaiting
<1>2. QED
    BY <1>1, BucketInvariant, PTL
=============================================================================
