----------------------------- MODULE RateLimiter -----------------------------
(***************************************************************************)
(* network/rate_limiter.py: the token bucket of one host.  acquire() holds *)
(* its lock without suspending, so one turn of its loop is one step; a     *)
(* caller that finds no token sleeps outside the lock and looks again,     *)
(* next to callers that have just arrived.                                 *)
(*                                                                         *)
(* Everything is measured in ticks: a token is the time it takes to accrue *)
(* (1 / _rate), so that one tick of the clock adds one unit to the bucket. *)
(***************************************************************************)
EXTENDS Naturals

CONSTANTS
    Callers,            \* the tasks that call acquire()
    TokenTime,          \* the time in which one token accrues
    Capacity,           \* _capacity, a burst of at least one token
    MaxWindow           \* bound on the windows of time looked at

ASSUME BucketAssumption ==
    /\ TokenTime \in Nat \ {0}
    /\ Capacity \in Nat /\ Capacity >= TokenTime
    /\ MaxWindow \in Nat \ {0}

VARIABLES
    tokens,             \* _tokens, as of the last turn
    elapsed,            \* now - _updated_at, no further than Capacity
    sleeping,           \* the callers that sleep
    wait,               \* how much of its sleep each of them has left
    since,              \* history: the length of the window looked at
    spent               \* history: the tokens handed out in it

vars == <<tokens, elapsed, sleeping, wait, since, spent>>

TypeOK ==
    /\ tokens \in 0..Capacity
    /\ elapsed \in 0..Capacity
    /\ sleeping \subseteq Callers
    /\ wait \in [Callers -> 0..TokenTime]
    /\ since \in 0..MaxWindow
    /\ spent \in Nat

Init ==
    /\ tokens = Capacity
    /\ elapsed = 0
    /\ sleeping = {}
    /\ wait = [c \in Callers |-> 0]
    /\ since = 0
    /\ spent = 0

UpTo(n, i) == IF i < n THEN i ELSE n
-----------------------------------------------------------------------------
(* What the code would be with one plausible mistake in it: no action uses *)
(* these; each stands in for a definition below to show that a property    *)
(* notices.                                                                *)

\* A caller without a token sleeps for a whole one.
WholeToken == TokenTime

\* The last step of the clock is lost when nothing can be handed out.
ForgetRefill(c) ==
    /\ tokens + elapsed < TokenTime
    /\ tokens' = tokens /\ elapsed' = 0
    /\ sleeping' = sleeping \cup {c}
    /\ wait' = [wait EXCEPT ![c] = TokenTime - (tokens + elapsed)]
    /\ UNCHANGED <<since, spent>>

\* A caller that has slept takes its token without looking again.
WakeServed(c) ==
    /\ c \in sleeping /\ wait[c] = 0
    /\ tokens' = (IF tokens + elapsed < TokenTime THEN 0
                  ELSE UpTo(Capacity, tokens + elapsed) - TokenTime)
    /\ elapsed' = 0
    /\ sleeping' = sleeping \ {c}
    /\ spent' = spent + TokenTime
    /\ UNCHANGED <<wait, since>>
-----------------------------------------------------------------------------
(* One turn of the loop in acquire()                                       *)

Refilled == UpTo(Capacity, tokens + elapsed)
Deficit  == TokenTime - Refilled

Take(c) ==
    /\ Refilled >= TokenTime
    /\ tokens' = Refilled - TokenTime /\ elapsed' = 0
    /\ sleeping' = sleeping \ {c}
    /\ spent' = spent + TokenTime
    /\ UNCHANGED <<wait, since>>

Sleep(c) ==
    /\ Refilled < TokenTime
    /\ tokens' = Refilled /\ elapsed' = 0
    /\ sleeping' = sleeping \cup {c}
    /\ wait' = [wait EXCEPT ![c] = Deficit]
    /\ UNCHANGED <<since, spent>>

Ask(c) == c \notin sleeping /\ (Take(c) \/ Sleep(c))

\* The timer may fire late, never early.
Wake(c) == c \in sleeping /\ wait[c] = 0 /\ (Take(c) \/ Sleep(c))

\* A caller that is cancelled in its sleep takes nothing with it.
Cancel(c) ==
    /\ c \in sleeping
    /\ sleeping' = sleeping \ {c}
    /\ UNCHANGED <<tokens, elapsed, wait, since, spent>>

-----------------------------------------------------------------------------
\* A new window of time is looked at from now on.
OpenWindow ==
    /\ since' = 0 /\ spent' = 0
    /\ UNCHANGED <<tokens, elapsed, sleeping, wait>>

Tick ==
    /\ elapsed' = UpTo(Capacity, elapsed + 1)
    /\ wait' = [c \in Callers |-> IF wait[c] > 0 THEN wait[c] - 1 ELSE 0]
    /\ IF since < MaxWindow THEN since' = since + 1 /\ spent' = spent
                            ELSE since' = 0 /\ spent' = 0
    /\ UNCHANGED <<tokens, sleeping>>

Arrive == \E c \in Callers : Ask(c)

Next ==
    \/ Arrive
    \/ \E c \in Callers : Wake(c) \/ Cancel(c)
    \/ OpenWindow
    \/ Tick

Spec == Init /\ [][Next]_vars

\* Time passes, and the event loop wakes every sleeper whose time has come.
FairSpec == Spec /\ WF_vars(Tick) /\ \A c \in Callers : WF_vars(Wake(c))
-----------------------------------------------------------------------------
(* In every window of time, whenever it begins, no more is handed out than *)
(* one full bucket and what accrues in it, although callers sleep, wake    *)
(* late and overtake one another outside the lock.                         *)
WindowBound == spent <= Capacity + since

(* A caller sleeps no longer than it has to: as long as its timer runs,    *)
(* there is no token it could have, whoever else comes and goes.           *)
NoTokenLeftWaiting == \A c \in sleeping : wait[c] > 0 => Refilled < TokenTime

(* Once no new callers arrive, every sleeper is served.  (While others     *)
(* arrive it may be overtaken again and again: the bucket keeps no order.) *)
ServedInTheEnd ==
    <>[][~Arrive]_vars => \A c \in Callers : (c \in sleeping) ~> (c \notin sleeping)
=============================================================================
