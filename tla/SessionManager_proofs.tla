------------------------ MODULE SessionManager_proofs ------------------------
(***************************************************************************)
(* Theorems about SessionRequest and SessionManager, for any callers, any  *)
(* number of requests and attempts, and any breaker.                       *)
(***************************************************************************)
EXTENDS SessionManager, CircuitBreaker_proofs

(* How many attempts a request has made when it is not on the network: the *)
(* next one is still allowed.                                              *)
AttemptsLeft ==
    \A c \in Callers :
        /\ phase[c] \in {"idle", "limited"} => attempt[c] = 0
        /\ phase[c] = "backoff" => attempt[c] < MaxAttempts

SessionInv ==
    /\ SessionTypeOK /\ BreakerInv
    /\ AttemptsLeft /\ OnlySentHoldSlots /\ CountersAgree

-----------------------------------------------------------------------------
(* The requests in flight when one of them moves on.                       *)
LEMMA InFlightFinite == IsFiniteSet(InFlight) /\ Cardinality(InFlight) \in Nat
    BY CallersAssumption, FS_Subset, FS_CardinalityType DEF InFlight

LEMMA MoveEffect ==
    ASSUME SessionTypeOK, NEW c \in Callers, NEW to \in Phases, NEW n \in 0..MaxAttempts,
           Move(c, to, n)
    PROVE  /\ phase' \in [Callers -> Phases] /\ attempt' \in [Callers -> 0..MaxAttempts]
           /\ phase'[c] = to /\ attempt'[c] = n
           /\ \A d \in Callers \ {c} : phase'[d] = phase[d] /\ attempt'[d] = attempt[d]
           /\ phase[c] = "idle" /\ to # "idle" =>
                Cardinality(InFlight') = Cardinality(InFlight) + 1
           /\ phase[c] # "idle" /\ to = "idle" =>
                Cardinality(InFlight') = Cardinality(InFlight) - 1
           /\ (phase[c] = "idle" <=> to = "idle") => InFlight' = InFlight
<1>1. /\ phase' \in [Callers -> Phases] /\ attempt' \in [Callers -> 0..MaxAttempts]
      /\ phase'[c] = to /\ attempt'[c] = n
      /\ \A d \in Callers \ {c} : phase'[d] = phase[d] /\ attempt'[d] = attempt[d]
    BY DEF Move, SessionTypeOK
<1>2. c \in InFlight <=> phase[c] # "idle"
    BY DEF InFlight
<1>3. phase[c] = "idle" /\ to # "idle" => InFlight' = InFlight \cup {c}
    BY <1>1 DEF InFlight
<1>4. phase[c] # "idle" /\ to = "idle" => InFlight' = InFlight \ {c}
    BY <1>1 DEF InFlight
<1>5. (phase[c] = "idle" <=> to = "idle") => InFlight' = InFlight
    BY <1>1 DEF InFlight
<1>6. QED
    BY <1>1, <1>2, <1>3, <1>4, <1>5, InFlightFinite, FS_AddElement, FS_RemoveElement

(* A request that ends is counted, and is one fewer in flight.             *)
LEMMA EndingCounts ==
    ASSUME SessionInv, NEW c \in Callers, phase[c] # "idle",
           NEW outcome \in {"successful", "failed"},
           EndRequest(c, outcome), UNCHANGED history
    PROVE  /\ phase' \in [Callers -> Phases] /\ attempt' \in [Callers -> 0..MaxAttempts]
           /\ metrics' \in [Counters -> Nat]
           /\ AttemptsLeft' /\ CountersAgree'
<1>1. Move(c, "idle", 0) /\ "idle" \in Phases /\ 0 \in 0..MaxAttempts
    BY PolicyAssumption DEF EndRequest, Phases
<1> DEFINE fewer == Cardinality(InFlight) - 1
<1>2. /\ phase' \in [Callers -> Phases] /\ attempt' \in [Callers -> 0..MaxAttempts]
      /\ phase'[c] = "idle" /\ attempt'[c] = 0
      /\ \A d \in Callers \ {c} : phase'[d] = phase[d] /\ attempt'[d] = attempt[d]
      /\ Cardinality(InFlight') = fewer
    BY <1>1, MoveEffect DEF SessionInv
<1>3. Cardinality(InFlight) \in Nat /\ Cardinality(InFlight') \in Nat
    BY InFlightFinite, CallersAssumption, FS_Subset, FS_CardinalityType DEF InFlight
<1>4. metrics \in [Counters -> Nat] /\ abandoned \in Nat /\ begun \in Nat
    BY DEF SessionInv, SessionTypeOK
<1>5. /\ metrics["open"] = Cardinality(InFlight) + abandoned
      /\ metrics["total"] = metrics["successful"] + metrics["failed"]
      /\ begun = metrics["total"] + metrics["open"]
    BY DEF SessionInv, CountersAgree
<1>6. metrics["open"] > 0
    BY <1>2, <1>3, <1>4, <1>5
<1>7. metrics' = [metrics EXCEPT !["open"] = metrics["open"] - 1,
                                 !["total"] = metrics["total"] + 1,
                                 ![outcome] = metrics[outcome] + 1]
    BY <1>4, <1>6 DEF EndRequest, RecordEnd, Counters
<1>8. metrics' \in [Counters -> Nat]
    BY <1>4, <1>6, <1>7 DEF Counters
<1>9. /\ metrics'["open"] = metrics["open"] - 1
      /\ metrics'["total"] = metrics["total"] + 1
      /\ metrics'["successful"] + metrics'["failed"] = metrics["successful"] + metrics["failed"] + 1
    BY <1>4, <1>7 DEF Counters
<1>10. CountersAgree'
    BY <1>2, <1>3, <1>4, <1>5, <1>9 DEF CountersAgree, history, Counters
<1>11. AttemptsLeft'
    BY <1>2 DEF AttemptsLeft, SessionInv
<1>12. QED
    BY <1>2, <1>8, <1>10, <1>11

-----------------------------------------------------------------------------
LEMMA SessionStarts == SessionInit => SessionInv
<1> SUFFICES ASSUME SessionInit PROVE SessionInv
    OBVIOUS
<1>1. BreakerInv
    BY BreakerInit DEF SessionInit
<1>2. InFlight = {} /\ Cardinality(InFlight) = 0
    BY FS_EmptySet DEF SessionInit, InFlight
<1>3. SessionTypeOK /\ AttemptsLeft
    BY <1>1, PolicyAssumption DEF SessionInit, SessionTypeOK, AttemptsLeft, BreakerInv, Phases, Counters
<1>4. OnlySentHoldSlots
    BY <1>1 DEF SessionInit, Init, OnlySentHoldSlots, BreakerInv
<1>5. CountersAgree
    BY <1>2 DEF SessionInit, CountersAgree, Counters
<1>6. QED
    BY <1>1, <1>3, <1>4, <1>5 DEF SessionInv

(* Every step of a request is a step of the breaker or none.               *)
LEMMA BreakerSteps == ASSUME [SessionNext]_sessionVars PROVE [Next]_vars
<1>1. ASSUME NEW c \in Callers, Begin(c) PROVE UNCHANGED vars
    BY <1>1 DEF Begin
<1>2. ASSUME NEW c \in Callers, Try(c) PROVE Ask(c)
    BY <1>2 DEF Try, Send, Refused, Ask
<1>3. ASSUME NEW c \in Callers, Answered(c) PROVE Answer(c)
    BY <1>3 DEF Answered, SleepAndRetry, Answer
<1>4. ASSUME NEW c \in Callers, Abandon(c) PROVE Answer(c) \/ UNCHANGED vars
    BY <1>4 DEF Abandon, Answer
<1>5. TimePasses => Tick
    BY DEF TimePasses
<1>6. UNCHANGED sessionVars => UNCHANGED vars
    BY DEF sessionVars
<1>7. QED
    BY <1>1, <1>2, <1>3, <1>4, <1>5, <1>6 DEF SessionNext, Next

(* How each request's call and phase change together.                      *)
LEMMA SessionStep == ASSUME SessionInv, [SessionNext]_sessionVars PROVE SessionInv'
<1>1. BreakerInv'
    BY BreakerSteps, BreakerStep DEF SessionInv
<1>2. TypeOK' /\ SlotsAreTrials'
    BY <1>1 DEF BreakerInv
<1>3. /\ TypeOK /\ SessionTypeOK /\ phase \in [Callers -> Phases]
      /\ attempt \in [Callers -> 0..MaxAttempts]
      /\ metrics \in [Counters -> Nat] /\ abandoned \in Nat /\ begun \in Nat
      /\ MaxAttempts \in Nat \ {0} /\ call \in [Callers -> Calls]
    BY PolicyAssumption DEF SessionInv, SessionTypeOK, TypeOK
<1>4. \A c \in Callers : call[c] # "idle" <=> phase[c] = "sent"
    BY DEF SessionInv, OnlySentHoldSlots
<1>5. Cardinality(InFlight) \in Nat /\ Cardinality(InFlight') \in Nat
    BY InFlightFinite, CallersAssumption, FS_Subset, FS_CardinalityType DEF InFlight
<1>6. /\ metrics["open"] = Cardinality(InFlight) + abandoned
      /\ metrics["total"] = metrics["successful"] + metrics["failed"]
      /\ begun = metrics["total"] + metrics["open"]
    BY DEF SessionInv, CountersAgree
<1> DEFINE Rest == /\ phase' \in [Callers -> Phases] /\ attempt' \in [Callers -> 0..MaxAttempts]
                   /\ metrics' \in [Counters -> Nat] /\ abandoned' \in Nat /\ begun' \in Nat
                   /\ AttemptsLeft' /\ CountersAgree'
                   /\ \A c \in Callers : call'[c] # "idle" <=> phase'[c] = "sent"
<1>7. ASSUME NEW c \in Callers, Begin(c) PROVE Rest
    <2>1. Move(c, "limited", 0) /\ phase[c] = "idle" /\ "limited" \in Phases /\ 0 \in 0..MaxAttempts
        BY <1>3, <1>7 DEF Begin, Phases
    <2>2. /\ phase' \in [Callers -> Phases] /\ attempt' \in [Callers -> 0..MaxAttempts]
          /\ phase'[c] = "limited" /\ attempt'[c] = 0
          /\ \A d \in Callers \ {c} : phase'[d] = phase[d] /\ attempt'[d] = attempt[d]
          /\ Cardinality(InFlight') = Cardinality(InFlight) + 1
        BY <1>3, <2>1, MoveEffect
    <2>3. metrics' \in [Counters -> Nat] /\ CountersAgree' /\ begun' \in Nat /\ abandoned' \in Nat
        BY <1>3, <1>5, <1>6, <1>7, <2>2 DEF Begin, RecordStart, CountersAgree, Counters
    <2>4. AttemptsLeft'
        BY <2>2 DEF AttemptsLeft, SessionInv
    <2>5. call' = call
        BY <1>7 DEF Begin, vars
    <2>6. QED
        BY <1>4, <2>1, <2>2, <2>3, <2>4, <2>5
<1>8. ASSUME NEW c \in Callers, Try(c) PROVE Rest
    <2>1. CASE Send(c)
        <3>1. attempt[c] + 1 \in 0..MaxAttempts
            BY <1>3, <1>8 DEF Try, SessionInv, AttemptsLeft
        <3>2. /\ phase' \in [Callers -> Phases] /\ attempt' \in [Callers -> 0..MaxAttempts]
              /\ phase'[c] = "sent"
              /\ \A d \in Callers \ {c} : phase'[d] = phase[d] /\ attempt'[d] = attempt[d]
              /\ InFlight' = InFlight
            BY <1>3, <1>8, <2>1, <3>1, MoveEffect DEF Send, Try, Phases
        <3>3. call'[c] # "idle" /\ \A d \in Callers \ {c} : call'[d] # "idle" <=> call[d] # "idle"
            BY <1>3, <2>1 DEF Send, PassClosed, FirstTrial, FurtherTrial
        <3>4. AttemptsLeft'
            BY <3>2 DEF AttemptsLeft, SessionInv
        <3>5. UNCHANGED <<metrics, history>>
            BY <1>8, <2>1 DEF Try, Send
        <3>6. CountersAgree'
            BY <1>6, <3>2, <3>5 DEF CountersAgree, history
        <3>7. QED
            BY <1>3, <1>4, <3>2, <3>3, <3>4, <3>5, <3>6 DEF history
    <2>2. CASE Refused(c)
        <3>1. EndRequest(c, "failed") /\ UNCHANGED history /\ phase[c] # "idle" /\ call' = call
            BY <1>8, <2>2 DEF Try, Refused, Reject, vars
        <3>2. /\ phase' \in [Callers -> Phases] /\ attempt' \in [Callers -> 0..MaxAttempts]
              /\ metrics' \in [Counters -> Nat] /\ AttemptsLeft' /\ CountersAgree'
            BY <3>1, EndingCounts
        <3>3. \A d \in Callers : phase'[d] = IF d = c THEN "idle" ELSE phase[d]
            BY <1>3, <3>1 DEF EndRequest, Move
        <3>4. call[c] = "idle"
            BY <2>2 DEF Refused, Reject
        <3>5. QED
            BY <1>3, <1>4, <3>1, <3>2, <3>3, <3>4 DEF history
    <2>3. QED
        BY <1>8, <2>1, <2>2 DEF Try
<1>9. ASSUME NEW c \in Callers, Answered(c) PROVE Rest
    <2>1. phase[c] = "sent" /\ UNCHANGED history
        BY <1>9 DEF Answered
    <2>2. call' = [call EXCEPT ![c] = "idle"]
        BY <1>9 DEF Answered, SleepAndRetry, Succeed, Fail, End
    <2>3. CASE MayRetry(c) /\ SleepAndRetry(c)
        <3>1. Move(c, "backoff", attempt[c]) /\ "backoff" \in Phases /\ attempt[c] \in 0..MaxAttempts
            BY <1>3, <2>3 DEF SleepAndRetry, Phases
        <3>2. /\ phase' \in [Callers -> Phases] /\ attempt' \in [Callers -> 0..MaxAttempts]
              /\ phase'[c] = "backoff" /\ attempt'[c] = attempt[c]
              /\ \A d \in Callers \ {c} : phase'[d] = phase[d] /\ attempt'[d] = attempt[d]
              /\ InFlight' = InFlight
            BY <1>3, <2>1, <3>1, MoveEffect
        <3>3. AttemptsLeft'
            BY <2>3, <3>2 DEF AttemptsLeft, SessionInv, MayRetry
        <3>4. metrics' \in [Counters -> Nat] /\ CountersAgree'
            BY <1>3, <1>6, <2>1, <2>3, <3>2 DEF SleepAndRetry, CountersAgree, history, Counters
        <3>5. QED
            BY <1>3, <1>4, <2>1, <2>2, <3>2, <3>3, <3>4 DEF history
    <2>4. CASE EndRequest(c, "successful") \/ EndRequest(c, "failed")
        <3>1. /\ phase' \in [Callers -> Phases] /\ attempt' \in [Callers -> 0..MaxAttempts]
              /\ metrics' \in [Counters -> Nat] /\ AttemptsLeft' /\ CountersAgree'
            BY <2>1, <2>4, EndingCounts
        <3>2. \A d \in Callers : phase'[d] = IF d = c THEN "idle" ELSE phase[d]
            BY <1>3, <2>4 DEF EndRequest, Move
        <3>3. QED
            BY <1>3, <1>4, <2>1, <2>2, <3>1, <3>2 DEF history
    <2>5. QED
        BY <1>9, <2>3, <2>4 DEF Answered
<1>10. ASSUME NEW c \in Callers, Abandon(c) PROVE Rest
    <2>1. Move(c, "idle", 0) /\ phase[c] # "idle" /\ "idle" \in Phases /\ 0 \in 0..MaxAttempts
        BY <1>3, <1>10 DEF Abandon, Phases
    <2>2. /\ phase' \in [Callers -> Phases] /\ attempt' \in [Callers -> 0..MaxAttempts]
          /\ phase'[c] = "idle" /\ attempt'[c] = 0
          /\ \A d \in Callers \ {c} : phase'[d] = phase[d] /\ attempt'[d] = attempt[d]
          /\ Cardinality(InFlight') = Cardinality(InFlight) - 1
        BY <1>3, <2>1, MoveEffect
    <2>3. call' = [call EXCEPT ![c] = "idle"]
        BY <1>3, <1>4, <1>10 DEF Abandon, Cancel, End, vars
    <2>4. AttemptsLeft'
        BY <2>2 DEF AttemptsLeft, SessionInv
    <2>5. metrics' = metrics /\ begun' = begun /\ abandoned' = abandoned + 1
        BY <1>10 DEF Abandon
    <2>6. CountersAgree'
        BY <1>3, <1>5, <1>6, <2>2, <2>5 DEF CountersAgree
    <2>7. QED
        BY <1>3, <1>4, <2>2, <2>3, <2>4, <2>5, <2>6
<1>11. ASSUME TimePasses \/ UNCHANGED sessionVars PROVE Rest
    <2>1. /\ phase' = phase /\ attempt' = attempt /\ metrics' = metrics
          /\ abandoned' = abandoned /\ begun' = begun /\ call' = call
        BY <1>11 DEF TimePasses, Tick, sessionVars, requestVars, history, vars
    <2>2. InFlight' = InFlight
        BY <2>1 DEF InFlight
    <2>3. AttemptsLeft' /\ CountersAgree'
        BY <1>6, <2>1, <2>2 DEF AttemptsLeft, SessionInv, CountersAgree
    <2>4. \A c \in Callers : call'[c] # "idle" <=> phase'[c] = "sent"
        BY <1>4, <2>1
    <2>5. QED
        BY <1>3, <2>1, <2>3, <2>4
<1> HIDE DEF Rest
<1>12. Rest
    <2>1. CASE SessionNext
        BY <1>7, <1>8, <1>9, <1>10, <1>11, <2>1 DEF SessionNext
    <2>2. CASE UNCHANGED sessionVars
        BY <1>11, <2>2
    <2>3. QED
        BY <2>1, <2>2
<1>13. QED
    BY <1>1, <1>2, <1>12 DEF Rest, SessionInv, SessionTypeOK, OnlySentHoldSlots

-----------------------------------------------------------------------------
(* How far the shutdown has come, and what that says of client, singleton  *)
(* and successors.                                                         *)
LifeInv ==
    /\ server = "up" => client = "open" /\ current
    /\ server = "closing" => client = "closing" /\ current
    /\ server = "down" => client = "closed" /\ ~current /\ ~started
    /\ successor => ~current

\* Only a client that takes no more requests can be late for.
LateOnlyIfClosed == late # {} => IsClosed

ManagerInv ==
    /\ SessionInv /\ ManagerTypeOK
    /\ LifeInv /\ LateOnlyIfClosed /\ LateRequestsFail

LEMMA ManagerStarts == ManagerInit => ManagerInv
<1> SUFFICES ASSUME ManagerInit PROVE ManagerInv
    OBVIOUS
<1>1. SessionInv
    BY SessionStarts DEF ManagerInit
<1>2. ManagerTypeOK
    BY <1>1 DEF ManagerInit, ManagerTypeOK, SessionInv
<1>3. LifeInv /\ LateOnlyIfClosed /\ LateRequestsFail
    BY DEF ManagerInit, LifeInv, LateOnlyIfClosed, LateRequestsFail
<1>4. QED
    BY <1>1, <1>2, <1>3 DEF ManagerInv

(* A closed client's refusal is an answer like another, so that the whole  *)
(* life of the session is, to its requests, a step of SessionRequest or    *)
(* none.                                                                   *)
LEMMA SessionSteps ==
    ASSUME SessionInv, [ManagerNext]_managerVars PROVE [SessionNext]_sessionVars
<1>1. ASSUME NEW c \in Callers, Request(c) PROVE Begin(c)
    BY <1>1 DEF Request
<1>2. ASSUME NEW c \in Callers, Attempt(c) PROVE Try(c)
    BY <1>2 DEF Attempt
<1>3. ASSUME NEW c \in Callers, Respond(c) PROVE Answered(c)
    <2>1. CASE ClientRefuses(c)
        <3>1. call[c] # "idle"
            BY <2>1 DEF ClientRefuses, Fail, End
        <3>2. phase[c] = "sent"
            BY <3>1 DEF SessionInv, OnlySentHoldSlots
        <3>3. QED
            BY <2>1, <3>2 DEF ClientRefuses, Answered
    <2>2. QED
        BY <1>3, <2>1 DEF Respond
<1>4. ASSUME NEW c \in Callers, Leave(c) PROVE Abandon(c)
    BY <1>4 DEF Leave
<1>5. Passes => TimePasses
    BY DEF Passes
<1>6. MakeSuccessor \/ RunStarts \/ ShutdownBegins \/ ShutdownEnds => UNCHANGED sessionVars
    BY DEF MakeSuccessor, RunStarts, ShutdownBegins, ShutdownEnds
<1>7. Ended \/ UNCHANGED managerVars => UNCHANGED sessionVars
    BY DEF Ended, managerVars
<1>8. CASE ManagerNext
    BY <1>1, <1>2, <1>3, <1>4, <1>5, <1>6, <1>7, <1>8 DEF ManagerNext, SessionNext
<1>9. CASE UNCHANGED managerVars
    BY <1>7, <1>9
<1>10. QED
    BY <1>8, <1>9

(* A request's step touches no other request.                              *)
LEMMA OthersStay ==
    ASSUME SessionInv, NEW c \in Callers, Begin(c) \/ Try(c) \/ Answered(c) \/ Abandon(c)
    PROVE  \A d \in Callers \ {c} : phase'[d] = phase[d] /\ attempt'[d] = attempt[d]
<1>1. \E to \in Phases, n \in Nat : Move(c, to, n)
    BY PolicyAssumption DEF Begin, Try, Send, Refused, Answered, SleepAndRetry, EndRequest, Abandon,
           Phases, SessionInv, SessionTypeOK
<1>2. QED
    BY <1>1 DEF Move, SessionInv, SessionTypeOK

LEMMA ManagerStep == ASSUME ManagerInv, [ManagerNext]_managerVars PROVE ManagerInv'
<1>1. SessionInv'
    BY SessionSteps, SessionStep DEF ManagerInv
<1>2. SessionTypeOK' /\ SessionInv /\ ManagerTypeOK /\ SessionTypeOK
    BY <1>1 DEF SessionInv, ManagerInv
<1> DEFINE Rest == /\ server' \in {"up", "closing", "down"}
                   /\ client' \in {"open", "closing", "closed"}
                   /\ started' \in BOOLEAN /\ current' \in BOOLEAN /\ successor' \in BOOLEAN
                   /\ refused' \subseteq Callers /\ late' \subseteq Callers
                   /\ LifeInv' /\ LateOnlyIfClosed' /\ LateRequestsFail'
<1>3. ASSUME UNCHANGED lifeVars
      PROVE  /\ server' \in {"up", "closing", "down"}
             /\ client' \in {"open", "closing", "closed"}
             /\ started' \in BOOLEAN /\ current' \in BOOLEAN /\ successor' \in BOOLEAN
             /\ LifeInv' /\ (IsClosed' <=> IsClosed)
    BY <1>3 DEF lifeVars, LifeInv, IsClosed, ManagerInv, ManagerTypeOK
<1>4. ASSUME NEW c \in Callers, Request(c) PROVE Rest
    <2>1. \A d \in Callers \ {c} : phase'[d] = phase[d] /\ attempt'[d] = attempt[d]
        BY <1>2, <1>4, OthersStay DEF Request
    <2>2. phase'[c] = "limited" /\ attempt'[c] = 0
        BY <1>2, <1>4 DEF Request, Begin, Move, SessionTypeOK
    <2>3. LateRequestsFail'
        BY <1>4, <2>1, <2>2, <1>2 DEF Request, LateRequestsFail, ManagerInv, ManagerTypeOK
    <2>4. LateOnlyIfClosed'
        BY <1>3, <1>4 DEF Request, LateOnlyIfClosed, ManagerInv
    <2>5. QED
        BY <1>2, <1>3, <1>4, <2>3, <2>4 DEF Request, ManagerTypeOK
<1>5. ASSUME NEW c \in Callers, Attempt(c) PROVE Rest
    <2>1. \A d \in Callers \ {c} : phase'[d] = phase[d] /\ attempt'[d] = attempt[d]
        BY <1>2, <1>5, OthersStay DEF Attempt
    <2>2. ASSUME c \in late PROVE LateRequestsFail'
        <3>1. phase[c] = "limited" /\ attempt[c] = 0 /\ IsClosed
            BY <1>5, <2>2 DEF Attempt, Try, ManagerInv, LateRequestsFail, SessionInv,
                   AttemptsLeft, LateOnlyIfClosed
        <3>2. \/ phase'[c] = "sent" /\ attempt'[c] = 1 /\ c \in refused'
              \/ c \notin late'
            BY <1>2, <1>5, <3>1 DEF Attempt, Try, Send, Refused, EndRequest, Move, SessionTypeOK
        <3>3. QED
            BY <1>2, <1>5, <2>1, <3>2 DEF Attempt, LateRequestsFail, ManagerInv, ManagerTypeOK
    <2>3. ASSUME c \notin late PROVE LateRequestsFail'
        BY <1>2, <1>5, <2>1, <2>3 DEF Attempt, LateRequestsFail, ManagerInv, ManagerTypeOK
    <2>4. QED
        BY <1>2, <1>3, <1>5, <2>2, <2>3 DEF Attempt, LateOnlyIfClosed, ManagerInv, ManagerTypeOK
<1>6. ASSUME NEW c \in Callers, Respond(c) PROVE Rest
    <2>1. Answered(c) /\ phase[c] = "sent"
        <3>1. call[c] # "idle" => phase[c] = "sent"
            BY <1>2 DEF SessionInv, OnlySentHoldSlots
        <3>2. ClientRefuses(c) => call[c] # "idle"
            BY DEF ClientRefuses, Fail, End
        <3>3. QED
            BY <1>6, <3>1, <3>2 DEF Respond, ClientRefuses, Answered
    <2>2. \A d \in Callers \ {c} : phase'[d] = phase[d] /\ attempt'[d] = attempt[d]
        BY <1>2, <2>1, OthersStay
    <2>3. c \notin late'
        <3>1. c \notin refused => c \notin late
            BY <2>1 DEF ManagerInv, LateRequestsFail
        <3>2. ClientRefuses(c) => phase'[c] = "idle"
            BY <1>2 DEF ClientRefuses, EndRequest, Move, SessionTypeOK
        <3>3. QED
            BY <1>6, <3>1, <3>2 DEF Respond
    <2>4. LateRequestsFail'
        BY <1>2, <1>6, <2>2, <2>3 DEF Respond, LateRequestsFail, ManagerInv, ManagerTypeOK
    <2>5. QED
        BY <1>2, <1>3, <1>6, <2>4 DEF Respond, LateOnlyIfClosed, ManagerInv, ManagerTypeOK
<1>7. ASSUME NEW c \in Callers, Leave(c) PROVE Rest
    <2>1. \A d \in Callers \ {c} : phase'[d] = phase[d] /\ attempt'[d] = attempt[d]
        BY <1>2, <1>7, OthersStay DEF Leave
    <2>2. LateRequestsFail'
        BY <1>2, <1>7, <2>1 DEF Leave, LateRequestsFail, ManagerInv, ManagerTypeOK
    <2>3. QED
        BY <1>2, <1>3, <1>7, <2>2 DEF Leave, LateOnlyIfClosed, ManagerInv, ManagerTypeOK
<1>8. ASSUME Passes \/ Ended \/ UNCHANGED managerVars PROVE Rest
    <2>1. /\ phase' = phase /\ attempt' = attempt /\ refused' = refused /\ late' = late
          /\ UNCHANGED lifeVars
        BY <1>8 DEF Passes, TimePasses, Ended, managerVars, sessionVars, requestVars, lateVars
    <2>2. LateRequestsFail'
        BY <2>1 DEF LateRequestsFail, ManagerInv
    <2>3. QED
        BY <1>2, <1>3, <2>1, <2>2 DEF LateOnlyIfClosed, ManagerInv, ManagerTypeOK
<1>9. ASSUME MakeSuccessor \/ RunStarts \/ ShutdownBegins \/ ShutdownEnds PROVE Rest
    <2>1. phase' = phase /\ attempt' = attempt /\ refused' = refused /\ late' = late
        BY <1>9 DEF MakeSuccessor, RunStarts, ShutdownBegins, ShutdownEnds, sessionVars,
               requestVars, lateVars
    <2>2. LateRequestsFail'
        BY <2>1 DEF LateRequestsFail, ManagerInv
    <2>3. IsClosed => IsClosed'
        BY <1>9 DEF MakeSuccessor, RunStarts, Start, ShutdownBegins, ShutdownEnds, IsClosed
    <2>4. LateOnlyIfClosed'
        BY <2>1, <2>3 DEF LateOnlyIfClosed, ManagerInv
    <2>5. server' \in {"up", "closing", "down"} /\ client' \in {"open", "closing", "closed"}
        BY <1>2, <1>9 DEF MakeSuccessor, RunStarts, Start, ShutdownBegins, ShutdownEnds, ManagerTypeOK
    <2>6. started' \in BOOLEAN /\ current' \in BOOLEAN /\ successor' \in BOOLEAN
        BY <1>2, <1>9 DEF MakeSuccessor, RunStarts, Start, ShutdownBegins, ShutdownEnds, ManagerTypeOK
    <2>7. LifeInv'
        <3>1. LifeInv
            BY DEF ManagerInv
        <3>2. CASE MakeSuccessor \/ RunStarts
            BY <3>1, <3>2 DEF MakeSuccessor, RunStarts, Start, LifeInv
        <3>3. CASE ShutdownBegins
            BY <3>1, <3>3 DEF ShutdownBegins, IsClosed, LifeInv
        <3>4. CASE ShutdownEnds
            BY <3>1, <3>4 DEF ShutdownEnds, LifeInv
        <3>5. QED
            BY <1>9, <3>2, <3>3, <3>4
    <2>8. QED
        BY <1>2, <2>1, <2>2, <2>4, <2>5, <2>6, <2>7 DEF ManagerTypeOK
<1> HIDE DEF Rest
<1>10. Rest
    <2>1. CASE ManagerNext
        BY <1>4, <1>5, <1>6, <1>7, <1>8, <1>9, <2>1 DEF ManagerNext
    <2>2. QED
        BY <1>8, <2>1
<1>11. QED
    BY <1>1, <1>2, <1>10 DEF Rest, ManagerInv, ManagerTypeOK

LEMMA ManagerAlways == ManagerSpec => []ManagerInv
    BY ManagerStarts, ManagerStep, PTL DEF ManagerSpec

-----------------------------------------------------------------------------
(* Session, requests, counters and breaker keep their types.               *)
THEOREM ManagerTyping == ManagerSpec => []ManagerTypeOK
<1>1. ManagerInv => ManagerTypeOK
    BY DEF ManagerInv
<1>2. QED
    BY <1>1, ManagerAlways, PTL

(* NetworkMetrics: every request is counted once when it begins and once   *)
(* when it ends, except that a cancelled one stays open for good.          *)
THEOREM CountedOnce == ManagerSpec => []CountersAgree
<1>1. ManagerInv => CountersAgree
    BY DEF ManagerInv, SessionInv
<1>2. QED
    BY <1>1, ManagerAlways, PTL

(* retry_strategy.py: a request that sleeps between attempts holds no slot *)
(* of the breaker.                                                         *)
THEOREM SleepersHoldNoSlot == ManagerSpec => []OnlySentHoldSlots
<1>1. ManagerInv => OnlySentHoldSlots
    BY DEF ManagerInv, SessionInv
<1>2. QED
    BY <1>1, ManagerAlways, PTL

(* shutdown(): no session is made before the one that is shut down has     *)
(* closed its client, and that one never comes back.                       *)
THEOREM SessionsDoNotOverlap == ManagerSpec => []OneOpenSession
<1>1. ManagerInv => OneOpenSession
    BY DEF ManagerInv, ManagerTypeOK, LifeInv, OneOpenSession
<1>2. QED
    BY <1>1, ManagerAlways, PTL

(* request() while shutdown() awaits aclose(): such a request fails at its *)
(* first attempt, and is never retried.                                    *)
THEOREM LateRequestsAreRefused == ManagerSpec => []LateRequestsFail
<1>1. ManagerInv => LateRequestsFail
    BY DEF ManagerInv
<1>2. QED
    BY <1>1, ManagerAlways, PTL

(* Whatever retries, cancellations, shutdowns and closed clients do to the *)
(* calls of the breaker, it sees nothing but calls.                        *)
THEOREM BreakerRemains == ManagerSpec => BreakerSpec
<1>1. ManagerInit => Init
    BY DEF ManagerInit, SessionInit
<1>2. ManagerInv /\ [ManagerNext]_managerVars => [Next]_vars
    BY SessionSteps, BreakerSteps DEF ManagerInv
<1>3. QED
    BY <1>1, <1>2, ManagerAlways, PTL DEF ManagerSpec, BreakerSpec, Spec

(* SessionManager implements SessionRequest: the life of the session is    *)
(* one environment of its requests among others.                           *)
THEOREM ManagerServesRequests == ManagerSpec => SessionSpec
<1>1. ManagerInit => SessionInit
    BY DEF ManagerInit
<1>2. ManagerInv /\ [ManagerNext]_managerVars => [SessionNext]_sessionVars
    BY SessionSteps DEF ManagerInv
<1>3. QED
    BY <1>1, <1>2, ManagerAlways, PTL DEF ManagerSpec, SessionSpec
==============================================================================
