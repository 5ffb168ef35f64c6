------------------------- MODULE MapsDiscovery_proofs -------------------------
(***************************************************************************)
(* Theorems about MapsDiscovery, for any feed and limit, any number of     *)
(* scrolls and stalls and any pause: what is harvested, what the scrolling *)
(* reports, and how long it waits before it gives up.                      *)
(***************************************************************************)
EXTENDS MapsDiscovery, FiniteSetTheorems, SequenceTheorems, WellFoundedInduction, TLAPS

-----------------------------------------------------------------------------
(* Induction and recursion over the natural numbers, stated with sets and  *)
(* functions.                                                              *)
LEMMA SetInduction ==
    ASSUME NEW good \in SUBSET Nat, 0 \in good, \A k \in good : k + 1 \in good
    PROVE  Nat \subseteq good
<1> SUFFICES ASSUME NEW n \in Nat, n \notin good PROVE FALSE
  OBVIOUS
<1>1. PICK m \in Nat \ good : \A k \in Nat \ good : ~(<<k, m>> \in OpToRel(<, Nat))
  <2>1. Nat \ good \in SUBSET Nat /\ Nat \ good # {}
    OBVIOUS
  <2>2. QED
    BY <2>1, NatLessThanWellFounded, WFMin
<1>2. \A k \in Nat : k < m => k \in good
  BY <1>1 DEF OpToRel
<1>3. m # 0 /\ m - 1 \in Nat /\ m - 1 < m /\ (m - 1) + 1 = m
  <2>1. m \in Nat /\ m # 0
    BY <1>1
  <2>2. QED
    BY <2>1
<1>4. m - 1 \in good
  BY <1>2, <1>3
<1>5. QED
  BY <1>1, <1>3, <1>4

\* f repeats the step n times, from d0.
Repeats(f, d0, step, n) ==
    f = [i \in 0..n |-> IF i = 0 THEN d0 ELSE step[i][f[i - 1]]]

LEMMA RepetitionExists ==
    ASSUME NEW D, NEW d0 \in D, NEW step \in [Nat -> [D -> D]], NEW n \in Nat
    PROVE  \E f \in [0..n -> D] : Repeats(f, d0, step, n)
<1> DEFINE good == {k \in Nat : \E f \in [0..k -> D] : Repeats(f, d0, step, k)}
<1>1. 0 \in good
  <2>1. PICK f : f = [i \in 0..0 |-> d0]
    OBVIOUS
  <2>2. f \in [0..0 -> D]
    BY <2>1
  <2>3. Repeats(f, d0, step, 0)
    BY <2>1 DEF Repeats
  <2>4. QED
    BY <2>2, <2>3
<1>2. ASSUME NEW k \in Nat, k \in good PROVE k + 1 \in good
  <2>1. PICK f \in [0..k -> D] : Repeats(f, d0, step, k)
    BY <1>2
  <2> HIDE DEF good
  <2>2. k \in Nat /\ k \in 0..k /\ f[k] \in D /\ step[k + 1][f[k]] \in D
    OBVIOUS
  <2>3. PICK g : g = [i \in 0..(k + 1) |-> IF i = k + 1 THEN step[k + 1][f[k]] ELSE f[i]]
    OBVIOUS
  <2>4. \A i \in 0..(k + 1) : i = k + 1 \/ i \in 0..k
    BY <2>2
  <2>5. g \in [0..(k + 1) -> D]
    BY <2>2, <2>3, <2>4
  <2>6. ASSUME NEW i \in 0..(k + 1)
        PROVE  g[i] = IF i = 0 THEN d0 ELSE step[i][g[i - 1]]
    <3>1. CASE i = k + 1
      <4>1. i # 0 /\ i - 1 = k /\ k \in 0..(k + 1) /\ k # k + 1
        BY <2>2, <3>1
      <4>2. g[i] = step[k + 1][f[k]] /\ g[k] = f[k]
        BY <2>3, <3>1, <4>1
      <4>3. QED
        BY <3>1, <4>1, <4>2
    <3>2. CASE i = 0
      BY <2>1, <2>2, <2>3, <3>2 DEF Repeats
    <3>3. CASE i \in 1..k
      <4>1. i - 1 \in 0..(k + 1) /\ i - 1 # k + 1 /\ i # k + 1 /\ i # 0 /\ i \in 0..k
        BY <2>2, <3>3
      <4>2. g[i] = f[i] /\ g[i - 1] = f[i - 1]
        BY <2>3, <4>1
      <4>3. f[i] = step[i][f[i - 1]]
        BY <2>1, <4>1 DEF Repeats
      <4>4. QED
        BY <4>1, <4>2, <4>3
    <3>4. i = k + 1 \/ i = 0 \/ i \in 1..k
      BY <2>2
    <3>5. QED
      BY <3>1, <3>2, <3>3, <3>4
  <2>7. Repeats(g, d0, step, k + 1)
    BY <2>3, <2>6 DEF Repeats
  <2>8. QED
    BY <2>2, <2>5, <2>7 DEF good
<1>3. Nat \subseteq good
  <2> HIDE DEF good
  <2>1. good \in SUBSET Nat
    BY DEF good
  <2>2. QED
    BY <1>1, <1>2, <2>1, SetInduction
<1>4. QED
  BY <1>3

-----------------------------------------------------------------------------
(* The pauses: every window has room for a poll and for at most as many as *)
(* four times the base.                                                    *)
LEMMA WindowBounds ==
    ASSUME NEW k
    PROVE  Window(k) \in 1..(4 * BaseWindow)
<1>1. BaseWindow \in Nat \ {0}
  BY DiscoveryAssumption
<1>2. Pause(k) \in {8, 12, 18, 27, 32}
  BY DEF Pause
<1>3. PICK b : b = BaseWindow
  OBVIOUS
<1>4. /\ (b * 8 + 7) \div 8 \in 1..(4 * b)
      /\ (b * 12 + 7) \div 8 \in 1..(4 * b)
      /\ (b * 18 + 7) \div 8 \in 1..(4 * b)
      /\ (b * 27 + 7) \div 8 \in 1..(4 * b)
      /\ (b * 32 + 7) \div 8 \in 1..(4 * b)
  BY <1>1, <1>3
<1>5. QED
  BY <1>2, <1>3, <1>4 DEF Window

LEMMA WindowsAdd ==
    /\ Windows \in [0..MaxStall -> Nat]
    /\ Windows[0] = 0
    /\ \A k \in 0..(MaxStall - 1) : Windows[k + 1] = Windows[k] + Window(k)
<1>1. MaxStall \in Nat
  BY DiscoveryAssumption
<1>2. \A k : Window(k) \in Nat
  BY WindowBounds, DiscoveryAssumption
<1>3. PICK step : step = [k \in Nat |-> [w \in Nat |-> w + Window(k - 1)]]
  OBVIOUS
<1>4. step \in [Nat -> [Nat -> Nat]] /\ \A w, k \in Nat : step[k][w] = w + Window(k - 1)
  BY <1>2, <1>3
<1>5. PICK f \in [0..MaxStall -> Nat] : Repeats(f, 0, step, MaxStall)
  BY <1>1, <1>4, RepetitionExists
<1>6. f = [k \in 0..MaxStall |-> IF k = 0 THEN 0 ELSE f[k - 1] + Window(k - 1)]
  <2>1. ASSUME NEW k \in 0..MaxStall PROVE f[k] = IF k = 0 THEN 0 ELSE f[k - 1] + Window(k - 1)
    <3>1. CASE k = 0
      BY <1>5, <3>1 DEF Repeats
    <3>2. CASE k # 0
      <4>1. k \in Nat /\ k - 1 \in 0..MaxStall
        BY <1>1, <3>2
      <4>2. f[k - 1] \in Nat
        BY <1>5, <4>1
      <4>3. f[k] = step[k][f[k - 1]]
        BY <1>5, <3>2 DEF Repeats
      <4>4. QED
        BY <1>4, <3>2, <4>1, <4>2, <4>3
    <3>3. QED
      BY <3>1, <3>2
  <2>2. QED
    BY <1>5, <2>1
<1>7. Windows = [k \in 0..MaxStall |-> IF k = 0 THEN 0 ELSE Windows[k - 1] + Window(k - 1)]
  <2>1. PICK w : w = Windows
    OBVIOUS
  <2>2. w = CHOOSE g : g = [k \in 0..MaxStall |-> IF k = 0 THEN 0 ELSE g[k - 1] + Window(k - 1)]
    BY <2>1 DEF Windows
  <2>3. w = [k \in 0..MaxStall |-> IF k = 0 THEN 0 ELSE w[k - 1] + Window(k - 1)]
    BY <1>6, <2>2
  <2>4. QED
    BY <2>1, <2>3
<1>8. Windows[0] = 0
  BY <1>1, <1>7
<1>9. ASSUME NEW k \in 0..(MaxStall - 1) PROVE Windows[k + 1] = Windows[k] + Window(k)
  <2>1. k + 1 \in 0..MaxStall /\ k + 1 # 0 /\ (k + 1) - 1 = k
    BY <1>1
  <2>2. QED
    BY <1>7, <2>1
<1>10. Windows \in [0..MaxStall -> Nat]
  <2> DEFINE good == {k \in Nat : k \in 0..MaxStall => Windows[k] \in Nat}
  <2>1. 0 \in good
    BY <1>8
  <2>2. ASSUME NEW k \in good PROVE k + 1 \in good
    <3>1. k \in Nat /\ (k + 1 \in 0..MaxStall => k \in 0..(MaxStall - 1) /\ k \in 0..MaxStall)
      BY <1>1
    <3>2. QED
      BY <1>2, <1>9, <3>1
  <2>3. Nat \subseteq good
    <3> HIDE DEF good
    <3>1. good \in SUBSET Nat
      BY DEF good
    <3>2. QED
      BY <2>1, <2>2, <3>1, SetInduction
  <2>4. \A k \in 0..MaxStall : Windows[k] \in Nat
    BY <1>1, <2>3
  <2>5. QED
    BY <1>7, <2>4
<1>11. QED
  BY <1>8, <1>9, <1>10

-----------------------------------------------------------------------------
(* What the stages say of the counts: in the loop nothing is concluded and *)
(* the limit not reached, a scroll is still allowed before it is made, and *)
(* a window is not over while it is waited for.                            *)
Counting ==
    /\ stage \in {"search", "count", "ask", "scroll", "wait"} => verdict = "open"
    /\ stage \in {"search", "count"} => stall = 0
    /\ stage \in {"ask", "scroll", "wait"} => previous < limit
    /\ stage \in {"ask", "scroll"} => attempts < MaxTotal
    /\ stage = "wait" => polls < Window(stall)
    /\ verdict = "open" => stall < MaxStall
    /\ previous <= shown

\* As long as no new card came, the windows of this stall were waited for.
Waited ==
    stage \in {"count", "ask", "scroll", "wait"} /\ shown = previous =>
        \/ quiet >= Patience
        \/ quiet >= Windows[stall] + (IF stage = "wait" THEN polls ELSE 0)

\* A verdict tells what the counts were when it was made.
VerdictCounts ==
    /\ verdict = "end" => previous < limit /\ (marker \/ stall = MaxStall)
    /\ verdict = "neither" => attempts = MaxTotal /\ stall < MaxStall
    /\ verdict = "limit" => previous >= limit /\ attempts < MaxTotal

ScrollInv == TypeOK /\ Counting /\ Waited /\ VerdictCounts

\* The types that the arithmetic below needs.
LEMMA Numbers ==
    ASSUME TypeOK
    PROVE  /\ limit \in Nat /\ limit # 0 /\ shown \in Nat /\ attempts \in Nat /\ stall \in Nat
           /\ previous \in Nat /\ polls \in Nat /\ quiet \in Nat /\ Len(feed) \in Nat
           /\ shown <= Len(feed)
<1>1. feed \in Seq(Cards)
  <2>1. PICK m \in 0..MaxCards : feed \in [1..m -> Cards]
    BY DEF TypeOK, Feeds, BoundedSeq, SeqOf
  <2>2. QED
    BY <2>1, DiscoveryAssumption
<1>2. Len(feed) \in Nat
  BY <1>1
<1>3. Patience \in Nat
  BY WindowsAdd, DiscoveryAssumption DEF Patience
<1>4. QED
  BY <1>2, <1>3, DiscoveryAssumption DEF TypeOK

\* The head of the loop: what follows from the count.
LEMMA Decided ==
    ASSUME NEW count \in Nat, NEW tries \in 0..MaxTotal, NEW stalled \in 0..(MaxStall - 1),
           limit \in Nat, verdict = "open", Decide(count, tries),
           previous' = count, attempts' = tries, stall' = stalled, limit' = limit
    PROVE  /\ stage' \in {"ask", "collect"} /\ verdict' \in Verdicts
           /\ stage' = "ask" => verdict' = "open" /\ previous' < limit' /\ attempts' < MaxTotal
           /\ verdict' = "open" => stall' < MaxStall
           /\ VerdictCounts'
<1>1. {MaxStall, MaxTotal} \subseteq Nat
  BY DiscoveryAssumption
<1>2. stalled < MaxStall /\ tries <= MaxTotal
  BY <1>1
<1>3. CASE tries >= MaxTotal /\ Conclude("neither")
  BY <1>1, <1>2, <1>3 DEF Conclude, Verdicts, VerdictCounts
<1>4. CASE tries < MaxTotal /\ count >= limit /\ Conclude("limit")
  BY <1>1, <1>2, <1>4 DEF Conclude, Verdicts, VerdictCounts
<1>5. CASE tries < MaxTotal /\ count < limit /\ stage' = "ask" /\ verdict' = verdict
  BY <1>1, <1>2, <1>5 DEF Verdicts, VerdictCounts
<1>6. QED
  BY <1>3, <1>4, <1>5 DEF Decide

LEMMA InitScroll == Init => ScrollInv
<1> SUFFICES ASSUME Init PROVE ScrollInv
  OBVIOUS
<1>1. /\ Windows \in [0..MaxStall -> Nat] /\ Windows[0] = 0
      /\ {MaxStall, MaxTotal, MaxLimit, BaseWindow} \subseteq Nat \ {0}
  BY WindowsAdd, DiscoveryAssumption
<1>2. TypeOK
  <2>1. Patience \in Nat
    BY <1>1 DEF Patience
  <2>2. feed \in Feeds /\ Len(feed) \in Nat
    <3>1. PICK m \in 0..MaxCards : feed \in [1..m -> Cards]
      BY DEF Init, Feeds, BoundedSeq, SeqOf
    <3>2. feed \in Seq(Cards)
      BY <3>1, DiscoveryAssumption
    <3>3. QED
      BY <3>2 DEF Init
  <2>3. << >> \in Seq(Places)
    OBVIOUS
  <2>4. /\ 0 \in 0..Len(feed) /\ 0 \in 0..MaxTotal /\ 0 \in 0..MaxStall /\ 0 \in 0..MaxLimit
        /\ 0 \in 0..(4 * BaseWindow) /\ 0 \in 0..Patience
    BY <1>1, <2>1, <2>2
  <2>5. QED
    BY <2>2, <2>3, <2>4 DEF Init, TypeOK, Stages, Verdicts
<1>3. Counting
  BY <1>1 DEF Init, Counting
<1>4. Waited
  BY DEF Init, Waited
<1>5. VerdictCounts
  BY DEF Init, VerdictCounts
<1>6. QED
  BY <1>2, <1>3, <1>4, <1>5 DEF ScrollInv

LEMMA PageKeeps ==
    ASSUME ScrollInv, Load \/ ShowMarker, ~Ended
    PROVE  ScrollInv'
<1>1. TypeOK /\ Counting /\ Waited /\ VerdictCounts
  BY DEF ScrollInv
<1>2. previous \in Nat /\ shown \in Nat /\ Len(feed) \in Nat
  BY <1>1, Numbers
<1>3. CASE Load
  <2>1. shown' \in 0..Len(feed) /\ shown < shown'
    BY <1>2, <1>3 DEF Load
  <2>2. previous < shown'
    BY <1>1, <1>2, <2>1 DEF Counting
  <2>3. Patience \in Nat
    BY WindowsAdd, DiscoveryAssumption DEF Patience
  <2>4. TypeOK'
    BY <1>1, <1>3, <2>1, <2>3 DEF Load, TypeOK, scrollVars, leadVars
  <2>5. Counting'
    BY <1>1, <1>2, <1>3, <2>1, <2>2 DEF Load, Counting, scrollVars
  <2>6. Waited'
    BY <1>2, <1>3, <2>1, <2>2 DEF Load, Waited, scrollVars
  <2>7. VerdictCounts'
    BY <1>1, <1>3 DEF Load, VerdictCounts, scrollVars
  <2>8. QED
    BY <2>4, <2>5, <2>6, <2>7 DEF ScrollInv
<1>4. CASE ShowMarker
  <2>1. TypeOK'
    BY <1>1, <1>4 DEF ShowMarker, TypeOK, scrollVars, leadVars
  <2>2. Counting' /\ Waited'
    BY <1>1, <1>4 DEF ShowMarker, Counting, Waited, scrollVars
  <2>3. VerdictCounts'
    BY <1>1, <1>4 DEF ShowMarker, VerdictCounts, scrollVars
  <2>4. QED
    BY <2>1, <2>2, <2>3 DEF ScrollInv
<1>5. QED
  BY <1>3, <1>4

LEMMA SearchAndCountKeep ==
    ASSUME ScrollInv, SearchDone \/ Count
    PROVE  ScrollInv'
<1>1. TypeOK /\ Counting /\ Waited /\ VerdictCounts
  BY DEF ScrollInv
<1>2. /\ limit \in Nat /\ shown \in Nat /\ previous \in Nat /\ attempts \in 0..MaxTotal
      /\ shown \in 0..Len(feed) /\ {MaxStall, MaxTotal} \subseteq Nat \ {0}
      /\ quiet \in Nat /\ Windows[0] = 0
  BY <1>1, Numbers, WindowsAdd, DiscoveryAssumption DEF TypeOK
<1>3. CASE SearchDone
  <2>1. TypeOK'
    BY <1>1, <1>3 DEF SearchDone, TypeOK, Stages, pageVars, scrollVars, leadVars
  <2>2. Counting'
    BY <1>1, <1>3 DEF SearchDone, Counting, pageVars, scrollVars
  <2>3. Waited'
    BY <1>1, <1>2, <1>3 DEF SearchDone, Counting, Waited, pageVars, scrollVars
  <2>4. VerdictCounts'
    BY <1>1, <1>3 DEF SearchDone, VerdictCounts, pageVars, scrollVars
  <2>5. QED
    BY <2>1, <2>2, <2>3, <2>4 DEF ScrollInv
<1>4. CASE Count
  <2>1. stage = "count" /\ verdict = "open" /\ stall = 0
    BY <1>1, <1>4 DEF Count, Counting
  <2>2. /\ previous' = shown /\ attempts' = attempts /\ stall' = 0 /\ polls' = polls
        /\ limit' = limit /\ feed' = feed /\ shown' = shown /\ marker' = marker
        /\ leads' = leads /\ duplicates' = duplicates /\ quiet' = quiet
        /\ Decide(shown, attempts)
    BY <1>4, <2>1 DEF Count, pageVars, leadVars
  <2>3. /\ stage' \in {"ask", "collect"} /\ verdict' \in Verdicts
        /\ stage' = "ask" => verdict' = "open" /\ previous' < limit' /\ attempts' < MaxTotal
        /\ verdict' = "open" => stall' < MaxStall
        /\ VerdictCounts'
    BY <1>2, <2>1, <2>2, Decided
  <2>4. TypeOK'
    BY <1>1, <1>2, <2>1, <2>2, <2>3 DEF TypeOK, Stages
  <2>5. Counting'
    BY <1>2, <2>2, <2>3 DEF Counting
  <2>6. Waited'
    BY <1>2, <2>2, <2>3 DEF Waited
  <2>7. QED
    BY <2>3, <2>4, <2>5, <2>6 DEF ScrollInv
<1>5. QED
  BY <1>3, <1>4

LEMMA AskAndScrollKeep ==
    ASSUME ScrollInv, AskEnd \/ Scroll
    PROVE  ScrollInv'
<1>1. TypeOK /\ Counting /\ Waited /\ VerdictCounts
  BY DEF ScrollInv
<1>2. /\ attempts \in Nat /\ {MaxStall, MaxTotal, BaseWindow} \subseteq Nat \ {0}
      /\ stall \in 0..MaxStall /\ Windows[stall] \in Nat /\ Window(stall) \in 1..(4 * BaseWindow)
  BY <1>1, Numbers, WindowsAdd, WindowBounds, DiscoveryAssumption DEF TypeOK
<1>3. CASE AskEnd /\ marker
  <2>1. /\ stage' = "collect" /\ verdict' = "end" /\ previous < limit
        /\ UNCHANGED <<pageVars, attempts, stall, previous, polls, leadVars, quiet>>
    BY <1>1, <1>3 DEF AskEnd, Conclude, Counting
  <2>2. TypeOK'
    BY <1>1, <2>1 DEF TypeOK, Stages, Verdicts, pageVars, leadVars
  <2>3. Counting' /\ Waited'
    BY <1>1, <2>1 DEF Counting, Waited, pageVars
  <2>4. VerdictCounts'
    BY <1>3, <2>1 DEF VerdictCounts, pageVars
  <2>5. QED
    BY <2>2, <2>3, <2>4 DEF ScrollInv
<1>4. CASE AskEnd /\ ~marker
  <2>1. /\ stage = "ask" /\ stage' = "scroll" /\ verdict' = verdict
        /\ UNCHANGED <<pageVars, attempts, stall, previous, polls, leadVars, quiet>>
    BY <1>4 DEF AskEnd
  <2>2. TypeOK'
    BY <1>1, <2>1 DEF TypeOK, Stages, pageVars, leadVars
  <2>3. Counting' /\ Waited'
    BY <1>1, <2>1 DEF Counting, Waited, pageVars
  <2>4. VerdictCounts'
    BY <1>1, <2>1 DEF VerdictCounts, pageVars
  <2>5. QED
    BY <2>2, <2>3, <2>4 DEF ScrollInv
<1>5. CASE Scroll
  <2>1. /\ stage = "scroll" /\ stage' = "wait" /\ attempts' = attempts + 1 /\ polls' = 0
        /\ attempts < MaxTotal /\ verdict = "open"
        /\ UNCHANGED <<pageVars, stall, previous, verdict, leadVars, quiet>>
    BY <1>1, <1>5 DEF Scroll, Counting
  <2>2. TypeOK'
    BY <1>1, <1>2, <2>1 DEF TypeOK, Stages, pageVars, leadVars
  <2>3. Counting'
    BY <1>1, <1>2, <2>1 DEF Counting, pageVars
  <2>4. Waited'
    BY <1>1, <1>2, <2>1 DEF Waited, pageVars
  <2>5. VerdictCounts'
    BY <2>1 DEF VerdictCounts
  <2>6. QED
    BY <2>2, <2>3, <2>4, <2>5 DEF ScrollInv
<1>6. QED
  BY <1>3, <1>4, <1>5

\* What a poll leaves alone, and the types of what it changes.
LEMMA PollMoves ==
    ASSUME ScrollInv, Poll
    PROVE  /\ stage = "wait" /\ verdict = "open" /\ previous < limit /\ stall < MaxStall
           /\ polls < Window(stall) /\ polls' = polls + 1 /\ polls' \in 0..(4 * BaseWindow)
           /\ quiet' \in 0..Patience
           /\ quiet >= Patience => quiet' >= Patience
           /\ quiet < Patience => quiet' = quiet + 1
           /\ limit' = limit /\ feed' = feed /\ shown' = shown /\ marker' = marker
           /\ leads' = leads /\ duplicates' = duplicates /\ attempts' = attempts
           /\ previous' = IF stage' = "wait" THEN previous ELSE shown
<1>1. TypeOK /\ Counting
  BY DEF ScrollInv
<1>2. /\ polls \in Nat /\ quiet \in 0..Patience /\ Patience \in Nat /\ BaseWindow \in Nat
      /\ Window(stall) \in 1..(4 * BaseWindow)
  BY <1>1, Numbers, WindowsAdd, WindowBounds, DiscoveryAssumption DEF TypeOK, Patience
<1>3. stage = "wait" /\ verdict = "open" /\ previous < limit /\ stall < MaxStall
      /\ polls < Window(stall)
  BY <1>1 DEF Poll, Counting
<1>4. polls' = polls + 1 /\ polls' \in 0..(4 * BaseWindow)
  <2>1. polls' = polls + 1
    BY DEF Poll
  <2>2. PICK w \in 1..(4 * BaseWindow) : w = Window(stall)
    BY <1>2
  <2>3. polls < w
    BY <1>3, <2>2
  <2>4. QED
    BY <1>2, <2>1, <2>2, <2>3
<1>5. /\ quiet' \in 0..Patience
      /\ quiet >= Patience => quiet' >= Patience
      /\ quiet < Patience => quiet' = quiet + 1
  BY <1>2 DEF Poll
<1>6. QED
  BY <1>3, <1>4, <1>5 DEF Poll, pageVars, leadVars

\* A window that is over was waited for to the end.
LEMMA WindowOver ==
    ASSUME NEW q \in Nat, NEW n \in Nat, NEW w \in Nat, NEW v \in Nat, q >= w + n, n + 1 >= v
    PROVE  q + 1 >= w + v
  OBVIOUS

LEMMA PollKeeps ==
    ASSUME ScrollInv, Poll
    PROVE  ScrollInv'
<1>1. TypeOK /\ Counting /\ Waited
  BY DEF ScrollInv
<1>2. /\ stage = "wait" /\ verdict = "open" /\ previous < limit /\ stall < MaxStall
      /\ polls < Window(stall) /\ polls' = polls + 1 /\ polls' \in 0..(4 * BaseWindow)
      /\ quiet' \in 0..Patience
      /\ quiet >= Patience => quiet' >= Patience
      /\ quiet < Patience => quiet' = quiet + 1
      /\ limit' = limit /\ feed' = feed /\ shown' = shown /\ marker' = marker
      /\ leads' = leads /\ duplicates' = duplicates /\ attempts' = attempts
      /\ previous' = IF stage' = "wait" THEN previous ELSE shown
  BY PollMoves
<1>3. /\ limit \in Nat /\ shown \in Nat /\ previous \in Nat /\ polls \in Nat /\ quiet \in Nat
      /\ stall \in Nat /\ attempts \in 0..MaxTotal /\ shown \in 0..Len(feed)
      /\ {MaxStall, MaxTotal} \subseteq Nat \ {0} /\ previous <= shown
  BY <1>1, Numbers, DiscoveryAssumption DEF TypeOK, Counting
<1>4. /\ Windows[0] = 0 /\ Windows[stall] \in Nat /\ Patience \in Nat /\ Patience = Windows[MaxStall]
      /\ Windows[stall + 1] = Windows[stall] + Window(stall)
  BY <1>2, <1>3, WindowsAdd DEF Patience
<1>5. /\ Window(stall) \in Nat
  BY WindowBounds, DiscoveryAssumption
<1>6. CASE Progress
  <2>1. stall' = 0 /\ Decide(shown, attempts) /\ shown > previous
    BY <1>6 DEF Progress
  <2>2. stage' # "wait"
    BY <2>1 DEF Decide, Conclude
  <2>3. previous' = shown
    BY <1>2, <2>2
  <2>4. /\ stage' \in {"ask", "collect"} /\ verdict' \in Verdicts
        /\ stage' = "ask" => verdict' = "open" /\ previous' < limit' /\ attempts' < MaxTotal
        /\ verdict' = "open" => stall' < MaxStall
        /\ VerdictCounts'
    BY <1>2, <1>3, <2>1, <2>3, Decided
  <2>5. TypeOK'
    BY <1>1, <1>2, <1>3, <2>1, <2>3, <2>4 DEF TypeOK, Stages
  <2>6. Counting'
    BY <1>2, <1>3, <2>3, <2>4 DEF Counting
  <2>7. quiet' >= Windows[stall'] + 0
    BY <1>2, <1>4, <2>1
  <2>8. Waited'
    BY <2>4, <2>7 DEF Waited
  <2>9. QED
    BY <2>4, <2>5, <2>6, <2>8 DEF ScrollInv
<1>7. CASE Stalled
  <2>1. /\ shown = previous /\ polls + 1 >= Window(stall) /\ stall' = stall + 1
    BY <1>3, <1>7 DEF Stalled
  <2>2. stage' # "wait"
    BY <1>7 DEF Stalled, Decide, Conclude
  <2>3. previous' = shown
    BY <1>2, <2>2
  <2>4. /\ stage' \in {"ask", "collect"} /\ verdict' \in Verdicts
        /\ stage' = "ask" => verdict' = "open" /\ previous' < limit' /\ attempts' < MaxTotal
        /\ verdict' = "open" => stall' < MaxStall
        /\ VerdictCounts'
    <3>1. CASE stall' >= MaxStall
      <4>1. stage' = "collect" /\ verdict' = "end" /\ stall' = MaxStall
        BY <1>2, <1>3, <1>7, <2>1, <3>1 DEF Stalled, Conclude
      <4>2. QED
        BY <1>2, <2>1, <2>3, <4>1 DEF Verdicts, VerdictCounts
    <3>2. CASE ~(stall' >= MaxStall)
      <4>1. Decide(shown, attempts) /\ stall + 1 \in 0..(MaxStall - 1)
        BY <1>3, <1>7, <2>1, <3>2 DEF Stalled
      <4>2. QED
        BY <1>2, <1>3, <2>1, <2>3, <4>1, Decided
    <3>3. QED
      BY <3>1, <3>2
  <2>5. stall' \in 0..MaxStall
    BY <1>2, <1>3, <2>1
  <2>6. TypeOK'
    BY <1>1, <1>2, <1>3, <2>3, <2>4, <2>5 DEF TypeOK, Stages
  <2>7. Counting'
    BY <1>2, <1>3, <2>3, <2>4 DEF Counting
  <2>8. quiet' >= Patience \/ quiet' >= Windows[stall'] + 0
    <3>1. quiet >= Patience \/ quiet >= Windows[stall] + polls
      BY <1>1, <1>2, <2>1 DEF Waited
    <3>2. PICK p, w, v \in Nat : p = Patience /\ w = Windows[stall] /\ v = Window(stall)
      BY <1>4, <1>5
    <3>3. quiet' >= p \/ quiet' >= w + v
      <4>1. CASE quiet >= p
        BY <1>2, <3>2, <4>1
      <4>2. CASE quiet < p
        <5>1. quiet' = quiet + 1 /\ quiet >= w + polls /\ polls + 1 >= v
          BY <1>2, <1>3, <2>1, <3>1, <3>2, <4>2
        <5>2. quiet + 1 >= w + v
          BY <1>3, <3>2, <5>1, WindowOver
        <5>3. QED
          BY <5>1, <5>2
      <4>3. QED
        BY <1>3, <3>2, <4>1, <4>2
    <3>4. Windows[stall'] = w + v
      BY <1>4, <2>1, <3>2
    <3>5. QED
      BY <3>2, <3>3, <3>4
  <2>9. Waited'
    BY <2>4, <2>8 DEF Waited
  <2>10. QED
    BY <2>4, <2>6, <2>7, <2>9 DEF ScrollInv
<1>8. CASE KeepWaiting
  <2>1. /\ shown = previous /\ polls + 1 < Window(stall)
        /\ stage' = "wait" /\ stall' = stall /\ verdict' = "open" /\ previous' = previous
    BY <1>2, <1>3, <1>8 DEF KeepWaiting
  <2>2. TypeOK'
    BY <1>1, <1>2, <2>1 DEF TypeOK
  <2>3. Counting'
    BY <1>2, <1>3, <2>1 DEF Counting
  <2>4. quiet' >= Patience \/ quiet' >= Windows[stall] + polls'
    <3>1. quiet >= Patience \/ quiet >= Windows[stall] + polls
      BY <1>1, <1>2, <2>1 DEF Waited
    <3>2. PICK p, w \in Nat : p = Patience /\ w = Windows[stall]
      BY <1>4
    <3>3. quiet' >= p \/ quiet' >= w + polls'
      BY <1>2, <1>3, <3>1, <3>2
    <3>4. QED
      BY <3>2, <3>3
  <2>5. Waited'
    BY <2>1, <2>4 DEF Waited
  <2>6. VerdictCounts'
    BY <2>1 DEF VerdictCounts
  <2>7. QED
    BY <2>2, <2>3, <2>5, <2>6 DEF ScrollInv
<1>9. QED
  BY <1>6, <1>7, <1>8 DEF Poll

-----------------------------------------------------------------------------
(* Reading the cards.                                                      *)
UpTo(cards, n) == {i \in cards : i <= n}

BadUpTo(n) == {i \in 1..n : feed[i] = BadCard}

LEMMA FeedOnPage ==
    ASSUME TypeOK
    PROVE  /\ shown \in Nat /\ Len(feed) \in Nat /\ shown <= Len(feed)
           /\ \A i \in 1..shown : i \in 1..Len(feed) /\ feed[i] \in Cards
<1>1. PICK m \in 0..MaxCards : feed \in [1..m -> Cards]
  BY DEF TypeOK, Feeds, BoundedSeq, SeqOf
<1>2. m \in Nat /\ Len(feed) = m
  BY <1>1, DiscoveryAssumption, LenProperties
<1>3. shown \in 0..m
  BY <1>2 DEF TypeOK
<1>4. QED
  BY <1>1, <1>2, <1>3

LEMMA ReadableOnPage ==
    ASSUME TypeOK
    PROVE  /\ Readable \subseteq 1..shown /\ Collected \subseteq Readable
           /\ \A i \in Readable : feed[i] \in Places
<1>1. Readable \subseteq 1..shown /\ Collected \subseteq Readable
  BY DEF Readable, Collected
<1>2. \A i \in Readable : feed[i] \in Places
  BY FeedOnPage DEF Readable, Cards
<1>3. QED
  BY <1>1, <1>2

\* One card more.
LEMMA UpToNext ==
    ASSUME NEW cards \in SUBSET Nat, NEW n \in Nat
    PROVE  /\ IsFiniteSet(UpTo(cards, n)) /\ Cardinality(UpTo(cards, n)) \in Nat
           /\ Cardinality(UpTo(cards, n + 1)) =
                Cardinality(UpTo(cards, n)) + (IF n + 1 \in cards THEN 1 ELSE 0)
<1>1. UpTo(cards, n) \in SUBSET Nat /\ \A i \in UpTo(cards, n) : i <= n
  BY DEF UpTo
<1>2. IsFiniteSet(UpTo(cards, n))
  BY <1>1, FS_BoundedSetOfNaturals
<1>3. Cardinality(UpTo(cards, n)) \in Nat
  BY <1>2, FS_CardinalityType
<1>4. /\ \A i \in cards : i \in Nat
      /\ \A i \in Nat : i <= n + 1 <=> i <= n \/ i = n + 1
      /\ ~(n + 1 <= n)
  OBVIOUS
<1>5. CASE n + 1 \in cards
  <2>1. UpTo(cards, n + 1) = UpTo(cards, n) \cup {n + 1}
    BY <1>4, <1>5, Zenon DEF UpTo
  <2>2. n + 1 \notin UpTo(cards, n)
    BY <1>4, Zenon DEF UpTo
  <2>3. Cardinality(UpTo(cards, n + 1)) = Cardinality(UpTo(cards, n)) + 1
    BY <1>2, <2>1, <2>2, FS_AddElement
  <2>4. QED
    BY <1>2, <1>3, <1>5, <2>3
<1>6. CASE n + 1 \notin cards
  <2>1. UpTo(cards, n + 1) = UpTo(cards, n)
    BY <1>4, <1>6, Zenon DEF UpTo
  <2>2. QED
    BY <1>2, <1>3, <1>6, <2>1
<1>7. QED
  BY <1>5, <1>6

LEMMA UpToNone ==
    ASSUME NEW cards \in SUBSET (Nat \ {0})
    PROVE  Cardinality(UpTo(cards, 0)) = 0
<1>1. UpTo(cards, 0) = {}
  <2>1. \A i \in cards : ~(i <= 0)
    OBVIOUS
  <2>2. QED
    BY <2>1, Zenon DEF UpTo
<1>2. QED
  BY <1>1, FS_EmptySet

(* Of the first n cards, the readable ones are collected up to the limit,  *)
(* and those that are not readable are the others.                         *)
LEMMA Counts ==
    ASSUME TypeOK, NEW n \in 0..shown
    PROVE  /\ Cardinality(UpTo(Readable, n)) \in Nat
           /\ Cardinality(UpTo(Collected, n)) =
                IF Cardinality(UpTo(Readable, n)) <= limit THEN Cardinality(UpTo(Readable, n)) ELSE limit
           /\ Cardinality(BadUpTo(n)) + Cardinality(UpTo(Readable, n)) = n
<1> DEFINE r(k) == Cardinality(UpTo(Readable, k))
           c(k) == Cardinality(UpTo(Collected, k))
           b(k) == Cardinality(BadUpTo(k))
           holds(k) == c(k) = (IF r(k) <= limit THEN r(k) ELSE limit) /\ b(k) + r(k) = k
           good == {k \in Nat : k <= shown => holds(k)}
<1>1. /\ limit \in Nat /\ shown \in Nat
      /\ Readable \in SUBSET (Nat \ {0}) /\ Collected \in SUBSET (Nat \ {0})
      /\ Readable \in SUBSET Nat /\ Collected \in SUBSET Nat
  BY Numbers, ReadableOnPage
<1>2. \A k \in Nat : IsFiniteSet(BadUpTo(k)) /\ b(k) \in Nat
  <2>1. ASSUME NEW k \in Nat PROVE IsFiniteSet(BadUpTo(k))
    <3>1. BadUpTo(k) \in SUBSET (1..k) /\ IsFiniteSet(1..k)
      BY FS_Interval DEF BadUpTo
    <3>2. QED
      BY <3>1, FS_Subset
  <2>2. QED
    BY <2>1, FS_CardinalityType
<1>3. 0 \in good
  <2>1. r(0) = 0 /\ c(0) = 0
    BY <1>1, UpToNone
  <2>2. b(0) = 0
    <3>1. BadUpTo(0) = {}
      BY DEF BadUpTo
    <3>2. QED
      BY <3>1, FS_EmptySet
  <2> HIDE DEF r, c, b
  <2>3. QED
    BY <1>1, <2>1, <2>2
<1>4. ASSUME NEW k \in Nat, k \in good PROVE k + 1 \in good
  <2>1. SUFFICES ASSUME k + 1 <= shown PROVE holds(k + 1)
    OBVIOUS
  <2>2. k <= shown /\ k + 1 \in 1..shown
    BY <1>1, <2>1
  <2>3. holds(k)
    BY <1>4, <2>2
  <2>4. r(k) \in Nat /\ r(k + 1) = r(k) + (IF k + 1 \in Readable THEN 1 ELSE 0)
    BY <1>1, UpToNext
  <2>5. c(k) \in Nat /\ c(k + 1) = c(k) + (IF k + 1 \in Collected THEN 1 ELSE 0)
    BY <1>1, UpToNext
  <2>6. k + 1 \in Collected <=> k + 1 \in Readable /\ r(k + 1) <= limit
    BY DEF Collected, UpTo
  <2>7. b(k + 1) = b(k) + (IF k + 1 \in Readable THEN 0 ELSE 1)
    <3>1. CASE k + 1 \in Readable
      <4>1. BadUpTo(k + 1) = BadUpTo(k)
        BY <3>1 DEF BadUpTo, Readable
      <4>2. QED
        BY <1>2, <3>1, <4>1
    <3>2. CASE k + 1 \notin Readable
      <4>1. BadUpTo(k + 1) = BadUpTo(k) \cup {k + 1} /\ k + 1 \notin BadUpTo(k)
        BY <2>2, <3>2 DEF BadUpTo, Readable
      <4>2. QED
        BY <1>2, <3>2, <4>1, FS_AddElement
    <3>3. QED
      BY <3>1, <3>2
  <2> HIDE DEF r, c, b
  <2>8. b(k) \in Nat
    BY <1>2
  <2>9. b(k + 1) + r(k + 1) = k + 1
    <3>1. b(k) + r(k) = k
      BY <2>3
    <3>2. CASE k + 1 \in Readable
      BY <2>4, <2>7, <2>8, <3>1, <3>2
    <3>3. CASE k + 1 \notin Readable
      BY <2>4, <2>7, <2>8, <3>1, <3>3
    <3>4. QED
      BY <3>2, <3>3
  <2>10. c(k + 1) = (IF r(k + 1) <= limit THEN r(k + 1) ELSE limit)
    <3>1. c(k) = (IF r(k) <= limit THEN r(k) ELSE limit)
      BY <2>3
    <3>2. QED
      BY <1>1, <2>4, <2>5, <2>6, <3>1
  <2>11. QED
    BY <2>9, <2>10
<1>5. Nat \subseteq good
  <2> HIDE DEF good
  <2>1. good \in SUBSET Nat
    BY DEF good
  <2>2. QED
    BY <1>3, <1>4, <2>1, SetInduction
<1>6. holds(n)
  <2>1. n \in Nat /\ n <= shown
    BY <1>1
  <2> HIDE DEF holds
  <2>2. QED
    BY <1>5, <2>1
<1>7. Cardinality(UpTo(Readable, n)) \in Nat
  BY <1>1, UpToNext
<1>8. QED
  BY <1>6, <1>7

\* A readable card before a collected one is collected.
LEMMA CollectedFromFirst ==
    ASSUME TypeOK, NEW i \in Collected, NEW k \in Readable, k <= i
    PROVE  k \in Collected
<1>1. Readable \in SUBSET Nat /\ i \in Nat /\ k \in Nat /\ limit \in Nat
  BY ReadableOnPage, Numbers
<1>2. UpTo(Readable, k) \subseteq UpTo(Readable, i)
  <2>1. \A j \in Readable : j <= k => j <= i
    BY <1>1
  <2>2. QED
    BY <2>1, Zenon DEF UpTo
<1>3. IsFiniteSet(UpTo(Readable, i)) /\ Cardinality(UpTo(Readable, i)) \in Nat
  BY <1>1, UpToNext
<1>4. Cardinality(UpTo(Readable, k)) \in Nat
  BY <1>1, UpToNext
<1>5. Cardinality(UpTo(Readable, k)) <= Cardinality(UpTo(Readable, i))
  BY <1>2, <1>3, FS_Subset
<1>6. Cardinality(UpTo(Readable, i)) <= limit
  BY DEF Collected, UpTo
<1>7. Cardinality(UpTo(Readable, k)) <= limit
  BY <1>1, <1>3, <1>4, <1>5, <1>6
<1>8. QED
  BY <1>7 DEF Collected, UpTo

\* Where a card's place is first mentioned.
LEMMA FirstMention ==
    ASSUME TypeOK, NEW n \in 1..shown
    PROVE  /\ FirstAt(feed[n]) \in 1..n
           /\ feed[FirstAt(feed[n])] = feed[n]
           /\ \A k \in 1..(FirstAt(feed[n]) - 1) : feed[k] # feed[n]
<1> DEFINE first(i) == i \in 1..Len(feed) /\ feed[i] = feed[n] /\ \A k \in 1..(i - 1) : feed[k] # feed[n]
<1>1. n \in Nat /\ n \in 1..Len(feed) /\ Len(feed) \in Nat
  BY FeedOnPage
<1>2. \E i : first(i)
  <2>1. PICK same : same = {i \in 1..Len(feed) : feed[i] = feed[n]}
    OBVIOUS
  <2>2. same \in SUBSET Nat /\ n \in same
    BY <1>1, <2>1
  <2>3. PICK i \in same : \A k \in same : ~(<<k, i>> \in OpToRel(<, Nat))
    <3>1. same # {}
      BY <2>2
    <3>2. QED
      BY <2>2, <3>1, NatLessThanWellFounded, WFMin
  <2>4. i \in 1..Len(feed) /\ feed[i] = feed[n] /\ i \in Nat
    BY <2>1, <2>2, <2>3
  <2>5. ASSUME NEW k \in 1..(i - 1), feed[k] = feed[n] PROVE FALSE
    <3>1. k \in 1..Len(feed) /\ k \in Nat /\ k < i
      BY <1>1, <2>4
    <3>2. k \in same
      BY <2>1, <2>5, <3>1
    <3>3. QED
      BY <2>3, <2>4, <3>1, <3>2 DEF OpToRel
  <2>6. QED
    BY <2>4, <2>5
<1>3. PICK f : f = FirstAt(feed[n])
  OBVIOUS
<1>4. first(f)
  BY <1>2, <1>3 DEF FirstAt
<1>5. f <= n
  <2> SUFFICES ASSUME ~(f <= n) PROVE FALSE
    OBVIOUS
  <2>1. n \in 1..(f - 1)
    BY <1>1, <1>4
  <2>2. QED
    BY <1>4, <2>1
<1>6. QED
  BY <1>1, <1>3, <1>4, <1>5

-----------------------------------------------------------------------------
(* deduplicate_leads(), as a function of how many cards it has seen.       *)
Turns(f, cards, n) ==
    f = [i \in 0..n |->
            IF i = 0 THEN << >>
            ELSE IF i \in cards /\ feed[i] \notin ToSet(f[i - 1])
                 THEN Append(f[i - 1], feed[i])
                 ELSE f[i - 1]]

LEMMA TurnsExist ==
    ASSUME TypeOK, NEW cards \in SUBSET (1..shown)
    PROVE  \E f \in [0..shown -> Seq(Cards)] : Turns(f, cards, shown)
<1>1. shown \in Nat /\ \A i \in cards : feed[i] \in Cards
  BY FeedOnPage
<1>2. PICK step : step =
        [i \in Nat |-> [d \in Seq(Cards) |->
            IF i \in cards /\ feed[i] \notin ToSet(d) THEN Append(d, feed[i]) ELSE d]]
  OBVIOUS
<1>3. step \in [Nat -> [Seq(Cards) -> Seq(Cards)]]
  <2>1. ASSUME NEW i \in Nat, NEW d \in Seq(Cards)
        PROVE  (IF i \in cards /\ feed[i] \notin ToSet(d) THEN Append(d, feed[i]) ELSE d) \in Seq(Cards)
    BY <1>1
  <2>2. QED
    BY <1>2, <2>1
<1>4. << >> \in Seq(Cards)
  OBVIOUS
<1>5. PICK f \in [0..shown -> Seq(Cards)] : Repeats(f, << >>, step, shown)
  BY <1>1, <1>3, <1>4, RepetitionExists
<1>6. ASSUME NEW i \in 0..shown
      PROVE  f[i] = IF i = 0 THEN << >>
                    ELSE IF i \in cards /\ feed[i] \notin ToSet(f[i - 1])
                         THEN Append(f[i - 1], feed[i])
                         ELSE f[i - 1]
  <2>1. CASE i = 0
    BY <1>5, <2>1 DEF Repeats
  <2>2. CASE i # 0
    <3>1. i \in Nat /\ i - 1 \in 0..shown
      BY <1>1, <2>2
    <3>2. f[i - 1] \in Seq(Cards)
      BY <1>5, <3>1
    <3>3. f[i] = step[i][f[i - 1]]
      BY <1>5, <2>2 DEF Repeats
    <3>4. step[i][f[i - 1]] = IF i \in cards /\ feed[i] \notin ToSet(f[i - 1])
                              THEN Append(f[i - 1], feed[i]) ELSE f[i - 1]
      BY <1>2, <3>1, <3>2
    <3>5. QED
      BY <2>2, <3>3, <3>4
  <2>3. QED
    BY <2>1, <2>2
<1>7. Turns(f, cards, shown)
  BY <1>5, <1>6 DEF Turns
<1>8. QED
  BY <1>5, <1>7

LEMMA DeduplicatedIs ==
    ASSUME TypeOK, NEW cards \in SUBSET (1..shown)
    PROVE  \E f : Turns(f, cards, shown) /\ Deduplicated(cards) = f[shown]
<1>1. PICK f : f = CHOOSE g : Turns(g, cards, shown)
  OBVIOUS
<1>2. Turns(f, cards, shown)
  BY <1>1, TurnsExist
<1>3. Deduplicated(cards) = f[shown]
  BY <1>1 DEF Deduplicated, Turns
<1>4. QED
  BY <1>2, <1>3

(* What it has after n cards: the place of every card collected among      *)
(* them, once, in the order of the first mentions.                         *)
HasPlaces(n, d) ==
    /\ d \in Seq(Places)
    /\ \A i \in UpTo(Collected, n) : \E j \in 1..Len(d) : d[j] = feed[i]
    /\ \A j \in 1..Len(d) : \E i \in UpTo(Collected, n) : d[j] = feed[i]

InOrder(d) == \A j, k \in 1..Len(d) : j < k => FirstAt(d[j]) < FirstAt(d[k])

NotMore(n, d) == Len(d) <= Cardinality(UpTo(Collected, n))

Harvested(n, d) == HasPlaces(n, d) /\ InOrder(d) /\ NotMore(n, d)

LEMMA NoneHarvested == TypeOK => Harvested(0, << >>)
<1> SUFFICES ASSUME TypeOK PROVE Harvested(0, << >>)
  OBVIOUS
<1>1. \A i \in Collected : ~(i <= 0)
  BY ReadableOnPage, FeedOnPage
<1>2. UpTo(Collected, 0) = {}
  BY <1>1, Zenon DEF UpTo
<1>3. Cardinality(UpTo(Collected, 0)) = 0
  BY <1>2, FS_EmptySet
<1>4. << >> \in Seq(Places) /\ Len(<< >>) = 0
  OBVIOUS
<1>5. QED
  BY <1>2, <1>3, <1>4 DEF Harvested, HasPlaces, InOrder, NotMore

\* A card that was not collected, or whose place is there, changes nothing.
LEMMA CardPassed ==
    ASSUME TypeOK, NEW n \in 1..shown, NEW d, Harvested(n - 1, d),
           n \in Collected => \E j \in 1..Len(d) : d[j] = feed[n]
    PROVE  Harvested(n, d)
<1>1. n \in Nat /\ n - 1 \in Nat /\ (n - 1) + 1 = n /\ Collected \in SUBSET Nat
  BY ReadableOnPage, FeedOnPage
<1>2. \A i : i \in UpTo(Collected, n) <=> i \in UpTo(Collected, n - 1) \/ (i = n /\ n \in Collected)
  <2>1. \A i \in Collected : i <= n <=> i <= n - 1 \/ i = n
    BY <1>1
  <2>2. n <= n
    BY <1>1
  <2>3. QED
    BY <2>1, <2>2, Zenon DEF UpTo
<1>3. HasPlaces(n, d)
  BY <1>2 DEF Harvested, HasPlaces
<1>4. NotMore(n, d)
  <2>1. /\ Cardinality(UpTo(Collected, n - 1)) \in Nat
        /\ Cardinality(UpTo(Collected, n)) =
             Cardinality(UpTo(Collected, n - 1)) + (IF n \in Collected THEN 1 ELSE 0)
    BY <1>1, UpToNext
  <2>2. Len(d) \in Nat /\ Len(d) <= Cardinality(UpTo(Collected, n - 1))
    BY DEF Harvested, HasPlaces, NotMore
  <2>3. Cardinality(UpTo(Collected, n - 1)) <= Cardinality(UpTo(Collected, n))
    BY <2>1
  <2>4. Cardinality(UpTo(Collected, n)) \in Nat
    BY <2>1
  <2>5. QED
    BY <2>1, <2>2, <2>3, <2>4 DEF NotMore
<1>5. QED
  BY <1>3, <1>4 DEF Harvested

\* The place of a collected card that is not there yet is first mentioned by it.
LEMMA CardTaken ==
    ASSUME TypeOK, NEW n \in 1..shown, NEW d, Harvested(n - 1, d),
           n \in Collected, \A j \in 1..Len(d) : d[j] # feed[n]
    PROVE  Harvested(n, Append(d, feed[n]))
<1>1. n \in Nat /\ n - 1 \in Nat /\ (n - 1) + 1 = n /\ Collected \in SUBSET Nat
      /\ Collected \subseteq 1..shown /\ Collected \subseteq Readable
  BY ReadableOnPage, FeedOnPage
<1>2. \A i : i \in UpTo(Collected, n) <=> i \in UpTo(Collected, n - 1) \/ i = n
  <2>1. \A i \in Collected : i <= n <=> i <= n - 1 \/ i = n
    BY <1>1
  <2>2. n <= n
    BY <1>1
  <2>3. QED
    BY <2>1, <2>2, Zenon DEF UpTo
<1>3. PICK m, e : m = Len(d) /\ e = Append(d, feed[n])
  OBVIOUS
<1>4. d \in Seq(Places) /\ feed[n] \in Places
  BY ReadableOnPage DEF Harvested, HasPlaces, Collected
<1>5. /\ e \in Seq(Places) /\ m \in Nat /\ Len(e) = m + 1 /\ e[m + 1] = feed[n]
      /\ \A j \in 1..m : e[j] = d[j]
      /\ \A j : j \in 1..(m + 1) <=> j \in 1..m \/ j = m + 1
  BY <1>3, <1>4
<1>6. HasPlaces(n, e)
  BY <1>2, <1>3, <1>5 DEF Harvested, HasPlaces
<1>7. FirstAt(feed[n]) = n
  <2>1. PICK f : f = FirstAt(feed[n])
    OBVIOUS
  <2>2. f \in 1..n /\ feed[f] = feed[n]
    BY <2>1, FirstMention
  <2> SUFFICES ASSUME f # n PROVE FALSE
    BY <2>1
  <2>3. f <= n /\ f <= n - 1 /\ f \in 1..shown
    BY <2>2, FeedOnPage
  <2>4. f \in Readable
    BY <1>1, <2>2, <2>3 DEF Readable
  <2>5. f \in Collected
    BY <2>3, <2>4, CollectedFromFirst
  <2>6. f \in UpTo(Collected, n - 1)
    BY <2>3, <2>5 DEF UpTo
  <2>7. QED
    BY <2>2, <2>6 DEF Harvested, HasPlaces
<1>8. ASSUME NEW j \in 1..m PROVE FirstAt(e[j]) \in Nat /\ FirstAt(e[j]) < n
  <2>1. PICK i \in UpTo(Collected, n - 1) : d[j] = feed[i]
    BY <1>3 DEF Harvested, HasPlaces
  <2>2. i \in Nat /\ i <= n - 1 /\ i \in 1..shown
    BY <1>1, <2>1 DEF UpTo
  <2>3. FirstAt(feed[i]) \in 1..i
    BY <2>2, FirstMention
  <2>4. QED
    BY <1>1, <1>5, <2>1, <2>2, <2>3
<1>9. InOrder(e)
  <2>1. ASSUME NEW j \in 1..(m + 1), NEW k \in 1..(m + 1), j < k
        PROVE  FirstAt(e[j]) < FirstAt(e[k])
    <3>1. j \in 1..m
      BY <1>5, <2>1
    <3>2. CASE k = m + 1
      BY <1>5, <1>7, <1>8, <3>1, <3>2
    <3>3. CASE k \in 1..m
      BY <1>3, <1>5, <2>1, <3>1, <3>3 DEF Harvested, InOrder
    <3>4. QED
      BY <1>5, <3>2, <3>3
  <2>2. QED
    BY <1>5, <2>1 DEF InOrder
<1>10. NotMore(n, e)
  <2>1. /\ Cardinality(UpTo(Collected, n - 1)) \in Nat
        /\ Cardinality(UpTo(Collected, n)) = Cardinality(UpTo(Collected, n - 1)) + 1
    BY <1>1, UpToNext
  <2>2. m <= Cardinality(UpTo(Collected, n - 1))
    BY <1>3 DEF Harvested, NotMore
  <2>3. m + 1 <= Cardinality(UpTo(Collected, n))
    BY <1>5, <2>1, <2>2
  <2>4. QED
    BY <1>5, <2>3 DEF NotMore
<1>11. QED
  BY <1>3, <1>6, <1>9, <1>10 DEF Harvested

LEMMA AllHarvested ==
    ASSUME TypeOK
    PROVE  Harvested(shown, Deduplicated(Collected))
<1>1. Collected \in SUBSET (1..shown) /\ shown \in Nat
  BY ReadableOnPage, FeedOnPage
<1>2. PICK f : Turns(f, Collected, shown) /\ Deduplicated(Collected) = f[shown]
  BY <1>1, DeduplicatedIs
<1> DEFINE good == {k \in Nat : k <= shown => Harvested(k, f[k])}
<1>3. 0 \in good
  <2>1. 0 \in 0..shown
    BY <1>1
  <2>2. f[0] = << >>
    BY <1>2, <2>1 DEF Turns
  <2>3. QED
    BY <2>2, NoneHarvested
<1>4. ASSUME NEW k \in Nat, k \in good PROVE k + 1 \in good
  <2>1. SUFFICES ASSUME k + 1 <= shown PROVE Harvested(k + 1, f[k + 1])
    OBVIOUS
  <2>2. k <= shown /\ k + 1 \in 1..shown /\ k + 1 \in 0..shown /\ k + 1 # 0 /\ (k + 1) - 1 = k
    BY <1>1, <2>1
  <2>3. Harvested(k, f[k])
    BY <1>4, <2>2
  <2>4. f[k + 1] = IF k + 1 \in Collected /\ feed[k + 1] \notin ToSet(f[k])
                   THEN Append(f[k], feed[k + 1]) ELSE f[k]
    BY <1>2, <2>2 DEF Turns
  <2>5. ToSet(f[k]) = {f[k][j] : j \in 1..Len(f[k])}
    BY <2>3 DEF ToSet, Harvested, HasPlaces
  <2>6. CASE k + 1 \in Collected /\ feed[k + 1] \notin ToSet(f[k])
    <3>1. \A j \in 1..Len(f[k]) : f[k][j] # feed[k + 1]
      BY <2>5, <2>6
    <3>2. Harvested(k + 1, Append(f[k], feed[k + 1]))
      BY <2>2, <2>3, <2>6, <3>1, CardTaken
    <3>3. QED
      BY <2>4, <2>6, <3>2
  <2>7. CASE ~(k + 1 \in Collected /\ feed[k + 1] \notin ToSet(f[k]))
    <3>1. k + 1 \in Collected => \E j \in 1..Len(f[k]) : f[k][j] = feed[k + 1]
      BY <2>5, <2>7
    <3>2. Harvested(k + 1, f[k])
      BY <2>2, <2>3, <3>1, CardPassed
    <3>3. QED
      BY <2>4, <2>7, <3>2
  <2>8. QED
    BY <2>6, <2>7
<1>5. Nat \subseteq good
  <2> HIDE DEF good
  <2>1. good \in SUBSET Nat
    BY DEF good
  <2>2. QED
    BY <1>3, <1>4, <2>1, SetInduction
<1>6. Harvested(shown, f[shown])
  BY <1>1, <1>5
<1>7. QED
  BY <1>2, <1>6

\* What that says of the leads.
LEMMA LeadsFit ==
    ASSUME TypeOK, NEW d, Harvested(shown, d)
    PROVE  /\ ToSet(d) = {p \in Seen : p # BadCard /\ Rank(FirstAt(p)) <= limit}
           /\ d \in Seq(Places)
           /\ \A i, j \in 1..Len(d) : i < j => FirstAt(d[i]) < FirstAt(d[j])
           /\ Cardinality(Collected) \in 0..limit /\ Len(d) <= Cardinality(Collected)
           /\ shown >= limit => Cardinality(Collected) + Cardinality(BadUpTo(shown)) >= limit
<1>1. /\ shown \in Nat /\ limit \in Nat
      /\ Collected \subseteq Readable /\ Readable \subseteq 1..shown
      /\ \A i \in Readable : feed[i] \in Places
  BY FeedOnPage, Numbers, ReadableOnPage
<1>2. UpTo(Collected, shown) = Collected
  <2>1. \A i \in Collected : i <= shown
    BY <1>1
  <2>2. QED
    BY <2>1, Zenon DEF UpTo
<1>3. ToSet(d) = {d[j] : j \in 1..Len(d)}
  BY DEF ToSet, Harvested, HasPlaces
<1>4. ASSUME NEW i \in 1..shown PROVE Rank(i) = Cardinality(UpTo(Readable, i))
  <2>1. \A k : k \in 1..i <=> k \in 1..shown /\ k <= i
    BY <1>1
  <2>2. UpTo(Readable, i) = {k \in 1..i : feed[k] # BadCard}
    BY <2>1, Zenon DEF UpTo, Readable
  <2>3. QED
    BY <2>2 DEF Rank
<1>5. ASSUME NEW i \in 1..shown
      PROVE  /\ FirstAt(feed[i]) \in 1..shown /\ FirstAt(feed[i]) <= i
             /\ feed[FirstAt(feed[i])] = feed[i]
  <2>1. FirstAt(feed[i]) \in 1..i /\ feed[FirstAt(feed[i])] = feed[i]
    BY FirstMention
  <2>2. QED
    BY <1>1, <2>1
<1>6. ASSUME NEW p \in ToSet(d)
      PROVE  p \in Seen /\ p # BadCard /\ Rank(FirstAt(p)) <= limit
  <2>1. PICK i \in Collected : p = feed[i]
    BY <1>2, <1>3 DEF Harvested, HasPlaces
  <2>2. i \in 1..shown /\ feed[i] # BadCard /\ i \in Readable
    BY <1>1, <2>1 DEF Readable
  <2>3. PICK f : f = FirstAt(p)
    OBVIOUS
  <2>4. f \in 1..shown /\ f <= i /\ feed[f] = p
    BY <1>5, <2>1, <2>2, <2>3
  <2>5. f \in Readable
    BY <2>1, <2>2, <2>4 DEF Readable
  <2>6. f \in Collected
    BY <2>4, <2>5, CollectedFromFirst
  <2>7. Cardinality(UpTo(Readable, f)) <= limit
    BY <2>6 DEF Collected, UpTo
  <2>8. QED
    BY <1>4, <2>1, <2>2, <2>3, <2>4, <2>7 DEF Seen
<1>7. ASSUME NEW p \in Seen, p # BadCard, Rank(FirstAt(p)) <= limit
      PROVE  p \in ToSet(d)
  <2>1. PICK i \in 1..shown : p = feed[i]
    BY DEF Seen
  <2>2. PICK f : f = FirstAt(p)
    OBVIOUS
  <2>3. f \in 1..shown /\ feed[f] = p
    BY <1>5, <2>1, <2>2
  <2>4. f \in Readable /\ Cardinality(UpTo(Readable, f)) <= limit
    BY <1>4, <1>7, <2>2, <2>3 DEF Readable
  <2>5. f \in UpTo(Collected, shown)
    BY <1>2, <2>4 DEF Collected, UpTo
  <2>6. PICK j \in 1..Len(d) : d[j] = feed[f]
    BY <2>5 DEF Harvested, HasPlaces
  <2>7. QED
    BY <1>3, <2>3, <2>6
<1>8. /\ Cardinality(Collected) \in 0..limit
      /\ shown >= limit => Cardinality(Collected) + Cardinality(BadUpTo(shown)) >= limit
  <2>1. PICK r, c, b : /\ r = Cardinality(UpTo(Readable, shown)) /\ c = Cardinality(Collected)
                       /\ b = Cardinality(BadUpTo(shown))
    OBVIOUS
  <2>2. shown \in 0..shown
    BY <1>1
  <2>3. r \in Nat /\ c = (IF r <= limit THEN r ELSE limit) /\ b + r = shown
    BY <1>2, <2>1, <2>2, Counts
  <2>4. b \in Nat
    <3>1. BadUpTo(shown) \in SUBSET (1..shown) /\ IsFiniteSet(1..shown)
      BY <1>1, FS_Interval DEF BadUpTo
    <3>2. QED
      BY <2>1, <3>1, FS_Subset, FS_CardinalityType
  <2>5. c \in 0..limit
    BY <1>1, <2>3
  <2>6. shown >= limit => c + b >= limit
    <3>1. CASE r <= limit
      BY <1>1, <2>3, <2>4, <3>1
    <3>2. CASE ~(r <= limit)
      BY <1>1, <2>3, <2>4, <3>2
    <3>3. QED
      BY <3>1, <3>2
  <2>7. QED
    BY <2>1, <2>5, <2>6
<1>9. ToSet(d) = {p \in Seen : p # BadCard /\ Rank(FirstAt(p)) <= limit}
  BY <1>6, <1>7, Zenon
<1>10. QED
  BY <1>2, <1>8, <1>9 DEF Harvested, HasPlaces, InOrder, NotMore

DiscoveryInv == ScrollInv /\ Harvest /\ VerdictTells

LEMMA CollectKeeps ==
    ASSUME ScrollInv, Collect
    PROVE  DiscoveryInv'
<1>1. TypeOK /\ Counting /\ Waited /\ VerdictCounts
  BY DEF ScrollInv
<1>2. PICK d, c : d = Deduplicated(Collected) /\ c = Cardinality(Collected)
  OBVIOUS
<1>3. Harvested(shown, d)
  BY <1>1, <1>2, AllHarvested
<1>4. /\ ToSet(d) = {p \in Seen : p # BadCard /\ Rank(FirstAt(p)) <= limit}
      /\ d \in Seq(Places)
      /\ \A i, j \in 1..Len(d) : i < j => FirstAt(d[i]) < FirstAt(d[j])
      /\ c \in 0..limit /\ Len(d) <= c
      /\ shown >= limit => c + Cardinality(BadUpTo(shown)) >= limit
  BY <1>1, <1>2, <1>3, LeadsFit
<1>5. /\ leads' = d /\ duplicates' = c - Len(d) /\ stage' = "returned"
      /\ limit' = limit /\ feed' = feed /\ shown' = shown /\ marker' = marker
      /\ attempts' = attempts /\ stall' = stall /\ previous' = previous /\ polls' = polls
      /\ verdict' = verdict /\ quiet' = quiet
  BY <1>2 DEF Collect, pageVars, scrollVars
<1>6. limit \in 1..MaxLimit /\ MaxLimit \in Nat /\ Len(d) \in Nat
      /\ previous \in Nat /\ shown \in Nat /\ previous <= shown
  BY <1>1, <1>4, Numbers, DiscoveryAssumption DEF TypeOK, Counting
<1>7. c - Len(d) \in 0..MaxLimit /\ Len(d) + (c - Len(d)) = c /\ c <= limit
  BY <1>4, <1>6
<1>8. ScrollInv'
  <2>1. TypeOK'
    BY <1>1, <1>4, <1>5, <1>7 DEF TypeOK, Stages
  <2>2. Counting' /\ Waited' /\ VerdictCounts'
    BY <1>1, <1>5 DEF Counting, Waited, VerdictCounts
  <2>3. QED
    BY <2>1, <2>2 DEF ScrollInv
<1>9. Harvest'
  <2>1. \A p : FirstAt(p)' = FirstAt(p)
    BY <1>5 DEF FirstAt
  <2>2. \A i : Rank(i)' = Rank(i)
    BY <1>5 DEF Rank
  <2>3. Seen' = Seen
    BY <1>5 DEF Seen
  <2>4. ToSet(leads') = {p \in Seen' : p # BadCard /\ Rank(FirstAt(p))' <= limit'}
    BY <1>4, <1>5, <2>1, <2>2, <2>3
  <2>5. QED
    BY <1>4, <1>5, <1>7, <2>1, <2>2, <2>3, <2>4 DEF Harvest
<1>10. VerdictTells'
  <2>1. verdict = "limit" => c + Cardinality(BadUpTo(shown)) >= limit
    BY <1>1, <1>4, <1>6 DEF VerdictCounts
  <2>2. verdict' = "limit" =>
          Len(leads') + duplicates' + Cardinality({i \in 1..shown' : feed'[i] = BadCard}) >= limit'
    BY <1>5, <1>7, <2>1 DEF BadUpTo
  <2>3. VerdictCounts'
    BY <1>8 DEF ScrollInv
  <2>4. QED
    BY <2>2, <2>3 DEF VerdictTells, VerdictCounts
<1>11. QED
  BY <1>8, <1>9, <1>10 DEF DiscoveryInv

LEMMA FailKeeps ==
    ASSUME DiscoveryInv, Fail
    PROVE  DiscoveryInv'
<1>1. TypeOK /\ Counting /\ Waited /\ VerdictCounts
  BY DEF DiscoveryInv, ScrollInv
<1>2. TypeOK'
  BY <1>1 DEF Fail, TypeOK, Stages, pageVars, scrollVars, leadVars
<1>3. Counting' /\ Waited' /\ VerdictCounts'
  BY <1>1 DEF Fail, Counting, Waited, VerdictCounts, pageVars, scrollVars
<1>4. Harvest'
  BY DEF Fail, Harvest
<1>5. VerdictTells'
  BY <1>3 DEF Fail, VerdictTells, VerdictCounts
<1>6. QED
  BY <1>2, <1>3, <1>4, <1>5 DEF DiscoveryInv, ScrollInv

LEMMA StandsStill ==
    ASSUME DiscoveryInv, UNCHANGED vars
    PROVE  DiscoveryInv'
<1>1. /\ limit' = limit /\ feed' = feed /\ shown' = shown /\ marker' = marker /\ stage' = stage
      /\ attempts' = attempts /\ stall' = stall /\ previous' = previous /\ polls' = polls
      /\ verdict' = verdict /\ leads' = leads /\ duplicates' = duplicates /\ quiet' = quiet
  BY DEF vars, pageVars, scrollVars, leadVars
<1>2. ScrollInv'
  BY <1>1 DEF DiscoveryInv, ScrollInv, TypeOK, Counting, Waited, VerdictCounts
<1>3. VerdictTells'
  BY <1>1 DEF DiscoveryInv, VerdictTells
<1>4. Harvest'
  <2>1. \A p : FirstAt(p)' = FirstAt(p)
    BY <1>1 DEF FirstAt
  <2>2. \A i : Rank(i)' = Rank(i)
    BY <1>1 DEF Rank
  <2>3. Seen' = Seen
    BY <1>1 DEF Seen
  <2>4. QED
    BY <1>1, <2>1, <2>2, <2>3 DEF DiscoveryInv, Harvest
<1>5. QED
  BY <1>2, <1>3, <1>4 DEF DiscoveryInv

LEMMA DiscoveryKeeps == DiscoveryInv /\ [Next]_vars => DiscoveryInv'
<1> SUFFICES ASSUME DiscoveryInv, [Next]_vars PROVE DiscoveryInv'
  OBVIOUS
<1>1. ScrollInv /\ Harvest /\ VerdictTells
  BY DEF DiscoveryInv
<1>2. ASSUME ScrollInv', stage' # "returned" PROVE DiscoveryInv'
  <2>1. Harvest'
    BY <1>2 DEF Harvest
  <2>2. VerdictTells'
    BY <1>2 DEF VerdictTells, ScrollInv, VerdictCounts
  <2>3. QED
    BY <1>2, <2>1, <2>2 DEF DiscoveryInv
<1>3. CASE SearchDone \/ Count
  <2>1. stage' # "returned"
    BY <1>3 DEF SearchDone, Count, Decide, Conclude
  <2>2. QED
    BY <1>1, <1>2, <1>3, <2>1, SearchAndCountKeep
<1>4. CASE AskEnd \/ Scroll
  <2>1. stage' # "returned"
    BY <1>4 DEF AskEnd, Scroll, Conclude
  <2>2. QED
    BY <1>1, <1>2, <1>4, <2>1, AskAndScrollKeep
<1>5. CASE Poll
  <2>1. stage' # "returned"
    BY <1>5 DEF Poll, Progress, Stalled, KeepWaiting, Decide, Conclude
  <2>2. QED
    BY <1>1, <1>2, <1>5, <2>1, PollKeeps
<1>6. CASE Collect
  BY <1>1, <1>6, CollectKeeps
<1>7. CASE Fail
  BY <1>7, FailKeeps
<1>8. CASE ~Ended /\ (Load \/ ShowMarker)
  <2>1. stage' # "returned"
    BY <1>8 DEF Load, ShowMarker, Ended
  <2>2. QED
    BY <1>1, <1>2, <1>8, <2>1, PageKeeps
<1>9. CASE Over \/ UNCHANGED vars
  <2>1. UNCHANGED vars
    BY <1>9 DEF Over
  <2>2. QED
    BY <2>1, StandsStill
<1>10. QED
  BY <1>3, <1>4, <1>5, <1>6, <1>7, <1>8, <1>9 DEF Next, Step

LEMMA InitDiscovery == Init => DiscoveryInv
<1>1. Init => Harvest /\ VerdictTells
  BY DEF Init, Harvest, VerdictTells
<1>2. QED
  BY <1>1, InitScroll DEF DiscoveryInv

THEOREM DiscoveryInvariant == Spec => []DiscoveryInv
  BY InitDiscovery, DiscoveryKeeps, PTL DEF Spec

(* Every variable keeps its type: the scrolls, the stalls and the polls    *)
(* never exceed what the settings allow, whatever the page does.           *)
THEOREM DiscoveryTyping == Spec => []TypeOK
<1>1. DiscoveryInv => TypeOK
  BY DEF DiscoveryInv, ScrollInv
<1>2. QED
  BY <1>1, DiscoveryInvariant, PTL

(* However many cards came in behind the last look at the page, the leads  *)
(* are the places among its first readable cards, up to the limit, each    *)
(* once and in the order of the feed, and what was left out is counted.    *)
THEOREM HarvestIsRight == Spec => []Harvest
<1>1. DiscoveryInv => Harvest
  BY DEF DiscoveryInv
<1>2. QED
  BY <1>1, DiscoveryInvariant, PTL

(* The verdict of the scrolling tells what the counts say, and a limit     *)
(* that was reached yields as many leads as were asked for, short of those *)
(* that were duplicates or could not be read.                              *)
THEOREM VerdictIsTrue == Spec => []VerdictTells
<1>1. DiscoveryInv => VerdictTells
  BY DEF DiscoveryInv
<1>2. QED
  BY <1>1, DiscoveryInvariant, PTL

(* Without the marker, the end of the list is concluded only when no card  *)
(* came for all the growing windows of MaxStall scrolls in a row.          *)
THEOREM GivesUpLateOnly == Spec => GivesUpLate
<1>1. ASSUME DiscoveryInv, [Next]_vars, verdict = "open", verdict' = "end", ~marker
      PROVE  quiet' >= Patience
  <2>1. Poll /\ Stalled /\ stall' >= MaxStall
    <3>1. ~(SearchDone \/ Count \/ Scroll \/ Collect \/ Fail \/ Load \/ ShowMarker \/ Over)
      BY <1>1 DEF SearchDone, Count, Scroll, Collect, Fail, Load, ShowMarker, Over, Decide,
                  Conclude, vars, scrollVars
    <3>2. ~AskEnd /\ ~(UNCHANGED vars)
      BY <1>1 DEF AskEnd, vars, scrollVars
    <3>3. Poll
      BY <1>1, <3>1, <3>2 DEF Next, Step
    <3>4. QED
      BY <1>1, <3>3 DEF Poll, Progress, Stalled, KeepWaiting, Decide, Conclude
  <2>2. /\ stage = "wait" /\ stall < MaxStall
        /\ quiet >= Patience => quiet' >= Patience
        /\ quiet < Patience => quiet' = quiet + 1
    BY <1>1, <2>1, PollMoves DEF DiscoveryInv
  <2>3. /\ shown \in Nat /\ previous \in Nat /\ previous <= shown /\ stall \in Nat
        /\ polls \in Nat /\ quiet \in Nat /\ MaxStall \in Nat
    BY <1>1, Numbers, DiscoveryAssumption DEF DiscoveryInv, ScrollInv, Counting
  <2>4. shown = previous /\ polls + 1 >= Window(stall) /\ stall + 1 = MaxStall
    BY <2>1, <2>2, <2>3 DEF Stalled
  <2>5. quiet >= Patience \/ quiet >= Windows[stall] + polls
    BY <1>1, <2>2, <2>4 DEF DiscoveryInv, ScrollInv, Waited
  <2>6. PICK p, w, v \in Nat : p = Patience /\ w = Windows[stall] /\ v = Window(stall)
    <3>1. Patience \in Nat /\ Windows[stall] \in Nat
      BY <2>2, <2>3, WindowsAdd DEF Patience
    <3>2. Window(stall) \in Nat
      BY WindowBounds, DiscoveryAssumption
    <3>3. QED
      BY <3>1, <3>2
  <2>7. p = w + v
    <3>1. stall \in 0..(MaxStall - 1)
      BY <2>2, <2>3
    <3>2. Windows[stall + 1] = Windows[stall] + Window(stall)
      BY <3>1, WindowsAdd
    <3>3. QED
      BY <2>4, <2>6, <3>2 DEF Patience
  <2>8. CASE quiet >= p
    BY <2>2, <2>6, <2>8
  <2>9. CASE quiet < p
    <3>1. quiet' = quiet + 1 /\ quiet >= w + polls /\ polls + 1 >= v
      BY <2>2, <2>3, <2>4, <2>5, <2>6, <2>9
    <3>2. quiet + 1 >= w + v
      BY <2>3, <2>6, <3>1, WindowOver
    <3>3. quiet' >= p
      BY <2>7, <3>1, <3>2
    <3>4. QED
      BY <2>6, <3>3
  <2>10. QED
    BY <2>3, <2>6, <2>8, <2>9
<1>2. DiscoveryInv /\ [Next]_vars =>
        [verdict = "open" /\ verdict' = "end" /\ ~marker => quiet' >= Patience]_vars
  BY <1>1
<1>3. QED
  BY <1>2, DiscoveryInvariant, PTL DEF Spec, GivesUpLate
==============================================================================
