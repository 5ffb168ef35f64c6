------------------------ MODULE SocialDiscovery_proofs ------------------------
(***************************************************************************)
(* What the ranking of candidates guarantees for any scores an operator    *)
(* may set and any number of candidates, and what social discovery does    *)
(* with the links of a lead, for any limit and length of a result page.    *)
(***************************************************************************)
EXTENDS SocialDiscovery, FiniteSetTheorems, SequenceTheorems, WellFoundedInduction, TLAPS

\* The most that the source and the merits of a URL add to its tier's score.
MaxExtra == 55

\* The scores of the tiers are natural numbers.
LEMMA TierScore ==
    ASSUME NEW t
    PROVE  confidence_score(t) \in Nat
  BY ScoresAssumption DEF confidence_score

\* The source adds between 0 and 15, the merits between 0 and 40.
LEMMA ExtraBounds ==
    ASSUME NEW source, NEW merits
    PROVE  /\ source_weight(source) \in 0..15
           /\ Bonus(merits) \in 0..40
<1>1. source_weight(source) \in 0..15
  BY DEF source_weight
<1>2. Bonus(merits) \in 0..40
  <2> DEFINE b(m, n) == IF m \in merits THEN n ELSE 0
  <2>1. b("canonical", 20) \in 0..20 /\ b("domain", 10) \in 0..10
        /\ b("query", 5) \in 0..5 /\ b("path", 5) \in 0..5
    OBVIOUS
  <2>2. Bonus(merits) = b("canonical", 20) + b("domain", 10) + b("query", 5) + b("path", 5)
    BY DEF Bonus
  <2>3. QED
    BY <2>1, <2>2
<1>3. QED
  BY <1>1, <1>2

(* rank_score() of a usable candidate lies between the score of its tier   *)
(* and 55 more; that of an unusable one is 0 "regardless of confidence".   *)
THEOREM ScoreBounds ==
    ASSUME NEW c
    PROVE  /\ rank_score(c) \in Nat
           /\ ~Usable(c) => rank_score(c) = 0
           /\ Usable(c) => /\ confidence_score(c.confidence) <= rank_score(c)
                           /\ rank_score(c) <= confidence_score(c.confidence) + MaxExtra
<1>1. confidence_score(c.confidence) \in Nat
  BY TierScore
<1>2. source_weight(c.source) \in 0..15 /\ Bonus(c.merits) \in 0..40
  BY ExtraBounds
<1>3. Usable(c) =>
        rank_score(c) = confidence_score(c.confidence) + source_weight(c.source) + Bonus(c.merits)
  BY DEF rank_score
<1>4. ~Usable(c) => rank_score(c) = 0
  BY DEF rank_score
<1>5. QED
  BY <1>1, <1>2, <1>3, <1>4 DEF MaxExtra

-----------------------------------------------------------------------------
\* Every set of natural numbers has a least element.
LEMMA LeastElement ==
    ASSUME NEW T \in SUBSET Nat, T # {}
    PROVE  \E m \in T : \A k \in T : m <= k
<1>1. PICK m \in T : \A k \in T : ~(<<k, m>> \in OpToRel(<, Nat))
    BY NatLessThanWellFounded, WFMin
<1>2. \A k \in T : ~(k < m)
    BY <1>1 DEF OpToRel
<1>3. QED
    BY <1>2

(* The first of the best is only one: the choice among any candidates does *)
(* not depend on anything but their scores and their order.                *)
THEOREM BestIsUnique ==
    ASSUME NEW cs, NEW among \in SUBSET Nat,
           NEW i, IsBest(cs, among, i),
           NEW j, IsBest(cs, among, j)
    PROVE  i = j
<1>1. i \in Nat /\ j \in Nat
  BY DEF IsBest
<1>2. rank_score(cs[i]) \in Nat /\ rank_score(cs[j]) \in Nat
  BY ScoreBounds
<1>3. rank_score(cs[i]) <= rank_score(cs[j]) /\ rank_score(cs[j]) <= rank_score(cs[i])
  BY DEF IsBest
<1>4. ~(i < j) /\ ~(j < i)
  BY <1>2, <1>3 DEF IsBest
<1>5. QED
  BY <1>1, <1>4

\* The members of a set of numbers that are not beyond k.
UpTo(among, k) == {j \in among : j <= k}

(* There is one: of any candidates, however many, one is the best.         *)
THEOREM BestExists ==
    ASSUME NEW cs, NEW n \in Nat, NEW among \in SUBSET (1..n), among # {}
    PROVE  \E i \in among : IsBest(cs, among, i)
<1> DEFINE best(k) == \E i \in UpTo(among, k) : IsBest(cs, UpTo(among, k), i)
<1>1. \A k : \A i \in UpTo(among, k) : rank_score(cs[i]) \in Nat /\ i \in 1..n /\ i <= k
  BY ScoreBounds DEF UpTo
<1> HIDE DEF best
<1>2. PICK bad \in SUBSET Nat : bad = {k \in 0..n : UpTo(among, k) # {} /\ ~best(k)}
  <2>1. {k \in 0..n : UpTo(among, k) # {} /\ ~best(k)} \in SUBSET Nat
    OBVIOUS
  <2>2. QED
    BY <2>1
<1>3. bad = {}
  <2> SUFFICES ASSUME bad # {} PROVE FALSE
    OBVIOUS
  <2>1. PICK m \in bad : \A k \in bad : m <= k
    BY LeastElement
  <2>2. m \in 0..n /\ UpTo(among, m) # {} /\ ~best(m)
    BY <1>2, <2>1
  <2>3. m # 0
    <3>1. \A i \in UpTo(among, m) : i \in 1..n /\ i <= m
      BY <1>1
    <3>2. QED
      BY <2>2, <3>1
  <2>4. m - 1 \in 0..n /\ (UpTo(among, m - 1) # {} => best(m - 1))
    <3>1. m - 1 \in 0..n /\ m - 1 < m
      BY <2>2, <2>3
    <3>2. m - 1 \notin bad
      BY <2>1, <2>2, <3>1
    <3>3. QED
      BY <1>2, <3>1, <3>2
  <2>5. \A j \in UpTo(among, m) : j = m \/ j \in UpTo(among, m - 1)
    BY <1>1, <2>2, <2>3 DEF UpTo
  <2>6. \A j \in UpTo(among, m - 1) : j < m /\ j \in UpTo(among, m)
    BY <1>1, <2>2, <2>3 DEF UpTo
  <2>7. CASE m \notin among
    <3>1. UpTo(among, m) = UpTo(among, m - 1)
      BY <2>5, <2>6, <2>7 DEF UpTo
    <3>2. QED
      BY <2>2, <2>4, <3>1 DEF best
  <2>8. CASE m \in among /\ UpTo(among, m - 1) = {}
    <3>1. UpTo(among, m) = {m}
      BY <2>2, <2>5, <2>8 DEF UpTo
    <3>2. IsBest(cs, UpTo(among, m), m)
      BY <1>1, <2>8, <3>1 DEF IsBest
    <3>3. QED
      BY <2>2, <3>1, <3>2 DEF best
  <2>9. CASE m \in among /\ UpTo(among, m - 1) # {}
    <3>1. PICK i \in UpTo(among, m - 1) : IsBest(cs, UpTo(among, m - 1), i)
      BY <2>4, <2>9 DEF best
    <3>2. m \in UpTo(among, m) /\ i \in UpTo(among, m) /\ i < m /\ i \in among
      BY <2>2, <2>6, <2>9, <3>1 DEF UpTo
    <3>3. CASE rank_score(cs[m]) > rank_score(cs[i])
      <4>1. \A j \in UpTo(among, m) : j # m => rank_score(cs[j]) < rank_score(cs[m])
        BY <1>1, <2>5, <3>1, <3>2, <3>3 DEF IsBest
      <4>2. IsBest(cs, UpTo(among, m), m)
        BY <1>1, <2>2, <2>9, <3>2, <4>1 DEF IsBest
      <4>3. QED
        BY <2>2, <3>2, <4>2 DEF best
    <3>4. CASE ~(rank_score(cs[m]) > rank_score(cs[i]))
      <4>1. \A j \in UpTo(among, m) : rank_score(cs[j]) <= rank_score(cs[i])
        BY <1>1, <2>5, <2>9, <3>1, <3>2, <3>4 DEF IsBest
      <4>2. \A j \in UpTo(among, m) : j < i => rank_score(cs[j]) < rank_score(cs[i])
        BY <1>1, <2>2, <2>5, <3>1, <3>2 DEF IsBest
      <4>3. IsBest(cs, UpTo(among, m), i)
        BY <3>2, <4>1, <4>2 DEF IsBest
      <4>4. QED
        BY <2>2, <3>2, <4>3 DEF best
    <3>5. QED
      BY <3>3, <3>4
  <2>10. QED
    BY <2>7, <2>8, <2>9
<1>4. UpTo(among, n) = among /\ n \in 0..n
  <2>1. \A j \in among : j <= n
    OBVIOUS
  <2>2. UpTo(among, n) = among
    BY <2>1 DEF UpTo
  <2>3. QED
    BY <2>2
<1>5. QED
  BY <1>2, <1>3, <1>4 DEF best

(* No source and no merit lifts a link of a tier over one whose tier's     *)
(* score is more than 55 higher: with the default scores 100, 70, 40 and 0 *)
(* a search guess in the low tier never replaces a link that was found on  *)
(* the business's own website.                                             *)
THEOREM FarTierWins ==
    ASSUME NEW cs, NEW among,
           NEW i, IsBest(cs, among, i), Usable(cs[i]),
           NEW j \in among, Usable(cs[j])
    PROVE  confidence_score(cs[j].confidence) <= confidence_score(cs[i].confidence) + MaxExtra
<1>1. rank_score(cs[j]) <= rank_score(cs[i])
  BY DEF IsBest
<1>2. confidence_score(cs[j].confidence) <= rank_score(cs[j])
  BY ScoreBounds
<1>3. rank_score(cs[i]) <= confidence_score(cs[i].confidence) + MaxExtra
  BY ScoreBounds
<1>4. /\ rank_score(cs[i]) \in Nat /\ rank_score(cs[j]) \in Nat
      /\ confidence_score(cs[i].confidence) \in Nat
      /\ confidence_score(cs[j].confidence) \in Nat
  BY ScoreBounds, TierScore
<1>5. QED
  BY <1>1, <1>2, <1>3, <1>4 DEF MaxExtra

(* In particular a low link is never selected over a high one, whatever    *)
(* they are worth otherwise, if the scores are set far enough apart.       *)
COROLLARY LowNeverBeatsHigh ==
    ASSUME ScoreHigh > ScoreLow + MaxExtra,
           NEW cs, NEW among,
           NEW i, IsBest(cs, among, i), Usable(cs[i]),
           NEW j \in among, Usable(cs[j]), cs[j].confidence = "high"
    PROVE  cs[i].confidence # "low"
<1> SUFFICES ASSUME cs[i].confidence = "low" PROVE FALSE
  OBVIOUS
<1>1. confidence_score(cs[j].confidence) = ScoreHigh
  BY DEF confidence_score
<1>2. confidence_score(cs[i].confidence) = ScoreLow
  BY DEF confidence_score
<1>3. ScoreHigh <= ScoreLow + MaxExtra
  BY <1>1, <1>2, FarTierWins
<1>4. QED
  BY <1>3, ScoresAssumption DEF MaxExtra
-----------------------------------------------------------------------------
(* The loop of deduplicate(), as a function of how far it has come: there  *)
(* is one for any list of candidates.                                      *)
Start == [kept |-> << >>, duplicates |-> 0]

IsLoop(cs, n, f) == f = [i \in 0..n |-> IF i = 0 THEN Start ELSE Merge(f[i - 1], cs[i])]

LEMMA LoopExists ==
    ASSUME NEW cs, NEW n \in Nat
    PROVE  \E f : IsLoop(cs, n, f)
<1> DEFINE good(k) == \E f : IsLoop(cs, k, f)
<1> HIDE DEF good
<1>1. PICK bad \in SUBSET Nat : bad = {k \in Nat : ~good(k)}
  <2>1. {k \in Nat : ~good(k)} \in SUBSET Nat
    OBVIOUS
  <2>2. QED
    BY <2>1
<1>2. good(0)
  <2>1. IsLoop(cs, 0, [i \in 0..0 |-> Start])
    BY DEF IsLoop
  <2>2. QED
    BY <2>1 DEF good
<1>3. ASSUME NEW k \in Nat, good(k) PROVE good(k + 1)
  <2>1. PICK f : IsLoop(cs, k, f)
    BY <1>3 DEF good
  <2>2. PICK g : g = [i \in 0..(k + 1) |-> IF i = k + 1 THEN Merge(f[k], cs[k + 1]) ELSE f[i]]
    OBVIOUS
  <2>3. ASSUME NEW i \in 0..(k + 1)
        PROVE  g[i] = IF i = 0 THEN Start ELSE Merge(g[i - 1], cs[i])
    <3>1. CASE i = k + 1
      <4>1. i # 0 /\ i - 1 = k /\ k \in 0..(k + 1) /\ k # k + 1
        BY <3>1
      <4>2. g[i] = Merge(f[k], cs[k + 1]) /\ g[k] = f[k]
        BY <2>2, <3>1, <4>1
      <4>3. QED
        BY <3>1, <4>1, <4>2
    <3>2. CASE i = 0
      BY <2>1, <2>2, <3>2 DEF IsLoop
    <3>3. CASE i \in 1..k
      <4>1. i - 1 \in 0..(k + 1) /\ i - 1 # k + 1 /\ i # k + 1 /\ i # 0 /\ i \in 0..k
        BY <3>3
      <4>2. g[i] = f[i] /\ g[i - 1] = f[i - 1]
        BY <2>2, <4>1
      <4>3. f[i] = Merge(f[i - 1], cs[i])
        BY <2>1, <4>1 DEF IsLoop
      <4>4. QED
        BY <4>1, <4>2, <4>3
    <3>4. i = k + 1 \/ i = 0 \/ i \in 1..k
      OBVIOUS
    <3>5. QED
      BY <3>1, <3>2, <3>3, <3>4
  <2>4. g = [i \in 0..(k + 1) |-> IF i = 0 THEN Start ELSE Merge(g[i - 1], cs[i])]
    BY <2>2, <2>3
  <2>5. QED
    BY <2>4 DEF good, IsLoop
<1>4. bad = {}
  <2> SUFFICES ASSUME bad # {} PROVE FALSE
    OBVIOUS
  <2>1. PICK m \in bad : \A k \in bad : m <= k
    BY LeastElement
  <2>2. m \in Nat /\ ~good(m)
    BY <1>1, <2>1
  <2>3. m - 1 \in Nat /\ m - 1 < m /\ (m - 1) + 1 = m
    BY <1>2, <2>2
  <2>4. m - 1 \notin bad
    BY <2>1, <2>2, <2>3
  <2>5. good(m - 1)
    BY <1>1, <2>3, <2>4
  <2>6. good((m - 1) + 1)
    BY <1>3, <2>3, <2>5
  <2>7. QED
    BY <2>2, <2>3, <2>6
<1>5. QED
  BY <1>1, <1>4 DEF good

\* deduplicate() is where such a loop ends.
LEMMA LoopEnds ==
    ASSUME NEW S, NEW cs \in Seq(S)
    PROVE  \E f : IsLoop(cs, Len(cs), f) /\ deduplicate(cs) = f[Len(cs)]
<1>1. PICK f : f = CHOOSE g : IsLoop(cs, Len(cs), g)
  OBVIOUS
<1>2. IsLoop(cs, Len(cs), f)
  BY <1>1, LoopExists
<1>3. deduplicate(cs) = f[Len(cs)]
  BY <1>1 DEF deduplicate, IsLoop, Start
<1>4. QED
  BY <1>2, <1>3

(* What one turn does: it sets the candidate aside, appends it, or lets it *)
(* take the place of its like if it is better.                             *)
Shape(S) == [kept : Seq(S), duplicates : Nat]

LEMMA TurnAside == ASSUME NEW d, NEW c, ~Usable(c) PROVE Merge(d, c) = d
  BY DEF Merge

LEMMA TurnNew ==
    ASSUME NEW S, NEW d \in Shape(S), NEW c \in S, Usable(c), Same(d.kept, c) = {}
    PROVE  /\ Merge(d, c) \in Shape(S)
           /\ Merge(d, c).duplicates = d.duplicates
           /\ Len(Merge(d, c).kept) = Len(d.kept) + 1
           /\ Merge(d, c).kept[Len(d.kept) + 1] = c
           /\ \A j \in 1..Len(d.kept) :
                Merge(d, c).kept[j] = d.kept[j] /\ Key(d.kept[j]) # Key(c)
<1>1. Merge(d, c) = [d EXCEPT !.kept = Append(@, c)]
  BY DEF Merge
<1>2. Merge(d, c) = [kept |-> Append(d.kept, c), duplicates |-> d.duplicates]
  BY <1>1 DEF Shape
<1>3. d.kept \in Seq(S) /\ d.duplicates \in Nat
  BY DEF Shape
<1>4. \A j \in 1..Len(d.kept) : Key(d.kept[j]) # Key(c)
  BY DEF Same
<1>5. QED
  BY <1>2, <1>3, <1>4 DEF Shape

LEMMA TurnAgain ==
    ASSUME NEW S, NEW d \in Shape(S), NEW c \in S, Usable(c), Same(d.kept, c) # {}
    PROVE  /\ Merge(d, c) \in Shape(S)
           /\ Merge(d, c).duplicates = d.duplicates + 1
           /\ Len(Merge(d, c).kept) = Len(d.kept)
           /\ \A j \in 1..Len(d.kept) :
                /\ Merge(d, c).kept[j] \in {d.kept[j], c}
                /\ Key(Merge(d, c).kept[j]) = Key(d.kept[j])
                /\ rank_score(d.kept[j]) <= rank_score(Merge(d, c).kept[j])
           /\ \E j \in Same(d.kept, c) : rank_score(c) <= rank_score(Merge(d, c).kept[j])
<1> DEFINE better(i) == i \in Same(d.kept, c) /\ rank_score(c) > rank_score(d.kept[i])
           news == [i \in 1..Len(d.kept) |-> IF better(i) THEN c ELSE d.kept[i]]
<1>1. Merge(d, c) = [kept |-> news, duplicates |-> d.duplicates + 1]
  BY DEF Merge
<1>2. d.kept \in Seq(S) /\ d.duplicates \in Nat
  BY DEF Shape
<1>3. Len(d.kept) \in Nat /\ \A j \in 1..Len(d.kept) : d.kept[j] \in S
  BY <1>2
<1>4. news \in Seq(S) /\ Len(news) = Len(d.kept)
  <2>1. news \in [1..Len(d.kept) -> S]
    BY <1>3
  <2>2. QED
    BY <1>3, <2>1, LenProperties
<1>5. rank_score(c) \in Nat /\ \A j \in 1..Len(d.kept) : rank_score(d.kept[j]) \in Nat
  BY ScoreBounds
<1>6. ASSUME NEW j \in 1..Len(d.kept)
      PROVE  /\ news[j] \in {d.kept[j], c}
             /\ Key(news[j]) = Key(d.kept[j])
             /\ rank_score(d.kept[j]) <= rank_score(news[j])
             /\ j \in Same(d.kept, c) => rank_score(c) <= rank_score(news[j])
  BY <1>5, <1>6 DEF Same
<1>7. Same(d.kept, c) \subseteq 1..Len(d.kept)
  BY DEF Same
<1>8. \E j \in Same(d.kept, c) : rank_score(c) <= rank_score(news[j])
  BY <1>6, <1>7
<1>9. QED
  <2> HIDE DEF news, better
  <2>1. Merge(d, c).kept = news /\ Merge(d, c).duplicates = d.duplicates + 1
    BY <1>1
  <2>2. Merge(d, c) \in Shape(S)
    BY <1>1, <1>2, <1>4 DEF Shape
  <2>3. QED
    BY <1>4, <1>6, <1>8, <2>1, <2>2
-----------------------------------------------------------------------------
(* What deduplicate() has kept of the first n candidates: one of each key, *)
(* the best that was mentioned, in the order of the first mentions, and    *)
(* every other candidate is counted.                                       *)
KeptOnes(S, cs, n, d) ==
    /\ d \in Shape(S)
    /\ \A j \in 1..Len(d.kept) : Usable(d.kept[j]) /\ \E a \in 1..n : d.kept[j] = cs[a]
    /\ \A j, k \in 1..Len(d.kept) : Key(d.kept[j]) = Key(d.kept[k]) => j = k

KeptBest(cs, n, d) ==
    \A a \in 1..n : Usable(cs[a]) =>
        \E j \in 1..Len(d.kept) :
            Key(d.kept[j]) = Key(cs[a]) /\ rank_score(cs[a]) <= rank_score(d.kept[j])

KeptInOrder(cs, n, d) ==
    \A j, k \in 1..Len(d.kept) : j < k =>
        \E a \in 1..n :
            /\ Key(cs[a]) = Key(d.kept[j])
            /\ \A b \in 1..n : Key(cs[b]) = Key(d.kept[k]) => a < b

SetAside(cs, n) == {a \in 1..n : ~Usable(cs[a])}

Counted(cs, n, d) == Cardinality(SetAside(cs, n)) + d.duplicates + Len(d.kept) = n

Fits(S, cs, n, d) ==
    KeptOnes(S, cs, n, d) /\ KeptBest(cs, n, d) /\ KeptInOrder(cs, n, d) /\ Counted(cs, n, d)

\* Two candidates with one key have one URL.
LEMMA KeyTellsUrl ==
    ASSUME NEW c, NEW e, Key(c) = Key(e)
    PROVE  c.platform = e.platform /\ c.normalized_url = e.normalized_url /\ (Usable(c) <=> Usable(e))
  BY DEF Key, Usable

\* How many are set aside, one candidate later.
LEMMA AsideCount ==
    ASSUME NEW cs, NEW n \in Nat \ {0}
    PROVE  /\ Cardinality(SetAside(cs, n - 1)) \in Nat
           /\ Cardinality(SetAside(cs, n)) =
                Cardinality(SetAside(cs, n - 1)) + (IF Usable(cs[n]) THEN 0 ELSE 1)
<1>1. IsFiniteSet(1..(n - 1))
  BY FS_Interval
<1>2. SetAside(cs, n - 1) \subseteq 1..(n - 1)
  BY DEF SetAside
<1>3. IsFiniteSet(SetAside(cs, n - 1))
  BY <1>1, <1>2, FS_Subset
<1>4. CASE Usable(cs[n])
  <2>1. SetAside(cs, n) = SetAside(cs, n - 1)
    BY <1>4 DEF SetAside
  <2>2. QED
    BY <1>3, <1>4, <2>1, FS_CardinalityType
<1>5. CASE ~Usable(cs[n])
  <2>1. SetAside(cs, n) = SetAside(cs, n - 1) \cup {n}
    BY <1>5 DEF SetAside
  <2>2. n \notin SetAside(cs, n - 1)
    BY DEF SetAside
  <2>3. QED
    BY <1>3, <1>5, <2>1, <2>2, FS_CardinalityType, FS_AddElement
<1>6. QED
  BY <1>4, <1>5

LEMMA AsideKeepsFit ==
    ASSUME NEW S, NEW cs \in Seq(S), NEW n \in 1..Len(cs), NEW d,
           Fits(S, cs, n - 1, d), ~Usable(cs[n])
    PROVE  Fits(S, cs, n, Merge(d, cs[n]))
<1>1. Merge(d, cs[n]) = d
  BY TurnAside
<1>2. n \in Nat \ {0} /\ n - 1 \in Nat /\ \A a : a \in 1..n <=> a \in 1..(n - 1) \/ a = n
  OBVIOUS
<1>3. d \in Shape(S) /\ Len(d.kept) \in Nat /\ d.duplicates \in Nat
  BY DEF Fits, KeptOnes, Shape
<1>4. KeptOnes(S, cs, n, d)
  BY <1>2 DEF Fits, KeptOnes
<1>5. KeptBest(cs, n, d)
  BY <1>2 DEF Fits, KeptBest
<1>6. KeptInOrder(cs, n, d)
  <2>1. \A k \in 1..Len(d.kept) : Key(cs[n]) # Key(d.kept[k])
    BY KeyTellsUrl DEF Fits, KeptOnes
  <2>2. QED
    BY <1>2, <2>1 DEF Fits, KeptInOrder
<1>7. Counted(cs, n, d)
  <2>1. /\ Cardinality(SetAside(cs, n - 1)) \in Nat
        /\ Cardinality(SetAside(cs, n)) = Cardinality(SetAside(cs, n - 1)) + 1
    BY <1>2, AsideCount
  <2>2. Cardinality(SetAside(cs, n - 1)) + d.duplicates + Len(d.kept) = n - 1
    BY DEF Fits, Counted
  <2>3. Cardinality(SetAside(cs, n)) + d.duplicates + Len(d.kept) = n
    <3>1. PICK a, b, x, y : /\ a = Cardinality(SetAside(cs, n - 1)) /\ b = Cardinality(SetAside(cs, n))
                            /\ x = d.duplicates /\ y = Len(d.kept)
      OBVIOUS
    <3>2. a \in Nat /\ b = a + 1 /\ a + x + y = n - 1
      BY <2>1, <2>2, <3>1
    <3>3. n \in Nat /\ x \in Nat /\ y \in Nat
      BY <1>2, <1>3, <3>1
    <3>4. b + x + y = n
      BY <3>2, <3>3
    <3>5. QED
      BY <3>1, <3>4
  <2>4. QED
    BY <2>3 DEF Counted
<1>8. QED
  BY <1>1, <1>4, <1>5, <1>6, <1>7 DEF Fits

LEMMA NewKeepsFit ==
    ASSUME NEW S, NEW cs \in Seq(S), NEW n \in 1..Len(cs), NEW d,
           Fits(S, cs, n - 1, d), Usable(cs[n]), Same(d.kept, cs[n]) = {}
    PROVE  Fits(S, cs, n, Merge(d, cs[n]))
<1>1. PICK e, m : e = Merge(d, cs[n]) /\ m = Len(d.kept)
  OBVIOUS
<1>2. n \in Nat \ {0} /\ n - 1 \in Nat /\ \A a : a \in 1..n <=> a \in 1..(n - 1) \/ a = n
  OBVIOUS
<1>3. d \in Shape(S) /\ m \in Nat /\ d.duplicates \in Nat /\ cs[n] \in S
  BY <1>1 DEF Fits, KeptOnes, Shape
<1>4. /\ e \in Shape(S) /\ e.duplicates = d.duplicates
      /\ Len(e.kept) = m + 1 /\ e.kept[m + 1] = cs[n]
      /\ \A j \in 1..m : e.kept[j] = d.kept[j] /\ Key(d.kept[j]) # Key(cs[n])
  BY <1>1, <1>3, TurnNew
<1>5. \A j : j \in 1..(m + 1) <=> j \in 1..m \/ j = m + 1
  BY <1>3
<1>6. KeptOnes(S, cs, n, e)
  <2>1. \A j \in 1..(m + 1) : Usable(e.kept[j]) /\ \E a \in 1..n : e.kept[j] = cs[a]
    BY <1>1, <1>2, <1>4, <1>5 DEF Fits, KeptOnes
  <2>2. ASSUME NEW j \in 1..(m + 1), NEW k \in 1..(m + 1), Key(e.kept[j]) = Key(e.kept[k])
        PROVE  j = k
    <3>1. CASE j = m + 1 \/ k = m + 1
      BY <1>4, <1>5, <2>2, <3>1
    <3>2. CASE j \in 1..m /\ k \in 1..m
      <4>1. Key(d.kept[j]) = Key(d.kept[k])
        BY <1>4, <2>2, <3>2
      <4>2. QED
        BY <1>1, <3>2, <4>1 DEF Fits, KeptOnes
    <3>3. QED
      BY <1>5, <3>1, <3>2
  <2>3. QED
    BY <1>4, <2>1, <2>2 DEF KeptOnes
<1>7. KeptBest(cs, n, e)
  <2>1. rank_score(cs[n]) \in Nat
    BY ScoreBounds
  <2>2. ASSUME NEW a \in 1..n, Usable(cs[a])
        PROVE  \E j \in 1..(m + 1) :
                Key(e.kept[j]) = Key(cs[a]) /\ rank_score(cs[a]) <= rank_score(e.kept[j])
    <3>1. CASE a = n
      BY <1>3, <1>4, <2>1, <3>1
    <3>2. CASE a \in 1..(n - 1)
      <4>1. PICK j \in 1..m : Key(d.kept[j]) = Key(cs[a]) /\ rank_score(cs[a]) <= rank_score(d.kept[j])
        BY <1>1, <2>2, <3>2 DEF Fits, KeptBest
      <4>2. QED
        BY <1>4, <1>5, <4>1
    <3>3. QED
      BY <1>2, <3>1, <3>2
  <2>3. QED
    BY <1>4, <2>2 DEF KeptBest
<1>8. KeptInOrder(cs, n, e)
  <2>1. ASSUME NEW j \in 1..(m + 1), NEW k \in 1..(m + 1), j < k
        PROVE  \E a \in 1..n :
                /\ Key(cs[a]) = Key(e.kept[j])
                /\ \A b \in 1..n : Key(cs[b]) = Key(e.kept[k]) => a < b
    <3>1. j \in 1..m /\ e.kept[j] = d.kept[j]
      BY <1>3, <1>4, <2>1
    <3>2. CASE k = m + 1
      <4>1. PICK a \in 1..(n - 1) : d.kept[j] = cs[a]
        BY <1>1, <3>1 DEF Fits, KeptOnes
      <4>2. ASSUME NEW b \in 1..(n - 1) PROVE Key(cs[b]) # Key(cs[n])
        <5>1. CASE Usable(cs[b])
          BY <1>1, <1>4, <5>1 DEF Fits, KeptBest
        <5>2. CASE ~Usable(cs[b])
          BY <5>2, KeyTellsUrl
        <5>3. QED
          BY <5>1, <5>2
      <4>3. QED
        BY <1>2, <1>4, <3>1, <3>2, <4>1, <4>2
    <3>3. CASE k \in 1..m
      <4>1. PICK a \in 1..(n - 1) :
                /\ Key(cs[a]) = Key(d.kept[j])
                /\ \A b \in 1..(n - 1) : Key(cs[b]) = Key(d.kept[k]) => a < b
        BY <1>1, <2>1, <3>1, <3>3 DEF Fits, KeptInOrder
      <4>2. e.kept[k] = d.kept[k] /\ Key(d.kept[k]) # Key(cs[n])
        BY <1>4, <3>3
      <4>3. QED
        BY <1>2, <3>1, <4>1, <4>2
    <3>4. QED
      BY <1>5, <3>2, <3>3
  <2>2. QED
    BY <1>4, <2>1 DEF KeptInOrder
<1>9. Counted(cs, n, e)
  <2>1. /\ Cardinality(SetAside(cs, n - 1)) \in Nat
        /\ Cardinality(SetAside(cs, n)) = Cardinality(SetAside(cs, n - 1)) + 0
    BY <1>2, AsideCount
  <2>2. Cardinality(SetAside(cs, n - 1)) + d.duplicates + m = n - 1
    BY <1>1 DEF Fits, Counted
  <2>3. Cardinality(SetAside(cs, n)) + e.duplicates + Len(e.kept) = n
    <3> DEFINE a == Cardinality(SetAside(cs, n - 1))
    <3> HIDE DEF a
    <3>1. a \in Nat /\ Cardinality(SetAside(cs, n)) = a + 0 /\ a + d.duplicates + m = n - 1
      BY <2>1, <2>2 DEF a
    <3>2. e.duplicates = d.duplicates /\ Len(e.kept) = m + 1
      BY <1>4
    <3>3. n \in Nat /\ d.duplicates \in Nat /\ m \in Nat
      BY <1>2, <1>3
    <3>4. QED
      BY <3>1, <3>2, <3>3
  <2>4. QED
    BY <2>3 DEF Counted
<1>10. QED
  BY <1>1, <1>6, <1>7, <1>8, <1>9 DEF Fits

LEMMA AgainKeepsFit ==
    ASSUME NEW S, NEW cs \in Seq(S), NEW n \in 1..Len(cs), NEW d,
           Fits(S, cs, n - 1, d), Usable(cs[n]), Same(d.kept, cs[n]) # {}
    PROVE  Fits(S, cs, n, Merge(d, cs[n]))
<1>1. PICK e, m : e = Merge(d, cs[n]) /\ m = Len(d.kept)
  OBVIOUS
<1>2. n \in Nat \ {0} /\ n - 1 \in Nat /\ \A a : a \in 1..n <=> a \in 1..(n - 1) \/ a = n
  OBVIOUS
<1>3. d \in Shape(S) /\ m \in Nat /\ d.duplicates \in Nat /\ cs[n] \in S
  BY <1>1 DEF Fits, KeptOnes, Shape
<1>4. /\ e \in Shape(S) /\ e.duplicates = d.duplicates + 1 /\ Len(e.kept) = m
      /\ \A j \in 1..m :
            /\ e.kept[j] \in {d.kept[j], cs[n]}
            /\ Key(e.kept[j]) = Key(d.kept[j])
            /\ rank_score(d.kept[j]) <= rank_score(e.kept[j])
  BY <1>1, <1>3, TurnAgain
<1>5. PICK h \in 1..m : Key(d.kept[h]) = Key(cs[n]) /\ rank_score(cs[n]) <= rank_score(e.kept[h])
  <2>1. \E j \in Same(d.kept, cs[n]) : rank_score(cs[n]) <= rank_score(e.kept[j])
    BY <1>1, <1>3, TurnAgain
  <2>2. QED
    BY <1>1, <2>1 DEF Same
<1>6. KeptOnes(S, cs, n, e)
  <2>1. ASSUME NEW j \in 1..m
        PROVE  Usable(e.kept[j]) /\ \E a \in 1..n : e.kept[j] = cs[a]
    <3>1. CASE e.kept[j] = cs[n]
      BY <1>2, <3>1
    <3>2. CASE e.kept[j] = d.kept[j]
      BY <1>1, <1>2, <3>2 DEF Fits, KeptOnes
    <3>3. QED
      BY <1>4, <3>1, <3>2
  <2>2. \A j, k \in 1..m : Key(e.kept[j]) = Key(e.kept[k]) => j = k
    BY <1>1, <1>4 DEF Fits, KeptOnes
  <2>3. QED
    BY <1>4, <2>1, <2>2 DEF KeptOnes
<1>7. KeptBest(cs, n, e)
  <2>1. ASSUME NEW a \in 1..n, Usable(cs[a])
        PROVE  \E j \in 1..m :
                Key(e.kept[j]) = Key(cs[a]) /\ rank_score(cs[a]) <= rank_score(e.kept[j])
    <3>1. CASE a = n
      BY <1>4, <1>5, <3>1
    <3>2. CASE a \in 1..(n - 1)
      <4>1. PICK j \in 1..m : Key(d.kept[j]) = Key(cs[a]) /\ rank_score(cs[a]) <= rank_score(d.kept[j])
        BY <1>1, <2>1, <3>2 DEF Fits, KeptBest
      <4>2. /\ rank_score(cs[a]) \in Nat /\ rank_score(d.kept[j]) \in Nat
            /\ rank_score(e.kept[j]) \in Nat
        BY ScoreBounds
      <4>3. QED
        BY <1>4, <4>1, <4>2
    <3>3. QED
      BY <1>2, <3>1, <3>2
  <2>2. QED
    BY <1>4, <2>1 DEF KeptBest
<1>8. KeptInOrder(cs, n, e)
  <2>1. ASSUME NEW j \in 1..m, NEW k \in 1..m, j < k
        PROVE  \E a \in 1..n :
                /\ Key(cs[a]) = Key(e.kept[j])
                /\ \A b \in 1..n : Key(cs[b]) = Key(e.kept[k]) => a < b
    <3>1. PICK a \in 1..(n - 1) :
                /\ Key(cs[a]) = Key(d.kept[j])
                /\ \A b \in 1..(n - 1) : Key(cs[b]) = Key(d.kept[k]) => a < b
      BY <1>1, <2>1 DEF Fits, KeptInOrder
    <3>2. a \in 1..n /\ a < n
      OBVIOUS
    <3>3. QED
      BY <1>2, <1>4, <3>1, <3>2
  <2>2. QED
    BY <1>4, <2>1 DEF KeptInOrder
<1>9. Counted(cs, n, e)
  <2>1. /\ Cardinality(SetAside(cs, n - 1)) \in Nat
        /\ Cardinality(SetAside(cs, n)) = Cardinality(SetAside(cs, n - 1)) + 0
    BY <1>2, AsideCount
  <2>2. Cardinality(SetAside(cs, n - 1)) + d.duplicates + m = n - 1
    BY <1>1 DEF Fits, Counted
  <2>3. Cardinality(SetAside(cs, n)) + e.duplicates + Len(e.kept) = n
    <3> DEFINE a == Cardinality(SetAside(cs, n - 1))
    <3> HIDE DEF a
    <3>1. a \in Nat /\ Cardinality(SetAside(cs, n)) = a + 0 /\ a + d.duplicates + m = n - 1
      BY <2>1, <2>2 DEF a
    <3>2. e.duplicates = d.duplicates + 1 /\ Len(e.kept) = m
      BY <1>4
    <3>3. n \in Nat /\ d.duplicates \in Nat /\ m \in Nat
      BY <1>2, <1>3
    <3>4. QED
      BY <3>1, <3>2, <3>3
  <2>4. QED
    BY <2>3 DEF Counted
<1>10. QED
  BY <1>1, <1>6, <1>7, <1>8, <1>9 DEF Fits

(* Of any list of candidates, deduplicate() keeps what Fits says.          *)
LEMMA DeduplicateFits ==
    ASSUME NEW S, NEW cs \in Seq(S)
    PROVE  Fits(S, cs, Len(cs), deduplicate(cs))
<1>1. PICK f : IsLoop(cs, Len(cs), f) /\ deduplicate(cs) = f[Len(cs)]
  BY LoopEnds
<1>2. Len(cs) \in Nat
  OBVIOUS
<1>3. PICK bad \in SUBSET Nat : bad = {k \in 0..Len(cs) : ~Fits(S, cs, k, f[k])}
  <2>1. {k \in 0..Len(cs) : ~Fits(S, cs, k, f[k])} \in SUBSET Nat
    OBVIOUS
  <2>2. QED
    BY <2>1
<1>4. Fits(S, cs, 0, f[0])
  <2>1. f[0] = Start
    BY <1>1, <1>2 DEF IsLoop
  <2>2. Start \in Shape(S) /\ Len(Start.kept) = 0 /\ Start.duplicates = 0
    BY DEF Start, Shape
  <2>3. SetAside(cs, 0) = {}
    BY DEF SetAside
  <2>4. Cardinality(SetAside(cs, 0)) = 0
    BY <2>3, FS_EmptySet
  <2>5. QED
    BY <2>1, <2>2, <2>4 DEF Fits, KeptOnes, KeptBest, KeptInOrder, Counted
<1>5. ASSUME NEW k \in 1..Len(cs), Fits(S, cs, k - 1, f[k - 1]) PROVE Fits(S, cs, k, f[k])
  <2>1. f[k] = Merge(f[k - 1], cs[k])
    BY <1>1, <1>2 DEF IsLoop
  <2>2. QED
    BY <1>5, <2>1, AsideKeepsFit, NewKeepsFit, AgainKeepsFit
<1>6. bad = {}
  <2> SUFFICES ASSUME bad # {} PROVE FALSE
    OBVIOUS
  <2>1. PICK m \in bad : \A k \in bad : m <= k
    BY LeastElement
  <2>2. m \in 0..Len(cs) /\ ~Fits(S, cs, m, f[m])
    BY <1>3, <2>1
  <2>3. m \in 1..Len(cs) /\ m - 1 \in 0..Len(cs) /\ m - 1 < m
    BY <1>2, <1>4, <2>2
  <2>4. m - 1 \notin bad
    BY <2>1, <2>2, <2>3
  <2>5. Fits(S, cs, m - 1, f[m - 1])
    BY <1>3, <2>3, <2>4
  <2>6. QED
    BY <1>5, <2>2, <2>3, <2>5
<1>7. Len(cs) \in 0..Len(cs)
  BY <1>2
<1>8. QED
  BY <1>1, <1>3, <1>6, <1>7
-----------------------------------------------------------------------------
(* The best of a URL's mentions is the one deduplicate() keeps.            *)
LEMMA TopPlace ==
    ASSUME NEW S, NEW cs \in Seq(S), NEW d, Fits(S, cs, Len(cs), d),
           NEW j \in 1..Len(d.kept), NEW p, NEW u, Key(d.kept[j]) = <<p, u>>
    PROVE  \E a \in PlacesOf(cs, p, u) :
                /\ cs[a] = d.kept[j]
                /\ \A b \in PlacesOf(cs, p, u) : rank_score(cs[b]) <= rank_score(cs[a])
<1>1. PICK a \in 1..Len(cs) : d.kept[j] = cs[a]
  BY DEF Fits, KeptOnes
<1>2. a \in PlacesOf(cs, p, u)
  BY <1>1 DEF PlacesOf
<1>3. ASSUME NEW b \in PlacesOf(cs, p, u) PROVE rank_score(cs[b]) <= rank_score(d.kept[j])
  <2>1. b \in 1..Len(cs) /\ Key(cs[b]) = Key(d.kept[j])
    BY DEF PlacesOf
  <2>2. Usable(cs[b])
    BY <2>1, KeyTellsUrl DEF Fits, KeptOnes
  <2>3. PICK k \in 1..Len(d.kept) :
            Key(d.kept[k]) = Key(cs[b]) /\ rank_score(cs[b]) <= rank_score(d.kept[k])
    BY <2>1, <2>2 DEF Fits, KeptBest
  <2>4. k = j
    BY <2>1, <2>3 DEF Fits, KeptOnes
  <2>5. QED
    BY <2>3, <2>4
<1>4. QED
  BY <1>1, <1>2, <1>3

\* A URL that is mentioned at all is mentioned a first time.
LEMMA FirstPlace ==
    ASSUME NEW cs, NEW p, NEW u, PlacesOf(cs, p, u) # {}
    PROVE  \E a \in PlacesOf(cs, p, u) : \A b \in PlacesOf(cs, p, u) : a <= b
<1>1. PlacesOf(cs, p, u) \in SUBSET Nat
  BY DEF PlacesOf
<1>2. QED
  BY <1>1, LeastElement

\* The URLs of a platform are those that deduplicate() keeps of it.
LEMMA UrlsKept ==
    ASSUME NEW S, NEW cs \in Seq(S), NEW d, Fits(S, cs, Len(cs), d), NEW p
    PROVE  UrlsOf(cs, p) = {d.kept[j].normalized_url : j \in Of(d.kept, p)}
<1>1. ASSUME NEW u \in UrlsOf(cs, p)
      PROVE  \E j \in Of(d.kept, p) : u = d.kept[j].normalized_url
  <2>1. PICK a \in 1..Len(cs) : cs[a].platform = p /\ cs[a].normalized_url = u /\ u # "none"
    BY DEF UrlsOf
  <2>2. Usable(cs[a])
    BY <2>1 DEF Usable
  <2>3. PICK j \in 1..Len(d.kept) : Key(d.kept[j]) = Key(cs[a])
    BY <2>1, <2>2 DEF Fits, KeptBest
  <2>4. d.kept[j].platform = p /\ d.kept[j].normalized_url = u /\ Usable(d.kept[j])
    BY <2>1, <2>2, <2>3, KeyTellsUrl
  <2>5. QED
    BY <2>4 DEF Of
<1>2. ASSUME NEW j \in Of(d.kept, p) PROVE d.kept[j].normalized_url \in UrlsOf(cs, p)
  <2>1. j \in 1..Len(d.kept) /\ Usable(d.kept[j]) /\ d.kept[j].platform = p
    BY DEF Of
  <2>2. PICK a \in 1..Len(cs) : d.kept[j] = cs[a]
    BY <2>1 DEF Fits, KeptOnes
  <2>3. QED
    BY <2>1, <2>2 DEF UrlsOf, Usable
<1>3. QED
  BY <1>1, <1>2

\* What select() takes for a platform.
LEMMA TakesBest ==
    ASSUME NEW S, NEW cs \in Seq(S), NEW d, d = deduplicate(cs), d \in Shape(S),
           NEW p \in Platforms
    PROVE  /\ Of(d.kept, p) = {} => select(cs)[p] = "none"
           /\ Of(d.kept, p) # {} =>
                \E i \in Of(d.kept, p) :
                    IsBest(d.kept, Of(d.kept, p), i) /\ select(cs)[p] = d.kept[i].normalized_url
<1>1. select(cs)[p] = IF Of(d.kept, p) = {} THEN "none"
                      ELSE Best(d.kept, Of(d.kept, p)).normalized_url
  BY DEF select
<1>2. ASSUME Of(d.kept, p) # {}
      PROVE  \E i \in Of(d.kept, p) :
                IsBest(d.kept, Of(d.kept, p), i) /\ Best(d.kept, Of(d.kept, p)) = d.kept[i]
  <2>1. Of(d.kept, p) \in SUBSET (1..Len(d.kept)) /\ Len(d.kept) \in Nat
    BY DEF Of, Shape
  <2>2. \E i \in Of(d.kept, p) : IsBest(d.kept, Of(d.kept, p), i)
    BY <1>2, <2>1, BestExists
  <2>3. PICK i : i = CHOOSE k \in Of(d.kept, p) : IsBest(d.kept, Of(d.kept, p), k)
    OBVIOUS
  <2>4. i \in Of(d.kept, p) /\ IsBest(d.kept, Of(d.kept, p), i)
    BY <2>2, <2>3
  <2>5. Best(d.kept, Of(d.kept, p)) = d.kept[i]
    BY <2>3 DEF Best
  <2>6. QED
    BY <2>4, <2>5
<1>3. QED
  BY <1>1, <1>2

(* "Exactly one Instagram URL and one Facebook URL": of any list of        *)
(* candidates, however long, select() takes for each platform the URL      *)
(* whose best mention scores highest, in a draw the one mentioned first,   *)
(* and none only if there is no usable one.                                *)
THEOREM ChoiceAlwaysBest ==
    ASSUME NEW S, NEW cs \in Seq(S)
    PROVE  ChoiceIsBest(cs)
<1>1. PICK d : d = deduplicate(cs) /\ Fits(S, cs, Len(cs), d)
  BY DeduplicateFits
<1>2. d \in Shape(S) /\ Len(d.kept) \in Nat
  BY <1>1 DEF Fits, KeptOnes, Shape
<1>3. ASSUME NEW p \in Platforms, UrlsOf(cs, p) = {} PROVE select(cs)[p] = "none"
  <2>1. UrlsOf(cs, p) = {d.kept[j].normalized_url : j \in Of(d.kept, p)}
    BY <1>1, UrlsKept
  <2>2. Of(d.kept, p) = {}
    BY <1>3, <2>1
  <2>3. QED
    BY <1>1, <1>2, <2>2, TakesBest
<1>4. ASSUME NEW p \in Platforms, UrlsOf(cs, p) # {}
      PROVE  /\ select(cs)[p] \in UrlsOf(cs, p)
             /\ \A u \in UrlsOf(cs, p) \ {select(cs)[p]} : Beats(cs, p, select(cs)[p], u)
  <2>1. UrlsOf(cs, p) = {d.kept[j].normalized_url : j \in Of(d.kept, p)}
    BY <1>1, UrlsKept
  <2>2. Of(d.kept, p) # {}
    BY <1>4, <2>1
  <2>3. PICK i \in Of(d.kept, p) :
            IsBest(d.kept, Of(d.kept, p), i) /\ select(cs)[p] = d.kept[i].normalized_url
    BY <1>1, <1>2, <2>2, TakesBest
  <2>4. PICK v : v = select(cs)[p]
    OBVIOUS
  <2>5. ASSUME NEW u \in UrlsOf(cs, p) \ {v} PROVE Beats(cs, p, v, u)
    <3>1. PICK j \in Of(d.kept, p) : u = d.kept[j].normalized_url
      BY <2>1
    <3>2. /\ i \in 1..Len(d.kept) /\ Key(d.kept[i]) = <<p, v>>
          /\ j \in 1..Len(d.kept) /\ Key(d.kept[j]) = <<p, u>>
          /\ i # j
      BY <2>3, <2>4, <2>5, <3>1 DEF Of, Key
    <3>3. PICK a \in PlacesOf(cs, p, v) :
                /\ cs[a] = d.kept[i]
                /\ \A b \in PlacesOf(cs, p, v) : rank_score(cs[b]) <= rank_score(cs[a])
      BY <1>1, <3>2, TopPlace
    <3>4. PICK b \in PlacesOf(cs, p, u) :
                /\ cs[b] = d.kept[j]
                /\ \A c \in PlacesOf(cs, p, u) : rank_score(cs[c]) <= rank_score(cs[b])
      BY <1>1, <3>2, TopPlace
    <3>5. PICK k \in PlacesOf(cs, p, v) : \A c \in PlacesOf(cs, p, v) : k <= c
      BY <3>3, FirstPlace
    <3>6. PICK l \in PlacesOf(cs, p, u) : \A c \in PlacesOf(cs, p, u) : l <= c
      BY <3>4, FirstPlace
    <3>7. \/ rank_score(cs[a]) > rank_score(cs[b])
          \/ rank_score(cs[a]) = rank_score(cs[b]) /\ k < l
      <4>1. rank_score(cs[a]) \in Nat /\ rank_score(cs[b]) \in Nat
        BY ScoreBounds
      <4>2. rank_score(cs[b]) <= rank_score(cs[a])
        BY <2>3, <3>1, <3>3, <3>4 DEF IsBest
      <4>3. CASE rank_score(cs[a]) = rank_score(cs[b])
        <5>1. ~(j < i)
          BY <2>3, <3>1, <3>3, <3>4, <4>1, <4>3 DEF IsBest
        <5>2. i < j
          BY <1>2, <3>2, <5>1
        <5>3. PICK e \in 1..Len(cs) :
                /\ Key(cs[e]) = Key(d.kept[i])
                /\ \A c \in 1..Len(cs) : Key(cs[c]) = Key(d.kept[j]) => e < c
          <6>1. KeptInOrder(cs, Len(cs), d)
            BY <1>1 DEF Fits
          <6>2. i \in 1..Len(d.kept) /\ j \in 1..Len(d.kept)
            BY <3>2
          <6>3. QED
            BY <5>2, <6>1, <6>2 DEF KeptInOrder
        <5>4. e \in PlacesOf(cs, p, v) /\ l \in 1..Len(cs) /\ Key(cs[l]) = Key(d.kept[j])
              /\ k \in 1..Len(cs)
          BY <3>2, <5>3 DEF PlacesOf
        <5>5. k <= e /\ e < l
          BY <3>5, <5>3, <5>4
        <5>6. QED
          BY <4>3, <5>3, <5>4, <5>5
      <4>4. QED
        BY <4>1, <4>2, <4>3
    <3>8. QED
      BY <3>3, <3>4, <3>5, <3>6, <3>7 DEF Beats
  <2>6. QED
    BY <2>1, <2>3, <2>4, <2>5
<1>5. QED
  BY <1>3, <1>4 DEF ChoiceIsBest

\* The distinct URLs of the candidates are those that deduplicate() keeps.
LEMMA DistinctKept ==
    ASSUME NEW S, NEW cs \in Seq(S), NEW d, Fits(S, cs, Len(cs), d)
    PROVE  Distinct(cs) = {Key(d.kept[j]) : j \in 1..Len(d.kept)}
<1>1. ASSUME NEW k \in Distinct(cs) PROVE \E j \in 1..Len(d.kept) : k = Key(d.kept[j])
  <2>1. PICK a \in 1..Len(cs) : Usable(cs[a]) /\ k = Key(cs[a])
    BY DEF Distinct
  <2>2. QED
    BY <2>1 DEF Fits, KeptBest
<1>2. ASSUME NEW j \in 1..Len(d.kept) PROVE Key(d.kept[j]) \in Distinct(cs)
  <2>1. Usable(d.kept[j]) /\ \E a \in 1..Len(cs) : d.kept[j] = cs[a]
    BY DEF Fits, KeptOnes
  <2>2. QED
    BY <2>1 DEF Distinct
<1>3. QED
  BY <1>1, <1>2

\* They are as many as it keeps candidates.
LEMMA DistinctCount ==
    ASSUME NEW S, NEW cs \in Seq(S), NEW d, Fits(S, cs, Len(cs), d)
    PROVE  Cardinality(Distinct(cs)) = Len(d.kept)
<1>1. PICK m \in Nat : m = Len(d.kept)
  BY DEF Fits, KeptOnes, Shape
<1>2. PICK g : g = [j \in 1..m |-> Key(d.kept[j])]
  OBVIOUS
<1>3. Distinct(cs) = {Key(d.kept[j]) : j \in 1..m}
  BY <1>1, DistinctKept
<1>4. \A j, k \in 1..m : Key(d.kept[j]) = Key(d.kept[k]) => j = k
  BY <1>1 DEF Fits, KeptOnes
<1>5. g \in Bijection(1..m, Distinct(cs))
  <2>1. g \in [1..m -> Distinct(cs)]
    BY <1>2, <1>3
  <2>2. \A j, k \in 1..m : g[j] = g[k] => j = k
    BY <1>2, <1>4
  <2>3. \A t \in Distinct(cs) : \E j \in 1..m : g[j] = t
    BY <1>2, <1>3
  <2>4. QED
    BY <2>1, <2>2, <2>3 DEF Bijection, Injection, Surjection, IsInjective
<1>6. ExistsBijection(1..m, Distinct(cs))
  BY <1>5 DEF ExistsBijection
<1>7. IsFiniteSet(1..m) /\ Cardinality(1..m) = m
  BY FS_Interval
<1>8. QED
  BY <1>1, <1>6, <1>7, FS_Bijection

(* SelectionMetrics accounts for every candidate of any list exactly once: *)
(* those that are neither rejected nor duplicates are the distinct URLs,   *)
(* and one is selected for each platform that has any.                     *)
THEOREM RecordAlwaysSums ==
    ASSUME NEW S, \A c \in S : c.platform \in Platforms, NEW cs \in Seq(S)
    PROVE  RecordSums(cs)
<1>1. PICK d : d = deduplicate(cs) /\ Fits(S, cs, Len(cs), d)
  BY DeduplicateFits
<1>2. d \in Shape(S) /\ d.duplicates \in Nat /\ Len(d.kept) \in Nat
  BY <1>1 DEF Fits, KeptOnes, Shape
<1>3. PICK r : r = Recorded(cs)
  OBVIOUS
<1>4. r.candidates = r.rejected + r.duplicates + Cardinality(Distinct(cs))
  <2>1. r.rejected = Cardinality(SetAside(cs, Len(cs)))
    BY <1>3 DEF Recorded, SetAside
  <2>2. r.candidates = Len(cs) /\ r.duplicates = d.duplicates
    BY <1>1, <1>3 DEF Recorded
  <2>3. Cardinality(SetAside(cs, Len(cs))) + d.duplicates + Len(d.kept) = Len(cs)
    BY <1>1 DEF Fits, Counted
  <2>4. Cardinality(Distinct(cs)) = Len(d.kept)
    BY <1>1, DistinctCount
  <2>5. QED
    BY <2>1, <2>2, <2>3, <2>4
<1>5. r.selected = Cardinality({k[1] : k \in Distinct(cs)})
  <2>1. r.selected = Cardinality({p \in Platforms : select(cs)[p] # "none"})
    BY <1>3 DEF Recorded
  <2>2. ASSUME NEW p \in Platforms, select(cs)[p] # "none"
        PROVE  \E k \in Distinct(cs) : p = k[1]
    <3>1. PICK j \in Of(d.kept, p) : TRUE
      BY <1>1, <1>2, <2>2, TakesBest
    <3>2. j \in 1..Len(d.kept) /\ d.kept[j].platform = p
      BY DEF Of
    <3>3. Key(d.kept[j]) \in Distinct(cs)
      BY <1>1, <3>2, DistinctKept
    <3>4. Key(d.kept[j])[1] = p
      BY <3>2 DEF Key
    <3>5. QED
      BY <3>3, <3>4
  <2>3. ASSUME NEW k \in Distinct(cs)
        PROVE  k[1] \in Platforms /\ select(cs)[k[1]] # "none"
    <3>1. PICK j \in 1..Len(d.kept) : k = Key(d.kept[j])
      BY <1>1, DistinctKept
    <3>2. d.kept[j] \in S /\ Usable(d.kept[j]) /\ k[1] = d.kept[j].platform
      BY <1>1, <1>2, <3>1 DEF Fits, KeptOnes, Shape, Key
    <3>3. k[1] \in Platforms
      BY <3>2
    <3>4. j \in Of(d.kept, k[1])
      BY <3>1, <3>2 DEF Of
    <3>5. PICK p \in Platforms : p = k[1] /\ Of(d.kept, p) # {}
      BY <3>3, <3>4
    <3>6. PICK i \in Of(d.kept, p) :
            IsBest(d.kept, Of(d.kept, p), i) /\ select(cs)[p] = d.kept[i].normalized_url
      <4>1. Of(d.kept, p) # {}
        BY <3>5
      <4>2. QED
        BY <1>1, <1>2, <4>1, TakesBest
    <3>7. Usable(d.kept[i])
      BY DEF Of
    <3>8. QED
      BY <3>5, <3>6, <3>7 DEF Usable
  <2>4. {p \in Platforms : select(cs)[p] # "none"} = {k[1] : k \in Distinct(cs)}
    BY <2>2, <2>3
  <2>5. QED
    BY <2>1, <2>4
<1>6. QED
  BY <1>3, <1>4, <1>5 DEF RecordSums

\* The lists that the runs look at are among them.
LEMMA ListsAreLists ==
    ASSUME NEW cs \in CandidateLists
    PROVE  cs \in Seq(Candidates)
<1>1. PICK m \in 0..3 : cs \in [1..m -> Candidates]
  BY DEF CandidateLists, BoundedSeq, SeqOf
<1>2. QED
  BY <1>1

LEMMA SelectionIsRight == EveryChoiceBest /\ EveryRecordSums
<1>1. \A c \in Candidates : c.platform \in Platforms
  BY DEF Candidates
<1>2. QED
  BY <1>1, ListsAreLists, ChoiceAlwaysBest, RecordAlwaysSums DEF EveryChoiceBest, EveryRecordSums
-----------------------------------------------------------------------------
(* What selection does with the links of one lead: it keeps the valid ones.*)
LEMMA CandidatesOfLead ==
    ASSUME NEW ls \in [Platforms -> Urls], NEW ts
    PROVE  LET cs == CandidatesOf(ls, ts)
               made(p) == make_candidate(p, ls[p], ts[p])
           IN  /\ cs \in Seq({made(p) : p \in Platforms})
               /\ \A i \in 1..Len(cs) : \E p \in Platforms : ls[p] # "none" /\ cs[i] = made(p)
               /\ \A p \in Platforms : ls[p] # "none" => \E i \in 1..Len(cs) : cs[i] = made(p)
<1> DEFINE made(p) == make_candidate(p, ls[p], ts[p])
           of(p) == IF ls[p] = "none" THEN << >> ELSE <<made(p)>>
           S == {made(p) : p \in Platforms}
<1>1. PICK a, b : a = made("instagram") /\ b = made("facebook")
  OBVIOUS
<1>2. "instagram" \in Platforms /\ "facebook" \in Platforms
      /\ \A p \in Platforms : p = "instagram" \/ p = "facebook"
  BY DEF Platforms
<1>3. a \in S /\ b \in S
  BY <1>1, <1>2
<1>4. CandidatesOf(ls, ts) = of("instagram") \o of("facebook")
  BY DEF CandidatesOf
<1> HIDE DEF made, S
<1>5. CASE ls["instagram"] = "none" /\ ls["facebook"] = "none"
  <2>1. CandidatesOf(ls, ts) = << >>
    BY <1>4, <1>5
  <2>2. QED
    BY <1>2, <1>5, <2>1 DEF made, S
<1>6. CASE ls["instagram"] = "none" /\ ls["facebook"] # "none"
  <2>1. CandidatesOf(ls, ts) = <<b>>
    BY <1>1, <1>4, <1>6
  <2>2. <<b>> \in Seq(S) /\ Len(<<b>>) = 1 /\ <<b>>[1] = b
    BY <1>3
  <2>3. QED
    BY <1>1, <1>2, <1>6, <2>1, <2>2 DEF made, S
<1>7. CASE ls["instagram"] # "none" /\ ls["facebook"] = "none"
  <2>1. CandidatesOf(ls, ts) = <<a>>
    BY <1>1, <1>4, <1>7
  <2>2. <<a>> \in Seq(S) /\ Len(<<a>>) = 1 /\ <<a>>[1] = a
    BY <1>3
  <2>3. QED
    BY <1>1, <1>2, <1>7, <2>1, <2>2 DEF made, S
<1>8. CASE ls["instagram"] # "none" /\ ls["facebook"] # "none"
  <2>1. PICK cs : cs = CandidatesOf(ls, ts)
    OBVIOUS
  <2>2. cs = <<a>> \o <<b>>
    BY <1>1, <1>4, <1>8, <2>1
  <2>3. /\ <<a>> \in Seq(S) /\ Len(<<a>>) = 1 /\ <<a>>[1] = a
        /\ <<b>> \in Seq(S) /\ Len(<<b>>) = 1 /\ <<b>>[1] = b
    BY <1>3
  <2>4. cs \in Seq(S) /\ Len(cs) = 2 /\ cs[1] = a /\ cs[2] = b
    BY <2>2, <2>3, ConcatProperties
  <2>5. \A i \in 1..2 : i = 1 \/ i = 2
    OBVIOUS
  <2>6. /\ \A i \in 1..2 : \E p \in Platforms : ls[p] # "none" /\ cs[i] = made(p)
        /\ \A p \in Platforms : ls[p] # "none" => \E i \in 1..2 : cs[i] = made(p)
    BY <1>1, <1>2, <1>8, <2>4, <2>5
  <2>7. QED
    BY <2>1, <2>4, <2>6 DEF made, S
<1>9. QED
  BY <1>5, <1>6, <1>7, <1>8

\* A candidate that is made of a link is usable exactly if the link is valid.
LEMMA MadeOfLink ==
    ASSUME NEW p, NEW u \in Urls, u # "none", NEW t
    PROVE  /\ make_candidate(p, u, t).platform = p
           /\ make_candidate(p, u, t).normalized_url = IF Valid(u) THEN u ELSE "none"
  BY DEF make_candidate, Valid, Urls, Shapes

(* Selection gives a lead its valid links back, and nothing else: whatever *)
(* discovery found, a link that is no URL of a profile is dropped.         *)
THEOREM SelectionKeepsValid ==
    ASSUME NEW ls \in [Platforms -> Urls], NEW ts
    PROVE  select(CandidatesOf(ls, ts)) = [p \in Platforms |-> IF Valid(ls[p]) THEN ls[p] ELSE "none"]
<1> DEFINE made(p) == make_candidate(p, ls[p], ts[p])
           S == {made(p) : p \in Platforms}
<1> HIDE DEF made, S
<1>1. PICK cs \in Seq(S) :
        /\ cs = CandidatesOf(ls, ts)
        /\ \A i \in 1..Len(cs) : \E p \in Platforms : ls[p] # "none" /\ cs[i] = made(p)
        /\ \A p \in Platforms : ls[p] # "none" => \E i \in 1..Len(cs) : cs[i] = made(p)
  BY CandidatesOfLead DEF made, S
<1>2. ChoiceIsBest(cs)
  BY ChoiceAlwaysBest
<1>3. \A p \in Platforms : ls[p] # "none" =>
        made(p).platform = p /\ made(p).normalized_url = IF Valid(ls[p]) THEN ls[p] ELSE "none"
  BY MadeOfLink DEF made
<1>4. ASSUME NEW p \in Platforms PROVE UrlsOf(cs, p) = IF Valid(ls[p]) THEN {ls[p]} ELSE {}
  <2>1. ASSUME NEW u \in UrlsOf(cs, p) PROVE Valid(ls[p]) /\ u = ls[p]
    <3>1. PICK i \in 1..Len(cs) : cs[i].platform = p /\ u = cs[i].normalized_url /\ u # "none"
      BY DEF UrlsOf
    <3>2. PICK q \in Platforms : ls[q] # "none" /\ cs[i] = made(q)
      BY <1>1
    <3>3. QED
      BY <1>3, <3>1, <3>2
  <2>2. ASSUME Valid(ls[p]) PROVE ls[p] \in UrlsOf(cs, p)
    <3>1. ls[p] # "none"
      BY <2>2 DEF Valid
    <3>2. PICK i \in 1..Len(cs) : cs[i] = made(p)
      BY <1>1, <3>1
    <3>3. cs[i].platform = p /\ cs[i].normalized_url = ls[p]
      BY <1>3, <2>2, <3>1, <3>2
    <3>4. QED
      BY <3>1, <3>3 DEF UrlsOf
  <2>3. QED
    BY <2>1, <2>2
<1>5. ASSUME NEW p \in Platforms PROVE select(cs)[p] = IF Valid(ls[p]) THEN ls[p] ELSE "none"
  <2>1. CASE Valid(ls[p])
    <3>1. UrlsOf(cs, p) = {ls[p]}
      BY <1>4, <2>1
    <3>2. select(cs)[p] \in UrlsOf(cs, p)
      BY <1>2, <3>1 DEF ChoiceIsBest
    <3>3. QED
      BY <2>1, <3>1, <3>2
  <2>2. CASE ~Valid(ls[p])
    <3>1. UrlsOf(cs, p) = {}
      BY <1>4, <2>2
    <3>2. QED
      BY <1>2, <2>2, <3>1 DEF ChoiceIsBest
  <2>3. QED
    BY <2>1, <2>2
<1>6. PICK r : r = select(cs)
  OBVIOUS
<1>7. r = [p \in Platforms |-> r[p]]
  BY <1>6 DEF select
<1>8. QED
  BY <1>1, <1>5, <1>6, <1>7

(* What a search makes of a result page: an answer, and a link that looks  *)
(* like the business's own exactly if one is among the results it reads.   *)
LEMMA FindTells ==
    ASSUME NEW results \in ResultPages, ~Raises(results)
    PROVE  /\ Find(results) \in Answers
           /\ Find(results).canonical <=> "own" \in {results[i] : i \in Targets(results)}
           /\ {results[i] : i \in Targets(results)} \subseteq Anchors
<1>1. PICK m \in Nat : results \in [1..m -> Anchors] /\ Len(results) = m
  <2>1. PICK m \in 0..MaxResults : results \in [1..m -> Anchors]
    BY DEF ResultPages, BoundedSeq, SeqOf
  <2>2. m \in Nat
    BY ResultsAssumption
  <2>3. QED
    BY <2>1, <2>2
<1>2. \A i \in Targets(results) : i \in 1..m /\ results[i] \in Anchors /\ results[i] # "empty"
                                  /\ results[i] # "garbled"
  BY <1>1 DEF Targets, Raises
<1>3. PlatformUrls(results) \in SUBSET Nat
      /\ \A i \in PlatformUrls(results) : results[i] \in {"own", "stranger", "odd", "broken"}
  BY <1>2 DEF PlatformUrls, Anchors
<1>4. ASSUME PlatformUrls(results) # {}
      PROVE  ShapeOf(FirstUrl(results)) \in Urls
  <2>1. PICK i : i = CHOOSE k \in PlatformUrls(results) : \A j \in PlatformUrls(results) : k <= j
    OBVIOUS
  <2>2. i \in PlatformUrls(results)
    BY <1>3, <1>4, <2>1, LeastElement
  <2>3. FirstUrl(results) = results[i]
    BY <2>1 DEF FirstUrl
  <2>4. QED
    BY <1>3, <2>2, <2>3 DEF ShapeOf, Urls, Shapes
<1>5. (\E i \in PlatformUrls(results) : results[i] = "own")
        <=> "own" \in {results[i] : i \in Targets(results)}
  BY DEF PlatformUrls
<1>6. Find(results) \in Answers
      /\ (Find(results).canonical <=> \E i \in PlatformUrls(results) : results[i] = "own")
  <2>1. CASE \E i \in PlatformUrls(results) : results[i] = "own"
    <3>1. Find(results) = [url |-> "clean", canonical |-> TRUE]
      BY <2>1 DEF Find
    <3>2. QED
      BY <2>1, <3>1 DEF Answers, Urls, Shapes
  <2>2. CASE ~(\E i \in PlatformUrls(results) : results[i] = "own") /\ PlatformUrls(results) # {}
    <3>1. Find(results) = [url |-> ShapeOf(FirstUrl(results)), canonical |-> FALSE]
      BY <2>2 DEF Find
    <3>2. QED
      BY <1>4, <2>2, <3>1 DEF Answers
  <2>3. CASE PlatformUrls(results) = {}
    <3>1. Find(results) = NoAnswer
      BY <2>3 DEF Find
    <3>2. QED
      BY <2>3, <3>1 DEF Answers, NoAnswer, Urls
  <2>4. QED
    BY <2>1, <2>2, <2>3
<1>7. QED
  BY <1>2, <1>5, <1>6

\* What Finish leaves a lead with.
LEMMA FinishGives ==
    ASSUME NEW ls \in [Platforms -> Urls], NEW ts \in [Platforms -> Tiers], Finish(ls, ts)
    PROVE  /\ link' = [p \in Platforms |-> IF Valid(ls[p]) THEN ls[p] ELSE "none"]
           /\ tier' = [p \in Platforms |-> IF Valid(ls[p]) THEN ts[p] ELSE "none"]
           /\ pc' = "done"
           /\ link' \in [Platforms -> Urls] /\ tier' \in [Platforms -> Tiers]
<1>1. link' = [p \in Platforms |-> IF Valid(ls[p]) THEN ls[p] ELSE "none"]
  BY SelectionKeepsValid DEF Finish
<1>2. \A p \in Platforms : link'[p] = "none" <=> ~Valid(ls[p])
  BY <1>1 DEF Valid
<1>3. tier' = [p \in Platforms |-> IF link'[p] = "none" THEN "none" ELSE ts[p]] /\ pc' = "done"
  BY DEF Finish
<1>4. tier' = [p \in Platforms |-> IF Valid(ls[p]) THEN ts[p] ELSE "none"]
  BY <1>2, <1>3
<1>5. "none" \in Urls /\ "none" \in Tiers
  BY DEF Urls, Tiers
<1>6. QED
  BY <1>1, <1>3, <1>4, <1>5

LEMMA Names ==
    /\ Platforms = {"instagram", "facebook"}
    /\ Counters = {"total_processed", "html_fetch_success", "website_success",
                   "search_fallback_used", "instagram", "facebook"}
  BY DEF Platforms, Counters
-----------------------------------------------------------------------------
\* Until the lead's website has been looked at there is nothing.
Before ==
    pc \in {"taken", "fetching"} =>
        /\ link = [p \in Platforms |-> "none"]
        /\ tier = [p \in Platforms |-> "none"]
        /\ search = [p \in Platforms |-> "idle"]
        /\ metrics = [c \in Counters |-> 0]
        /\ pc = "fetching" => website = "site"

\* The searches are for what the website did not give.
During ==
    pc = "searching" =>
        /\ \E p \in Platforms : search[p] # "idle"
        /\ \A p \in Platforms : search[p] = "idle" <=> link[p] # "none"
        /\ metrics["website_success"] = 1 <=> \E p \in Platforms : link[p] # "none"

\* A search that has not ended well has given no link, and a cancelled lead
\* takes none from any.
After ==
    /\ \A p \in Platforms : search[p] \in {"asked", "raised"} => link[p] = "none"
    /\ pc = "cancelled" =>
        /\ \A p \in Platforms : search[p] # "idle" => link[p] = "none"
        /\ (\E p \in Platforms : search[p] = "asked") => \E p \in Platforms : search[p] = "raised"

\* An answer that looks like the business's own was on the page.
AnswerTells ==
    \A p \in Platforms :
        search[p] = "answered" => (answer[p].canonical <=> "own" \in offered[p])

SocialInv ==
    /\ TypeOK /\ Before /\ During /\ After /\ AnswerTells
    /\ TierTellsSource /\ AnswersCount /\ MetricsTell
-----------------------------------------------------------------------------
\* What the website gave: links with the tier of the place they come from.
Gave(ls, ts) ==
    /\ ls \in [Platforms -> Urls] /\ ts \in [Platforms -> Tiers]
    /\ \A p \in Platforms : ls[p] = "none" <=> ts[p] = "none"
    /\ \A p \in Platforms :
        ls[p] # "none" => ts[p] = IF website = p THEN "high" ELSE SiteTier(ls[p])

\* A lead that has both links from its website is through.
LEMMA BothGiven ==
    ASSUME NEW ls, NEW ts, NEW fetched \in SUBSET {"html_fetch_success"},
           SocialInv, pc \in {"taken", "fetching"}, Gave(ls, ts),
           Missing(ls) = {}, Finish(ls, ts),
           metrics' = Record(fetched \cup FromWebsite(ls) \cup Processed(ls)),
           UNCHANGED <<website, searchVars>>
    PROVE  SocialInv'
<1>1. /\ ls \in [Platforms -> Urls] /\ ts \in [Platforms -> Tiers]
      /\ \A p \in Platforms : ls[p] # "none" /\ ts[p] # "none"
      /\ \A p \in Platforms : ts[p] = IF website = p THEN "high" ELSE SiteTier(ls[p])
  BY DEF Gave, Missing
<1>2. /\ link' = [p \in Platforms |-> IF Valid(ls[p]) THEN ls[p] ELSE "none"]
      /\ tier' = [p \in Platforms |-> IF Valid(ls[p]) THEN ts[p] ELSE "none"]
      /\ pc' = "done" /\ link' \in [Platforms -> Urls] /\ tier' \in [Platforms -> Tiers]
  BY <1>1, FinishGives
<1>3. /\ search = [p \in Platforms |-> "idle"] /\ search' = search
      /\ website' = website /\ answer' = answer /\ offered' = offered
  BY DEF SocialInv, Before, searchVars
<1>4. PICK cs : cs = fetched \cup FromWebsite(ls) \cup Processed(ls)
  OBVIOUS
<1>5. metrics' = [c \in Counters |-> IF c \in cs THEN 1 ELSE 0]
  <2>1. metrics' = [c \in Counters |-> metrics[c] + (IF c \in cs THEN 1 ELSE 0)]
    BY <1>4 DEF Record
  <2>2. \A c \in Counters : metrics[c] = 0
    BY DEF SocialInv, Before
  <2>3. QED
    BY <2>1, <2>2
<1>6. /\ metrics'["total_processed"] = 1 /\ metrics'["website_success"] = 1
      /\ metrics'["search_fallback_used"] = 0
      /\ \A p \in Platforms : metrics'[p] = 1
  <2>1. Missing(ls) # Platforms
    BY Names
  <2>2. /\ "total_processed" \in cs /\ "website_success" \in cs
        /\ "search_fallback_used" \notin cs /\ \A p \in Platforms : p \in cs
    BY <1>4, <2>1, Names DEF FromWebsite, Processed
  <2>3. QED
    BY <1>5, <2>2, Names
<1>7. TypeOK'
  BY <1>2, <1>3, <1>5 DEF SocialInv, TypeOK, Controls
<1>8. (Before /\ During /\ After /\ AnswerTells)'
  BY <1>2, <1>3 DEF Before, During, After, AnswerTells
<1>9. \A p \in Platforms : ~Found(p)'
  BY <1>3 DEF Found
<1>10. TierTellsSource'
  <2>1. \A p \in Platforms : link'[p] # "none" => Valid(ls[p]) /\ link'[p] = ls[p] /\ tier'[p] = ts[p]
    BY <1>2
  <2>2. \A p \in Platforms : link'[p] = "none" <=> tier'[p] = "none"
    BY <1>1, <1>2
  <2>3. \A p \in Platforms : link'[p] # "none" =>
            tier'[p] = IF website' = p THEN "high" ELSE SiteTier(link'[p])
    BY <1>1, <1>3, <2>1
  <2>4. QED
    BY <1>9, <2>2, <2>3 DEF TierTellsSource
<1>11. AnswersCount'
  BY <1>3 DEF AnswersCount
<1>12. MetricsTell'
  BY <1>2, <1>3, <1>6, <1>9, Names DEF MetricsTell
<1>13. QED
  BY <1>7, <1>8, <1>10, <1>11, <1>12 DEF SocialInv

\* A lead that lacks a link goes on to the searches.
LEMMA SomeMissing ==
    ASSUME NEW ls, NEW ts, NEW fetched \in SUBSET {"html_fetch_success"},
           SocialInv, pc \in {"taken", "fetching"}, Gave(ls, ts),
           Missing(ls) # {}, link' = ls, tier' = ts, pc' = "searching",
           search' = [p \in Platforms |-> IF p \in Missing(ls) THEN "asked" ELSE "idle"],
           metrics' = Record(fetched \cup FromWebsite(ls)),
           UNCHANGED <<website, answer, offered>>
    PROVE  SocialInv'
<1>1. /\ ls \in [Platforms -> Urls] /\ ts \in [Platforms -> Tiers]
      /\ \A p \in Platforms : ls[p] = "none" <=> ts[p] = "none"
      /\ \A p \in Platforms :
            ls[p] # "none" => ts[p] = IF website = p THEN "high" ELSE SiteTier(ls[p])
  BY DEF Gave
<1>2. \A p \in Platforms : search'[p] = IF ls[p] = "none" THEN "asked" ELSE "idle"
  BY DEF Missing
<1>3. search' \in [Platforms -> {"asked", "idle"}]
  OBVIOUS
<1>4. PICK cs : cs = fetched \cup FromWebsite(ls)
  OBVIOUS
<1>5. metrics' = [c \in Counters |-> IF c \in cs THEN 1 ELSE 0]
  <2>1. metrics' = [c \in Counters |-> metrics[c] + (IF c \in cs THEN 1 ELSE 0)]
    BY <1>4 DEF Record
  <2>2. \A c \in Counters : metrics[c] = 0
    BY DEF SocialInv, Before
  <2>3. QED
    BY <2>1, <2>2
<1>6. /\ metrics'["total_processed"] = 0 /\ metrics'["search_fallback_used"] = 0
      /\ \A p \in Platforms : metrics'[p] = 0
      /\ metrics'["website_success"] = 1 <=> Missing(ls) # Platforms
  <2>1. /\ "total_processed" \notin cs /\ "search_fallback_used" \notin cs
        /\ \A p \in Platforms : p \notin cs
        /\ "website_success" \in cs <=> Missing(ls) # Platforms
    BY <1>4, Names DEF FromWebsite
  <2>2. QED
    BY <1>5, <2>1, Names
<1>7. TypeOK'
  BY <1>1, <1>3, <1>5 DEF SocialInv, TypeOK, Controls, Searches
<1>8. (Before /\ During /\ After /\ AnswerTells)'
  <2>1. Missing(ls) # Platforms <=> \E p \in Platforms : link'[p] # "none"
    BY DEF Missing
  <2>2. \E p \in Platforms : search'[p] # "idle"
    BY <1>2 DEF Missing
  <2>3. QED
    BY <1>2, <1>6, <2>1, <2>2 DEF Before, During, After, AnswerTells
<1>9. \A p \in Platforms : ~Found(p)'
  BY <1>2 DEF Found
<1>10. TierTellsSource'
  BY <1>1, <1>9 DEF TierTellsSource
<1>11. AnswersCount'
  BY DEF AnswersCount
<1>12. MetricsTell'
  BY <1>6 DEF MetricsTell
<1>13. QED
  BY <1>7, <1>8, <1>10, <1>11, <1>12 DEF SocialInv

LEMMA GoOnKeeps ==
    ASSUME NEW ls, NEW ts, NEW fetched \in SUBSET {"html_fetch_success"},
           SocialInv, pc \in {"taken", "fetching"}, Gave(ls, ts), GoOn(ls, ts, fetched)
    PROVE  SocialInv'
<1>1. CASE Missing(ls) = {}
  <2>1. /\ Finish(ls, ts)
        /\ metrics' = Record(fetched \cup FromWebsite(ls) \cup Processed(ls))
        /\ UNCHANGED <<website, searchVars>>
    BY <1>1 DEF GoOn
  <2>2. QED
    BY <1>1, <2>1, BothGiven
<1>2. CASE Missing(ls) # {}
  <2>1. /\ link' = ls /\ tier' = ts /\ pc' = "searching"
        /\ search' = [p \in Platforms |-> IF p \in Missing(ls) THEN "asked" ELSE "idle"]
        /\ metrics' = Record(fetched \cup FromWebsite(ls))
        /\ UNCHANGED <<website, answer, offered>>
    BY <1>2 DEF GoOn
  <2>2. QED
    BY <1>2, <2>1, SomeMissing
<1>3. QED
  BY <1>1, <1>2

LEMMA TakeKeeps == SocialInv /\ Take => SocialInv'
<1> SUFFICES ASSUME SocialInv, Take PROVE SocialInv'
  OBVIOUS
<1>1. /\ pc = "taken" /\ link = [p \in Platforms |-> "none"] /\ tier = [p \in Platforms |-> "none"]
      /\ website \in Sites
  BY DEF Take, SocialInv, Before, TypeOK
<1>2. "none" \in Urls /\ "none" \in Tiers /\ "high" \in Tiers
  BY DEF Urls, Tiers
<1>3. CASE TakeListed
  <2>1. PICK u \in Normalized :
            GoOn([link EXCEPT ![website] = u],
                 [tier EXCEPT ![website] = IF u = "none" THEN "none" ELSE "high"], {})
    BY <1>3 DEF TakeListed
  <2>2. PICK ls, ts : ls = [link EXCEPT ![website] = u]
                      /\ ts = [tier EXCEPT ![website] = IF u = "none" THEN "none" ELSE "high"]
    OBVIOUS
  <2>3. website \in Platforms /\ u \in Urls
    BY <1>3 DEF TakeListed, Normalized
  <2>4. Gave(ls, ts)
    BY <1>1, <1>2, <2>2, <2>3 DEF Gave
  <2>5. GoOn(ls, ts, {})
    BY <2>1, <2>2
  <2>6. QED
    BY <1>1, <2>4, <2>5, GoOnKeeps
<1>4. CASE TakeSite
  <2>1. website = "site" /\ pc' = "fetching" /\ UNCHANGED <<website, link, tier, searchVars, metrics>>
    BY <1>4 DEF TakeSite
  <2>2. TypeOK'
    BY <2>1 DEF SocialInv, TypeOK, Controls, searchVars
  <2>3. (Before /\ During /\ After /\ AnswerTells)'
    BY <1>1, <2>1 DEF SocialInv, Before, During, After, AnswerTells, searchVars
  <2>4. (TierTellsSource /\ AnswersCount /\ MetricsTell)'
    BY <1>1, <2>1 DEF SocialInv, TierTellsSource, AnswersCount, MetricsTell, Found, searchVars
  <2>5. QED
    BY <2>2, <2>3, <2>4 DEF SocialInv
<1>5. CASE TakeNone
  <2>1. PICK ls, ts : ls = link /\ ts = tier
    OBVIOUS
  <2>2. Gave(ls, ts)
    BY <1>1, <1>2, <2>1 DEF Gave
  <2>3. GoOn(ls, ts, {})
    BY <1>5, <2>1 DEF TakeNone
  <2>4. QED
    BY <1>1, <2>2, <2>3, GoOnKeeps
<1>6. QED
  BY <1>3, <1>4, <1>5 DEF Take

\* The links of a page, where nothing was known before.
LEMMA PageGave ==
    ASSUME website = "site", NEW seen \in PageLinks, NEW ls, NEW ts,
           link = [p \in Platforms |-> "none"],
           ls = [p \in Platforms |-> IF link[p] = "none" THEN seen[p] ELSE link[p]],
           ts = [p \in Platforms |-> IF link[p] = "none" THEN SiteTier(seen[p]) ELSE tier[p]]
    PROVE  Gave(ls, ts)
<1>1. ls = [p \in Platforms |-> seen[p]] /\ ts = [p \in Platforms |-> SiteTier(seen[p])]
  OBVIOUS
<1>2. \A u : SiteTier(u) \in Tiers /\ (SiteTier(u) = "none" <=> u = "none")
  BY DEF SiteTier, Tiers
<1>3. "site" \notin Platforms
  BY Names
<1>4. QED
  BY <1>1, <1>2, <1>3 DEF Gave, PageLinks

LEMMA FetchedKeeps == SocialInv /\ Fetched => SocialInv'
<1> SUFFICES ASSUME SocialInv, Fetched PROVE SocialInv'
  OBVIOUS
<1>1. /\ pc = "fetching" /\ website = "site"
      /\ link = [p \in Platforms |-> "none"] /\ tier = [p \in Platforms |-> "none"]
      /\ search = [p \in Platforms |-> "idle"] /\ metrics = [c \in Counters |-> 0]
  BY DEF Fetched, SocialInv, Before
<1>2. "none" \in Urls /\ "none" \in Tiers
  BY DEF Urls, Tiers
<1>3. CASE /\ Finish(link, tier)
           /\ metrics' = Record({"html_fetch_success"})
           /\ UNCHANGED <<website, searchVars>>
  <2>1. PICK ls \in [Platforms -> Urls], ts \in [Platforms -> Tiers] : ls = link /\ ts = tier
    BY <1>1, <1>2
  <2>2. Finish(ls, ts)
    BY <1>3, <2>1
  <2>3. /\ link' = [p \in Platforms |-> IF Valid(ls[p]) THEN ls[p] ELSE "none"]
        /\ tier' = [p \in Platforms |-> IF Valid(ls[p]) THEN ts[p] ELSE "none"]
        /\ pc' = "done" /\ link' \in [Platforms -> Urls] /\ tier' \in [Platforms -> Tiers]
    BY <2>2, FinishGives
  <2>4. \A p \in Platforms : link'[p] = "none" /\ tier'[p] = "none"
    BY <1>1, <2>1, <2>3 DEF Valid
  <2>5. search' = search /\ website' = website /\ answer' = answer /\ offered' = offered
    BY <1>3 DEF searchVars
  <2>6. metrics' = [c \in Counters |-> IF c = "html_fetch_success" THEN 1 ELSE 0]
    <3>1. metrics' = [c \in Counters |-> metrics[c] + (IF c = "html_fetch_success" THEN 1 ELSE 0)]
      BY <1>3 DEF Record
    <3>2. \A c \in Counters : metrics[c] = 0
      BY <1>1
    <3>3. QED
      BY <3>1, <3>2
  <2>7. /\ metrics'["total_processed"] = 0 /\ metrics'["website_success"] = 0
        /\ metrics'["search_fallback_used"] = 0 /\ \A p \in Platforms : metrics'[p] = 0
    BY <2>6, Names
  <2>8. TypeOK'
    BY <2>3, <2>5, <2>6 DEF SocialInv, TypeOK, Controls
  <2>9. (Before /\ During /\ After /\ AnswerTells)'
    BY <1>1, <2>3, <2>5 DEF Before, During, After, AnswerTells
  <2>10. (TierTellsSource /\ AnswersCount)'
    BY <1>1, <2>4, <2>5 DEF TierTellsSource, AnswersCount
  <2>11. MetricsTell'
    BY <1>1, <2>4, <2>5, <2>7 DEF MetricsTell, Found
  <2>12. QED
    BY <2>8, <2>9, <2>10, <2>11 DEF SocialInv
<1>4. CASE GoOn(link, tier, {})
  <2>1. PICK ls, ts : ls = link /\ ts = tier
    OBVIOUS
  <2>2. Gave(ls, ts)
    BY <1>1, <1>2, <2>1 DEF Gave
  <2>3. GoOn(ls, ts, {})
    BY <1>4, <2>1
  <2>4. QED
    BY <1>1, <2>2, <2>3, GoOnKeeps
<1>5. CASE \E seen \in PageLinks :
            GoOn([p \in Platforms |-> IF link[p] = "none" THEN seen[p] ELSE link[p]],
                 [p \in Platforms |-> IF link[p] = "none" THEN SiteTier(seen[p]) ELSE tier[p]],
                 {"html_fetch_success"})
  <2>1. PICK seen \in PageLinks :
            GoOn([p \in Platforms |-> IF link[p] = "none" THEN seen[p] ELSE link[p]],
                 [p \in Platforms |-> IF link[p] = "none" THEN SiteTier(seen[p]) ELSE tier[p]],
                 {"html_fetch_success"})
    BY <1>5
  <2>2. PICK ls, ts :
            /\ ls = [p \in Platforms |-> IF link[p] = "none" THEN seen[p] ELSE link[p]]
            /\ ts = [p \in Platforms |-> IF link[p] = "none" THEN SiteTier(seen[p]) ELSE tier[p]]
    OBVIOUS
  <2>3. Gave(ls, ts)
    BY <1>1, <2>2, PageGave
  <2>4. GoOn(ls, ts, {"html_fetch_success"})
    BY <2>1, <2>2
  <2>5. QED
    BY <1>1, <2>3, <2>4, GoOnKeeps
<1>6. QED
  BY <1>3, <1>4, <1>5 DEF Fetched

LEMMA SearchKeeps ==
    ASSUME NEW p \in Platforms, SocialInv, Search(p)
    PROVE  SocialInv'
<1>1. /\ search[p] = "asked" /\ link[p] = "none"
      /\ UNCHANGED <<website, link, tier, pc, metrics>>
  BY DEF Search, SocialInv, After, leadVars
<1>2. /\ search \in [Platforms -> Searches] /\ answer \in [Platforms -> Answers]
      /\ offered \in [Platforms -> SUBSET Anchors]
  BY DEF SocialInv, TypeOK
<1>3. pc # "taken" /\ pc # "fetching"
  BY <1>1 DEF SocialInv, Before
<1>4. PICK to \in {"raised", "answered"} :
        /\ search' = [search EXCEPT ![p] = to]
        /\ to = "raised" => answer' = answer /\ offered' = offered
        /\ answer' \in [Platforms -> Answers] /\ offered' \in [Platforms -> SUBSET Anchors]
        /\ \A q \in Platforms \ {p} : answer'[q] = answer[q] /\ offered'[q] = offered[q]
        /\ to = "answered" => (answer'[p].canonical <=> "own" \in offered'[p])
  <2>1. PICK results \in ResultPages :
            IF Raises(results)
            THEN /\ search' = [search EXCEPT ![p] = "raised"]
                 /\ UNCHANGED <<answer, offered>>
            ELSE /\ search' = [search EXCEPT ![p] = "answered"]
                 /\ answer' = [answer EXCEPT ![p] = Find(results)]
                 /\ offered' = [offered EXCEPT ![p] = {results[i] : i \in Targets(results)}]
    BY DEF Search
  <2>2. CASE Raises(results)
    BY <1>2, <2>1, <2>2
  <2>3. CASE ~Raises(results)
    <3>1. PICK f, o : f = Find(results) /\ o = {results[i] : i \in Targets(results)}
      OBVIOUS
    <3>2. f \in Answers /\ o \in SUBSET Anchors /\ (f.canonical <=> "own" \in o)
      BY <2>3, <3>1, FindTells
    <3>3. /\ search' = [search EXCEPT ![p] = "answered"]
          /\ answer' = [answer EXCEPT ![p] = f] /\ offered' = [offered EXCEPT ![p] = o]
      BY <2>1, <2>3, <3>1
    <3>4. QED
      BY <1>2, <3>2, <3>3
  <2>4. QED
    BY <2>2, <2>3
<1>5. search'[p] = to /\ \A q \in Platforms \ {p} : search'[q] = search[q]
  BY <1>2, <1>4
<1>6. TypeOK'
  BY <1>1, <1>2, <1>4 DEF SocialInv, TypeOK, Searches
<1>7. (Before /\ During)'
  BY <1>1, <1>3, <1>5 DEF SocialInv, Before, During
<1>8. After'
  BY <1>1, <1>3, <1>5 DEF SocialInv, After
<1>9. AnswerTells'
  BY <1>4, <1>5 DEF SocialInv, AnswerTells
<1>10. \A q \in Platforms \ {p} : Found(q)' <=> Found(q)
  BY <1>4, <1>5 DEF Found
<1>11. ~Found(p)
  BY <1>1 DEF Found
<1>12. TierTellsSource'
  BY <1>1, <1>4, <1>10 DEF SocialInv, TierTellsSource
<1>13. AnswersCount'
  <2> SUFFICES ASSUME pc = "done" PROVE \E q \in Platforms : search'[q] = "raised"
    BY <1>1 DEF AnswersCount
  <2>1. PICK q \in Platforms : search[q] = "raised"
    BY <1>1 DEF SocialInv, AnswersCount
  <2>2. QED
    BY <1>1, <1>5, <2>1
<1>14. MetricsTell'
  <2>1. CASE pc = "done"
    <3>1. PICK q \in Platforms : search[q] = "raised" /\ q # p
      BY <1>1, <2>1 DEF SocialInv, AnswersCount
    <3>2. search'[q] = "raised"
      BY <1>5, <3>1
    <3>3. metrics["total_processed"] # 1 /\ metrics["search_fallback_used"] # 1
          /\ \A r \in Platforms : metrics[r] # 1
      BY <2>1, <3>1 DEF SocialInv, MetricsTell
    <3>4. QED
      BY <1>1, <2>1, <3>2, <3>3 DEF MetricsTell
  <2>2. CASE pc # "done"
    <3>1. metrics["total_processed"] # 1 /\ metrics["search_fallback_used"] # 1
          /\ \A r \in Platforms : metrics[r] # 1
      BY <2>2 DEF SocialInv, MetricsTell
    <3>2. QED
      BY <1>1, <2>2, <3>1 DEF MetricsTell
  <2>3. QED
    BY <2>1, <2>2
<1>15. QED
  BY <1>6, <1>7, <1>8, <1>9, <1>12, <1>13, <1>14 DEF SocialInv

LEMMA GatheredKeeps == SocialInv /\ Gathered => SocialInv'
<1> SUFFICES ASSUME SocialInv, Gathered PROVE SocialInv'
  OBVIOUS
<1>1. /\ pc = "searching" /\ \A p \in Platforms : search[p] \in {"idle", "answered"}
      /\ search' = search /\ website' = website /\ answer' = answer /\ offered' = offered
  BY DEF Gathered, AllAnswered, searchVars
<1>2. /\ link \in [Platforms -> Urls] /\ tier \in [Platforms -> Tiers]
      /\ answer \in [Platforms -> Answers]
  BY DEF SocialInv, TypeOK
<1>3. /\ \E p \in Platforms : search[p] # "idle"
      /\ \A p \in Platforms : search[p] = "idle" <=> link[p] # "none"
      /\ metrics["website_success"] = 1 <=> \E p \in Platforms : link[p] # "none"
  BY <1>1 DEF SocialInv, During
<1>4. PICK ls, ts :
        /\ ls = Answered
        /\ ts = [p \in Platforms |-> IF Found(p)
                                     THEN IF answer[p].canonical THEN "medium" ELSE "low"
                                     ELSE tier[p]]
  OBVIOUS
<1>5. ls \in [Platforms -> Urls] /\ ts \in [Platforms -> Tiers]
  BY <1>2, <1>4 DEF Answered, Answers, Tiers
<1>6. \A p \in Platforms :
        /\ Found(p) => /\ link[p] = "none" /\ ls[p] = answer[p].url /\ ls[p] # "none"
                       /\ ts[p] = IF "own" \in offered[p] THEN "medium" ELSE "low"
        /\ ~Found(p) => ls[p] = link[p] /\ ts[p] = tier[p]
  BY <1>3, <1>4 DEF Answered, Found, SocialInv, AnswerTells
<1>7. Finish(ls, ts)
  BY <1>4 DEF Gathered
<1>8. /\ link' = [p \in Platforms |-> IF Valid(ls[p]) THEN ls[p] ELSE "none"]
      /\ tier' = [p \in Platforms |-> IF Valid(ls[p]) THEN ts[p] ELSE "none"]
      /\ pc' = "done" /\ link' \in [Platforms -> Urls] /\ tier' \in [Platforms -> Tiers]
  BY <1>5, <1>7, FinishGives
<1>9. \A p \in Platforms : Found(p)' <=> Found(p)
  BY <1>1 DEF Found
<1>10. PICK cs :
        cs = Processed(ls) \cup
             (IF \E p \in Platforms : Found(p) THEN {"search_fallback_used"} ELSE {})
  OBVIOUS
<1>11. metrics' = [c \in Counters |-> metrics[c] + (IF c \in cs THEN 1 ELSE 0)]
  BY <1>4, <1>10 DEF Gathered, Record
<1>12. /\ metrics \in [Counters -> 0..1]
       /\ metrics["total_processed"] = 0 /\ metrics["search_fallback_used"] = 0
       /\ \A p \in Platforms : metrics[p] = 0
  <2>1. metrics \in [Counters -> 0..1]
    BY DEF SocialInv, TypeOK
  <2>2. metrics["total_processed"] # 1 /\ metrics["search_fallback_used"] # 1
        /\ \A p \in Platforms : metrics[p] # 1
    BY <1>1 DEF SocialInv, MetricsTell
  <2>3. QED
    BY <2>1, <2>2, Names
<1>13. /\ "total_processed" \in cs /\ "website_success" \notin cs /\ "html_fetch_success" \notin cs
       /\ "search_fallback_used" \in cs <=> \E p \in Platforms : Found(p)
       /\ \A p \in Platforms : p \in cs <=> ls[p] # "none"
  <2>1. "search_fallback_used" \notin Processed(ls)
    BY Names DEF Processed
  <2>2. \A p \in Platforms : p \in Processed(ls) <=> ls[p] # "none"
    BY Names DEF Processed, Missing
  <2>3. "total_processed" \in Processed(ls)
        /\ "website_success" \notin Processed(ls) /\ "html_fetch_success" \notin Processed(ls)
    BY Names DEF Processed
  <2>4. QED
    BY <1>10, <2>1, <2>2, <2>3, Names
<1>14. /\ metrics'["total_processed"] = 1
       /\ metrics'["website_success"] = metrics["website_success"]
       /\ metrics'["search_fallback_used"] = 1 <=> \E p \in Platforms : Found(p)
       /\ \A p \in Platforms : metrics'[p] = 1 <=> ls[p] # "none"
  BY <1>11, <1>12, <1>13, Names
<1>15. metrics' \in [Counters -> 0..1]
  <2>1. \A c \in Counters : metrics[c] = 0 \/ c \notin cs
    BY <1>12, <1>13, Names
  <2>2. QED
    BY <1>11, <1>12, <2>1
<1>16. TypeOK'
  BY <1>1, <1>8, <1>15 DEF SocialInv, TypeOK, Controls
<1>17. (Before /\ During /\ After /\ AnswerTells)'
  BY <1>1, <1>8 DEF SocialInv, Before, During, After, AnswerTells
<1>18. \A p \in Platforms :
        link'[p] # "none" => Valid(ls[p]) /\ link'[p] = ls[p] /\ tier'[p] = ts[p] /\ ls[p] # "none"
  BY <1>8
<1>19. TierTellsSource'
  <2>1. ASSUME NEW p \in Platforms PROVE link'[p] = "none" <=> tier'[p] = "none"
    <3>1. ls[p] = "none" <=> ts[p] = "none"
      BY <1>6 DEF SocialInv, TierTellsSource
    <3>2. QED
      BY <1>8, <3>1 DEF Valid
  <2>2. ASSUME NEW p \in Platforms, link'[p] # "none"
        PROVE  tier'[p] = CASE Found(p) -> IF "own" \in offered[p] THEN "medium" ELSE "low"
                            [] ~Found(p) /\ website = p -> "high"
                            [] OTHER -> SiteTier(link'[p])
    <3>1. link'[p] = ls[p] /\ tier'[p] = ts[p] /\ ls[p] # "none"
      BY <1>18, <2>2
    <3>2. CASE Found(p)
      BY <1>6, <3>1, <3>2
    <3>3. CASE ~Found(p)
      BY <1>6, <3>1, <3>3 DEF SocialInv, TierTellsSource
    <3>4. QED
      BY <3>2, <3>3
  <2>3. QED
    BY <1>1, <1>9, <2>1, <2>2 DEF TierTellsSource
<1>20. AnswersCount'
  <2>1. ASSUME NEW p \in Platforms, search[p] # "idle"
        PROVE  search[p] = "answered" /\ (Valid(link'[p]) <=> Valid(answer[p].url))
    <3>1. search[p] = "answered" /\ link[p] = "none"
      BY <1>1, <1>3, <2>1
    <3>2. ls[p] = answer[p].url
      BY <1>6, <3>1 DEF Found
    <3>3. QED
      BY <1>8, <3>1, <3>2 DEF Valid
  <2>2. QED
    BY <1>1, <2>1 DEF AnswersCount
<1>21. MetricsTell'
  <2>1. /\ \A p \in Platforms : search'[p] # "raised"
        /\ ~(\A p \in Platforms : search'[p] = "idle")
    BY <1>1, <1>3
  <2>2. \A p \in Platforms : metrics'[p] = 1 =>
            metrics'["website_success"] = 1 \/ metrics'["search_fallback_used"] = 1
    BY <1>3, <1>6, <1>14
  <2>3. \A p \in Platforms :
            /\ link'[p] # "none" => metrics'[p] = 1
            /\ Found(p)' => metrics'[p] = 1
    BY <1>6, <1>9, <1>14, <1>18
  <2>4. metrics'["search_fallback_used"] = 1 => \E p \in Platforms : Found(p)'
    BY <1>9, <1>14
  <2>5. QED
    BY <1>8, <1>14, <2>1, <2>2, <2>3, <2>4 DEF MetricsTell
<1>22. QED
  BY <1>16, <1>17, <1>19, <1>20, <1>21 DEF SocialInv

LEMMA GatherFailsKeeps == SocialInv /\ GatherFails => SocialInv'
<1> SUFFICES ASSUME SocialInv, GatherFails PROVE SocialInv'
  OBVIOUS
<1>1. /\ pc = "searching" /\ \E p \in Platforms : search[p] = "raised"
      /\ search' = search /\ website' = website /\ answer' = answer /\ offered' = offered
      /\ metrics' = metrics
  BY DEF GatherFails, searchVars
<1>2. PICK ls \in [Platforms -> Urls], ts \in [Platforms -> Tiers] : ls = link /\ ts = tier
  BY DEF SocialInv, TypeOK
<1>3. Finish(ls, ts)
  BY <1>2 DEF GatherFails
<1>4. /\ link' = [p \in Platforms |-> IF Valid(ls[p]) THEN ls[p] ELSE "none"]
      /\ tier' = [p \in Platforms |-> IF Valid(ls[p]) THEN ts[p] ELSE "none"]
      /\ pc' = "done" /\ link' \in [Platforms -> Urls] /\ tier' \in [Platforms -> Tiers]
  BY <1>3, FinishGives
<1>5. \A p \in Platforms : search[p] = "idle" <=> link[p] # "none"
  BY <1>1 DEF SocialInv, During
<1>6. \A p \in Platforms :
        /\ link'[p] # "none" => link'[p] = link[p] /\ tier'[p] = tier[p]
        /\ link[p] = "none" => link'[p] = "none"
        /\ link'[p] = "none" <=> tier'[p] = "none"
  BY <1>2, <1>4 DEF Valid, SocialInv, TierTellsSource
<1>7. \A p \in Platforms : Found(p)' <=> Found(p)
  BY <1>1 DEF Found
<1>8. TypeOK'
  BY <1>1, <1>4 DEF SocialInv, TypeOK, Controls
<1>9. (Before /\ During)'
  BY <1>4 DEF Before, During
<1>10. (After /\ AnswerTells)'
  BY <1>1, <1>4, <1>6 DEF SocialInv, After, AnswerTells
<1>11. TierTellsSource'
  BY <1>1, <1>6, <1>7 DEF SocialInv, TierTellsSource
<1>12. AnswersCount'
  BY <1>1 DEF AnswersCount
<1>13. MetricsTell'
  <2>1. metrics["total_processed"] # 1 /\ metrics["search_fallback_used"] # 1
        /\ \A p \in Platforms : metrics[p] # 1
    BY <1>1 DEF SocialInv, MetricsTell
  <2>2. QED
    BY <1>1, <2>1 DEF MetricsTell
<1>14. QED
  BY <1>8, <1>9, <1>10, <1>11, <1>12, <1>13 DEF SocialInv

LEMMA CancelKeeps == SocialInv /\ Cancel => SocialInv'
<1> SUFFICES ASSUME SocialInv, Cancel PROVE SocialInv'
  OBVIOUS
<1>1. /\ pc \in {"fetching", "searching"} /\ pc' = "cancelled"
      /\ UNCHANGED <<website, link, tier, answer, offered, metrics>>
  BY DEF Cancel
<1>2. search \in [Platforms -> Searches]
  BY DEF SocialInv, TypeOK
<1>3. /\ search' \in [Platforms -> Searches]
      /\ \A p \in Platforms : search[p] # "asked" => search'[p] = search[p]
      /\ \A p \in Platforms : search[p] = "asked" => search'[p] \in {"asked", "cancelled"}
      /\ (\E p \in Platforms : search'[p] = "asked") => \E p \in Platforms : search[p] = "raised"
  <2>1. CASE search' = [p \in Platforms |-> IF search[p] = "asked" THEN "cancelled" ELSE search[p]]
    BY <1>2, <2>1 DEF Searches
  <2>2. CASE (\E p \in Platforms : search[p] = "raised") /\ search' = search
    BY <1>2, <2>2
  <2>3. QED
    BY <2>1, <2>2 DEF Cancel
<1>4. \A p \in Platforms : Found(p)' <=> Found(p)
  BY <1>1, <1>3 DEF Found
<1>5. TypeOK'
  BY <1>1, <1>3 DEF SocialInv, TypeOK, Controls
<1>6. (Before /\ During)'
  BY <1>1 DEF Before, During
<1>7. After'
  <2>1. \A p \in Platforms : search[p] # "idle" => link[p] = "none"
    BY <1>1 DEF SocialInv, Before, During
  <2>2. QED
    BY <1>1, <1>3, <2>1 DEF After
<1>8. AnswerTells'
  BY <1>1, <1>3 DEF SocialInv, AnswerTells
<1>9. TierTellsSource'
  BY <1>1, <1>4 DEF SocialInv, TierTellsSource
<1>10. AnswersCount'
  BY <1>1 DEF AnswersCount
<1>11. MetricsTell'
  <2>1. metrics["total_processed"] # 1 /\ metrics["search_fallback_used"] # 1
        /\ \A p \in Platforms : metrics[p] # 1
    BY <1>1 DEF SocialInv, MetricsTell
  <2>2. QED
    BY <1>1, <2>1 DEF MetricsTell
<1>12. QED
  BY <1>5, <1>6, <1>7, <1>8, <1>9, <1>10, <1>11 DEF SocialInv

LEMMA SocialStep == SocialInv /\ [Next]_vars => SocialInv'
<1> SUFFICES ASSUME SocialInv, [Next]_vars PROVE SocialInv'
  OBVIOUS
<1>1. CASE UNCHANGED vars
  BY <1>1 DEF vars, leadVars, searchVars, SocialInv, TypeOK, Before, During, After, AnswerTells,
              TierTellsSource, AnswersCount, MetricsTell, Found
<1>2. CASE Take
  BY <1>2, TakeKeeps
<1>3. CASE Fetched
  BY <1>3, FetchedKeeps
<1>4. CASE Gathered
  BY <1>4, GatheredKeeps
<1>5. CASE GatherFails
  BY <1>5, GatherFailsKeeps
<1>6. CASE \E p \in Platforms : Search(p)
  BY <1>6, SearchKeeps
<1>7. CASE Cancel
  BY <1>7, CancelKeeps
<1>8. CASE Over
  BY <1>1, <1>8 DEF Over
<1>9. QED
  BY <1>1, <1>2, <1>3, <1>4, <1>5, <1>6, <1>7, <1>8 DEF Next, LeadStep

LEMMA SocialStart == Init => SocialInv
<1> SUFFICES ASSUME Init PROVE SocialInv
  OBVIOUS
<1>1. TypeOK
  BY DEF Init, TypeOK, Urls, Tiers, Controls, Searches, Answers, NoAnswer
<1>2. Before /\ During /\ After /\ AnswerTells
  BY DEF Init, Before, During, After, AnswerTells
<1>3. TierTellsSource /\ AnswersCount
  BY DEF Init, TierTellsSource, AnswersCount
<1>4. MetricsTell
  <2>1. metrics["total_processed"] = 0 /\ metrics["search_fallback_used"] = 0
        /\ \A p \in Platforms : metrics[p] = 0
    BY Names DEF Init
  <2>2. pc = "taken" /\ \A p \in Platforms : ~Found(p)
    BY DEF Init, Found
  <2>3. QED
    BY <2>1, <2>2 DEF MetricsTell
<1>5. QED
  BY <1>1, <1>2, <1>3, <1>4 DEF SocialInv

LEMMA SocialInvariant == Spec => []SocialInv
  BY SocialStart, SocialStep, PTL DEF Spec

(* TypeOK: no counter is ever incremented twice for one lead.              *)
THEOREM SocialTyping == Spec => []TypeOK
<1>1. SocialInv => TypeOK
  BY DEF SocialInv
<1>2. QED
  BY <1>1, SocialInvariant, PTL

(* However the searches interleave, fail or come late, the tier beside a   *)
(* link is that of the place it came from.                                 *)
THEOREM TierAlwaysTells == Spec => []TierTellsSource
<1>1. SocialInv => TierTellsSource
  BY DEF SocialInv
<1>2. QED
  BY <1>1, SocialInvariant, PTL

(* A lead that is through has what either search found, unless one raised. *)
THEOREM AnswersAlwaysCount == Spec => []AnswersCount
<1>1. SocialInv => AnswersCount
  BY DEF SocialInv
<1>2. QED
  BY <1>1, SocialInvariant, PTL

(* Searches run for what the website did not give, and one outlives its    *)
(* lead, done or cancelled, only where the other one raised.               *)
THEOREM SearchesAlwaysBelong == Spec => []SearchesBelong
<1>1. SocialInv => SearchesBelong
  <2> SUFFICES ASSUME SocialInv PROVE SearchesBelong
    OBVIOUS
  <2>1. pc = "searching" => \A p \in Platforms : search[p] = "idle" <=> link[p] # "none"
    BY DEF SocialInv, During
  <2>2. ASSUME pc \in {"done", "cancelled"}, NEW p \in Platforms, search[p] = "asked"
        PROVE  \E q \in Platforms : search[q] = "raised"
    <3>1. CASE pc = "done"
      BY <2>2, <3>1 DEF SocialInv, AnswersCount
    <3>2. CASE pc = "cancelled"
      BY <2>2, <3>2 DEF SocialInv, After
    <3>3. QED
      BY <2>2, <3>1, <3>2
  <2>3. QED
    BY <2>1, <2>2 DEF SearchesBelong
<1>2. QED
  BY <1>1, SocialInvariant, PTL

(* The metrics are about exactly the leads whose discovery returned, and   *)
(* what they count as found came from somewhere.                           *)
THEOREM MetricsAlwaysTell == Spec => []MetricsTell
<1>1. SocialInv => MetricsTell
  BY DEF SocialInv
<1>2. QED
  BY <1>1, SocialInvariant, PTL

(* Of any of the candidate lists, select() takes the best for each         *)
(* platform and accounts for every candidate once.                         *)
THEOREM AlwaysSelectsBest == Spec => []SelectsBest
<1>1. SelectsBest
  BY SelectionIsRight DEF SelectsBest
<1>2. QED
  BY <1>1, PTL

(* A link is never replaced: selection drops a broken one, nothing else    *)
(* changes one.                                                            *)
THEOREM FoundAlwaysStays == Spec => FoundStays
<1>1. ASSUME SocialInv, [Next]_vars, NEW p \in Platforms, link[p] # "none"
      PROVE  link'[p] = link[p] \/ (link[p] = "broken" /\ link'[p] = "none")
  <2>1. CASE UNCHANGED link
    BY <2>1
  <2>2. link[p] \in Urls /\ pc # "taken" /\ pc # "fetching"
    BY <1>1 DEF SocialInv, TypeOK, Before
  <2>3. CASE Gathered
    <3>1. PICK ls : ls = Answered
      OBVIOUS
    <3>2. search[p] = "idle"
      BY <1>1, <2>3 DEF Gathered, SocialInv, During
    <3>3. ls \in [Platforms -> Urls] /\ ls[p] = link[p]
      BY <1>1, <3>1, <3>2 DEF Answered, Found, SocialInv, TypeOK, Answers
    <3>4. PICK ts \in [Platforms -> Tiers] : Finish(ls, ts)
      <4>1. PICK ts : ts = [q \in Platforms |-> IF Found(q)
                                   THEN IF answer[q].canonical THEN "medium" ELSE "low"
                                   ELSE tier[q]]
        OBVIOUS
      <4>2. ts \in [Platforms -> Tiers]
        BY <1>1, <4>1 DEF SocialInv, TypeOK, Tiers
      <4>3. Finish(ls, ts)
        BY <2>3, <3>1, <4>1 DEF Gathered
      <4>4. QED
        BY <4>2, <4>3
    <3>5. link' = [q \in Platforms |-> IF Valid(ls[q]) THEN ls[q] ELSE "none"]
      BY <3>3, <3>4, FinishGives
    <3>6. QED
      BY <2>2, <1>1, <3>3, <3>5 DEF Valid, Urls, Shapes
  <2>4. CASE GatherFails
    <3>1. PICK ls \in [Platforms -> Urls], ts \in [Platforms -> Tiers] : ls = link /\ ts = tier
      BY <1>1 DEF SocialInv, TypeOK
    <3>2. Finish(ls, ts)
      BY <2>4, <3>1 DEF GatherFails
    <3>3. link' = [q \in Platforms |-> IF Valid(ls[q]) THEN ls[q] ELSE "none"]
      BY <3>2, FinishGives
    <3>4. QED
      BY <2>2, <1>1, <3>1, <3>3 DEF Valid, Urls, Shapes
  <2>5. Take \/ Fetched => FALSE
    BY <2>2 DEF Take, Fetched
  <2>6. (\E q \in Platforms : Search(q)) => UNCHANGED link
    BY DEF Search, leadVars
  <2>7. (Cancel \/ Over \/ UNCHANGED vars) => UNCHANGED link
    BY DEF Cancel, Over, vars, leadVars
  <2>8. QED
    BY <1>1, <2>1, <2>3, <2>4, <2>5, <2>6, <2>7 DEF Next, LeadStep
<1>2. SocialInv /\ [Next]_vars =>
        [\A p \in Platforms :
            link[p] # "none" => link'[p] = link[p] \/ (link[p] = "broken" /\ link'[p] = "none")]_vars
  BY <1>1
<1>3. QED
  BY <1>2, SocialInvariant, PTL DEF Spec, FoundStays

\* What the best link of a lead can be, before and after selection.
LEMMA BestLinks ==
    ASSUME NEW ls \in [Platforms -> Urls]
    PROVE  /\ BestOf(ls) \in {"none", "rejected", "usable"}
           /\ BestOf(ls) = "usable" <=> \E p \in Platforms : Valid(ls[p])
           /\ BestOf(ls) = "none" <=> \A p \in Platforms : ls[p] = "none"
<1>1. /\ BestOf(ls) \in {"none", "rejected", "usable"}
      /\ BestOf(ls) = "usable" <=> \E p \in Platforms : Valid(ls[p])
  BY DEF BestOf
<1>2. BestOf(ls) = "none" <=> \A p \in Platforms : ls[p] = "none"
  BY DEF BestOf, Valid, Urls, Shapes
<1>3. QED
  BY <1>1, <1>2

LEMMA BestSelected ==
    ASSUME NEW ls \in [Platforms -> Urls], NEW fs,
           fs = [p \in Platforms |-> IF Valid(ls[p]) THEN ls[p] ELSE "none"]
    PROVE  BestOf(fs) = IF BestOf(ls) = "usable" THEN "usable" ELSE "none"
<1>1. \A p \in Platforms : fs[p] # "broken" /\ (Valid(fs[p]) <=> Valid(ls[p]))
  BY DEF Valid
<1>2. BestOf(ls) = "usable" <=> \E p \in Platforms : Valid(ls[p])
  BY BestLinks
<1>3. QED
  BY <1>1, <1>2 DEF BestOf

\* What a lead's website gives, seen as one link.
LEMMA WebsiteIsOneStep ==
    ASSUME NEW ls, NEW ts, NEW fetched,
           SocialInv, pc \in {"taken", "fetching"}, Gave(ls, ts), GoOn(ls, ts, fetched),
           pc = "taken" => Missing(ls) # {}
    PROVE  OneLink!SearchAtOnce \/ OneLink!Fetched
<1>1. /\ ls \in [Platforms -> Urls] /\ ts \in [Platforms -> Tiers]
      /\ link \in [Platforms -> Urls] /\ \A p \in Platforms : link[p] = "none"
  BY DEF Gave, SocialInv, Before, TypeOK
<1>2. BestOf(link) = "none" /\ BestOf(ls) \in {"none", "rejected", "usable"}
  <2>1. PICK now \in [Platforms -> Urls] : now = link
    BY <1>1
  <2>2. \A p \in Platforms : now[p] = "none"
    BY <1>1, <2>1
  <2>3. BestOf(now) = "none"
    BY <2>2, BestLinks
  <2>4. BestOf(ls) \in {"none", "rejected", "usable"}
    BY <1>1, BestLinks
  <2>5. QED
    BY <2>1, <2>3, <2>4
<1>3. CASE Missing(ls) = {}
  <2>1. Finish(ls, ts) /\ pc = "fetching"
    BY <1>3 DEF GoOn
  <2>2. pc' = "done" /\ link' = [p \in Platforms |-> IF Valid(ls[p]) THEN ls[p] ELSE "none"]
    BY <1>1, <2>1, FinishGives
  <2>3. BestOf(link') = IF BestOf(ls) = "usable" THEN "usable" ELSE "none"
    BY <1>1, <2>2, BestSelected
  <2>4. LinkStage = "fetching" /\ LinkStage' = "delivered"
    BY <2>1, <2>2 DEF LinkStage
  <2>5. OneLink!Fetched
    BY <1>2, <2>3, <2>4 DEF OneLink!Fetched, OneLink!Better, OneLink!Selected, OneLink!Best
  <2>6. QED
    BY <2>5
<1>4. CASE Missing(ls) # {}
  <2>1. link' = ls /\ pc' = "searching"
    BY <1>4 DEF GoOn
  <2>2. LinkStage = pc /\ LinkStage' = "searching" /\ BestOf(link') = BestOf(ls)
    BY <2>1 DEF LinkStage
  <2>3. CASE pc = "taken"
    BY <1>2, <2>2, <2>3 DEF OneLink!SearchAtOnce, OneLink!Best
  <2>4. CASE pc = "fetching"
    BY <1>2, <2>2, <2>4 DEF OneLink!Fetched, OneLink!Better, OneLink!Best
  <2>5. QED
    BY <2>3, <2>4
<1>5. QED
  BY <1>3, <1>4

\* The round of searches, however it ends, seen as one link.
LEMMA SearchesAreOneStep ==
    ASSUME SocialInv, pc = "searching",
           NEW ls \in [Platforms -> Urls], NEW ts \in [Platforms -> Tiers], Finish(ls, ts),
           \A p \in Platforms : link[p] # "none" => ls[p] = link[p]
    PROVE  OneLink!Searched
<1>1. pc' = "done" /\ link' = [p \in Platforms |-> IF Valid(ls[p]) THEN ls[p] ELSE "none"]
  BY FinishGives
<1>2. BestOf(link') = IF BestOf(ls) = "usable" THEN "usable" ELSE "none"
  BY <1>1, BestSelected
<1>3. link \in [Platforms -> Urls]
  BY DEF SocialInv, TypeOK
<1>4. /\ BestOf(link) \in {"none", "rejected", "usable"}
      /\ BestOf(ls) \in {"none", "rejected", "usable"}
      /\ BestOf(link) = "usable" => BestOf(ls) = "usable"
      /\ BestOf(link) = "rejected" => BestOf(ls) # "none"
  <2>1. PICK now \in [Platforms -> Urls] : now = link
    BY <1>3
  <2>2. /\ BestOf(now) \in {"none", "rejected", "usable"}
        /\ BestOf(now) = "usable" <=> \E p \in Platforms : Valid(now[p])
        /\ BestOf(now) = "none" <=> \A p \in Platforms : now[p] = "none"
    BY BestLinks
  <2>3. /\ BestOf(ls) \in {"none", "rejected", "usable"}
        /\ BestOf(ls) = "usable" <=> \E p \in Platforms : Valid(ls[p])
        /\ BestOf(ls) = "none" <=> \A p \in Platforms : ls[p] = "none"
    BY BestLinks
  <2>4. \A p \in Platforms : now[p] # "none" => ls[p] = now[p]
    BY <2>1
  <2>5. \A u : Valid(u) => u # "none"
    BY DEF Valid
  <2>6. /\ BestOf(now) = "usable" => BestOf(ls) = "usable"
        /\ BestOf(now) = "rejected" => BestOf(ls) # "none"
    BY <2>2, <2>3, <2>4, <2>5
  <2>7. QED
    BY <2>1, <2>2, <2>3, <2>6
<1>5. LinkStage = "searching" /\ LinkStage' = "delivered"
  BY <1>1 DEF LinkStage
<1>6. PICK found \in {"none", "rejected", "usable"} : found = BestOf(ls)
  BY <1>4
<1>7. found \in OneLink!Better(BestOf(link)) /\ BestOf(link') = OneLink!Selected(found)
  BY <1>2, <1>4, <1>6 DEF OneLink!Better, OneLink!Selected, OneLink!Best
<1>8. QED
  BY <1>5, <1>7 DEF OneLink!Searched

LEMMA LinkMoves ==
    SocialInv /\ [Next]_vars => [OneLink!LinkStep \/ OneLink!GiveUp]_OneLink!linkVars
<1> SUFFICES ASSUME SocialInv, [Next]_vars
             PROVE  OneLink!LinkStep \/ OneLink!GiveUp \/ UNCHANGED OneLink!linkVars
  OBVIOUS
<1>1. /\ link \in [Platforms -> Urls] /\ tier \in [Platforms -> Tiers]
      /\ answer \in [Platforms -> Answers] /\ website \in Sites
  BY DEF SocialInv, TypeOK
<1>2. "none" \in Urls /\ "none" \in Tiers /\ "high" \in Tiers
  BY DEF Urls, Tiers
<1>3. ASSUME link' = link, pc' = pc PROVE UNCHANGED OneLink!linkVars
  BY <1>3 DEF OneLink!linkVars, LinkStage
<1>4. CASE Take
  <2>1. /\ pc = "taken" /\ link = [p \in Platforms |-> "none"] /\ tier = [p \in Platforms |-> "none"]
    BY <1>4 DEF Take, SocialInv, Before
  <2>2. CASE TakeListed
    <3>1. PICK u \in Normalized :
            GoOn([link EXCEPT ![website] = u],
                 [tier EXCEPT ![website] = IF u = "none" THEN "none" ELSE "high"], {})
      BY <2>2 DEF TakeListed
    <3>2. PICK ls, ts : ls = [link EXCEPT ![website] = u]
                        /\ ts = [tier EXCEPT ![website] = IF u = "none" THEN "none" ELSE "high"]
      OBVIOUS
    <3>3. website \in Platforms /\ u \in Urls
      BY <2>2 DEF TakeListed, Normalized
    <3>4. Gave(ls, ts)
      BY <1>2, <2>1, <3>2, <3>3 DEF Gave
    <3>5. Missing(ls) # {}
      <4>1. PICK q \in Platforms : q # website
        BY Names
      <4>2. ls[q] = "none"
        BY <2>1, <3>2, <4>1
      <4>3. QED
        BY <4>2 DEF Missing
    <3>6. GoOn(ls, ts, {})
      BY <3>1, <3>2
    <3>7. QED
      BY <2>1, <3>4, <3>5, <3>6, WebsiteIsOneStep DEF OneLink!LinkStep
  <2>3. CASE TakeSite
    <3>1. pc' = "fetching" /\ link' = link
      BY <2>3 DEF TakeSite
    <3>2. LinkStage = "taken" /\ LinkStage' = "fetching"
      BY <2>1, <3>1 DEF LinkStage
    <3>3. OneLink!FetchFirst
      BY <3>1, <3>2 DEF OneLink!FetchFirst
    <3>4. QED
      BY <3>3 DEF OneLink!LinkStep
  <2>4. CASE TakeNone
    <3>1. PICK ls, ts : ls = link /\ ts = tier
      OBVIOUS
    <3>2. Gave(ls, ts)
      BY <1>2, <2>1, <3>1 DEF Gave
    <3>3. GoOn(ls, ts, {})
      BY <2>4, <3>1 DEF TakeNone
    <3>4. Missing(ls) # {}
      BY <2>1, <3>1, Names DEF Missing
    <3>5. QED
      BY <2>1, <3>2, <3>3, <3>4, WebsiteIsOneStep DEF OneLink!LinkStep
  <2>5. QED
    BY <1>4, <2>2, <2>3, <2>4 DEF Take
<1>5. CASE Fetched
  <2>1. /\ pc = "fetching" /\ website = "site"
        /\ link = [p \in Platforms |-> "none"] /\ tier = [p \in Platforms |-> "none"]
    BY <1>5 DEF Fetched, SocialInv, Before
  <2>2. CASE Finish(link, tier)
    <3>1. PICK ls \in [Platforms -> Urls], ts \in [Platforms -> Tiers] : ls = link /\ ts = tier
      BY <1>1
    <3>2. Finish(ls, ts)
      BY <2>2, <3>1
    <3>3. pc' = "done" /\ link' = [p \in Platforms |-> IF Valid(ls[p]) THEN ls[p] ELSE "none"]
      BY <3>2, FinishGives
    <3>4. BestOf(link) = "none"
      BY <1>1, <2>1, BestLinks
    <3>5. BestOf(link') = "none"
      BY <3>1, <3>3, <3>4, BestSelected
    <3>6. LinkStage = "fetching" /\ LinkStage' = "delivered"
      BY <2>1, <3>3 DEF LinkStage
    <3>7. OneLink!Fetched
      BY <3>4, <3>5, <3>6 DEF OneLink!Fetched, OneLink!Better, OneLink!Selected, OneLink!Best
    <3>8. QED
      BY <3>7 DEF OneLink!LinkStep
  <2>3. CASE GoOn(link, tier, {})
    <3>1. PICK ls, ts : ls = link /\ ts = tier
      OBVIOUS
    <3>2. Gave(ls, ts)
      BY <1>2, <2>1, <3>1 DEF Gave
    <3>3. GoOn(ls, ts, {})
      BY <2>3, <3>1
    <3>4. QED
      BY <2>1, <3>2, <3>3, WebsiteIsOneStep DEF OneLink!LinkStep
  <2>4. CASE \E seen \in PageLinks :
            GoOn([p \in Platforms |-> IF link[p] = "none" THEN seen[p] ELSE link[p]],
                 [p \in Platforms |-> IF link[p] = "none" THEN SiteTier(seen[p]) ELSE tier[p]],
                 {"html_fetch_success"})
    <3>1. PICK seen \in PageLinks :
            GoOn([p \in Platforms |-> IF link[p] = "none" THEN seen[p] ELSE link[p]],
                 [p \in Platforms |-> IF link[p] = "none" THEN SiteTier(seen[p]) ELSE tier[p]],
                 {"html_fetch_success"})
      BY <2>4
    <3>2. PICK ls, ts :
            /\ ls = [p \in Platforms |-> IF link[p] = "none" THEN seen[p] ELSE link[p]]
            /\ ts = [p \in Platforms |-> IF link[p] = "none" THEN SiteTier(seen[p]) ELSE tier[p]]
      OBVIOUS
    <3>3. Gave(ls, ts)
      BY <2>1, <3>2, PageGave
    <3>4. GoOn(ls, ts, {"html_fetch_success"})
      BY <3>1, <3>2
    <3>5. QED
      BY <2>1, <3>3, <3>4, WebsiteIsOneStep DEF OneLink!LinkStep
  <2>5. QED
    BY <1>5, <2>2, <2>3, <2>4 DEF Fetched
<1>6. CASE Gathered
  <2>1. pc = "searching" /\ \A p \in Platforms : link[p] # "none" => ~Found(p)
    BY <1>6 DEF Gathered, SocialInv, During, Found
  <2>2. PICK ls, ts : ls = Answered
                      /\ ts = [p \in Platforms |-> IF Found(p)
                                   THEN IF answer[p].canonical THEN "medium" ELSE "low"
                                   ELSE tier[p]]
    OBVIOUS
  <2>3. ls \in [Platforms -> Urls] /\ ts \in [Platforms -> Tiers]
    BY <1>1, <2>2 DEF Answered, Answers, Tiers
  <2>4. \A p \in Platforms : link[p] # "none" => ls[p] = link[p]
    BY <2>1, <2>2 DEF Answered
  <2>5. Finish(ls, ts)
    BY <1>6, <2>2 DEF Gathered
  <2>6. QED
    BY <2>1, <2>3, <2>4, <2>5, SearchesAreOneStep DEF OneLink!LinkStep
<1>7. CASE GatherFails
  <2>1. PICK ls \in [Platforms -> Urls], ts \in [Platforms -> Tiers] : ls = link /\ ts = tier
    BY <1>1
  <2>2. pc = "searching" /\ Finish(ls, ts)
    BY <1>7, <2>1 DEF GatherFails
  <2>3. QED
    BY <2>1, <2>2, SearchesAreOneStep DEF OneLink!LinkStep
<1>8. CASE \E p \in Platforms : Search(p)
  BY <1>3, <1>8 DEF Search, leadVars
<1>9. CASE Cancel
  <2>1. pc \in {"fetching", "searching"} /\ pc' = "cancelled" /\ link' = link
    BY <1>9 DEF Cancel
  <2>2. LinkStage \in {"fetching", "searching"} /\ LinkStage' = "cancelled"
    BY <2>1 DEF LinkStage
  <2>3. QED
    BY <2>1, <2>2 DEF OneLink!GiveUp
<1>10. CASE Over \/ UNCHANGED vars
  BY <1>3, <1>10 DEF Over, vars, leadVars
<1>11. QED
  BY <1>4, <1>5, <1>6, <1>7, <1>8, <1>9, <1>10 DEF Next, LeadStep

(* The two platforms of a lead, with their concurrent searches, implement  *)
(* the safety part of LinkDiscovery, the one link that LeadStream knows.   *)
THEOREM SocialImplementsLink ==
    Spec => OneLink!LinkInit /\ [][OneLink!LinkStep \/ OneLink!GiveUp]_OneLink!linkVars
<1>1. Init => OneLink!LinkInit
  <2> SUFFICES ASSUME Init PROVE OneLink!LinkInit
    OBVIOUS
  <2>1. LinkStage = "taken"
    BY DEF Init, LinkStage
  <2>2. BestOf(link) = "none"
    BY BestLinks DEF Init, Urls
  <2>3. QED
    BY <2>1, <2>2 DEF OneLink!LinkInit
<1>2. QED
  BY <1>1, LinkMoves, SocialInvariant, PTL DEF Spec
===============================================================================
