-------------------------- MODULE LeadStream_proofs --------------------------
(***************************************************************************)
(* Theorems about LeadStream, for every number of leads, workers and pages.*)
(***************************************************************************)
EXTENDS LeadStream, FiniteSetTheorems, SequenceTheorems, TLAPS

(* The number of workers of either kind is a positive number.              *)
LEMMA WorkerCounts ==
    Cardinality(EnrichWorkers) \in Nat \ {0} /\ Cardinality(SocialWorkers) \in Nat \ {0}
<1>1. Cardinality(EnrichWorkers) \in Nat /\ Cardinality(SocialWorkers) \in Nat
    BY WorkersAssumption, FS_CardinalityType
<1>2. Cardinality(EnrichWorkers) # 0 /\ Cardinality(SocialWorkers) # 0
    BY WorkersAssumption, FS_EmptySet
<1>3. QED
    BY <1>1, <1>2

(* A worker has a lead in its hands exactly between two gets, and a page   *)
(* exactly while it browses.                                               *)
Busy == \A w \in Workers : lead[w] = NoLead <=> pc[w] \in {"get", "exited"}
PageHeld == \A w \in Workers : (page[w] # NoPage) <=> (pc[w] = "browse")

Base == TypeOK /\ Busy /\ PageHeld

(* The counters stay numbers whatever is tallied.                          *)
LEMMA Tallies ==
    ASSUME counts \in [Counters -> Nat], NEW found
    PROVE  /\ SelectionTally(Bump(counts, SocialTally(found)), found) \in [Counters -> Nat]
           /\ Bump(counts, EnrichTally(found)) \in [Counters -> Nat]
<1> DEFINE cs == Bump(counts, SocialTally(found))
<1>1. cs \in [Counters -> Nat]
    BY DEF Bump, SocialTally, Counters
<1>2. \A c \in {"selection_before", "selection_after"} :
        \A ds \in [Counters -> Nat] : Bump(ds, c) \in [Counters -> Nat]
    BY DEF Bump, Counters
<1>3. SelectionTally(cs, found) \in [Counters -> Nat]
    BY <1>1, <1>2 DEF SelectionTally
<1>4. Bump(counts, EnrichTally(found)) \in [Counters -> Nat]
    BY DEF Bump, EnrichTally, Counters
<1>5. QED
    BY <1>3, <1>4

(* What delivering a lead, or going on with it, leaves behind.             *)
LEMMA DeliverEffect ==
    ASSUME TypeOK, NEW w \in Workers, NEW l \in Leads, NEW found \in Links,
           Deliver(w, l, found)
    PROVE  /\ counts' \in [Counters -> Nat]
           /\ links' \in [Leads -> Links]
           /\ \A k \in Leads \ {l} : links'[k] = links[k]
           /\ processed' = processed \cup {l}
           /\ pc' = [pc EXCEPT ![w] = "get"]
           /\ lead' = [lead EXCEPT ![w] = NoLead]
    BY Tallies DEF Deliver, TypeOK, Goto, Selected, Links

(* A lead that waits for one more answer keeps its worker busy and is not  *)
(* counted.                                                                *)
LEMMA ContinueEffect ==
    ASSUME TypeOK, NEW w \in Workers, NEW l \in Leads, NEW found \in Links, NEW to,
           Continue(w, l, found, to)
    PROVE  /\ counts' \in [Counters -> Nat]
           /\ links' \in [Leads -> Links]
           /\ \A k \in Leads \ {l} : links'[k] = links[k]
           /\ processed' = processed
           /\ pc' = [pc EXCEPT ![w] = to]
           /\ lead' = [lead EXCEPT ![w] = l]
    BY DEF Continue, TypeOK, Goto

(* A lead taken from the social queue is delivered or waits for an answer. *)
LEMMA SocialTakeEffect ==
    ASSUME TypeOK, NEW w \in SocialWorkers, SocialTake(w)
    PROVE  /\ Head(toSocial) \in Leads
           /\ toSocial' = Tail(toSocial)
           /\ counts' \in [Counters -> Nat]
           /\ links' \in [Leads -> Links]
           /\ \A k \in Leads \ {Head(toSocial)} : links'[k] = links[k]
           /\ \/ /\ cancelled
                 /\ processed' = processed \cup {Head(toSocial)}
                 /\ pc' = [pc EXCEPT ![w] = "get"]
                 /\ lead' = [lead EXCEPT ![w] = NoLead]
              \/ /\ ~cancelled
                 /\ processed' = processed
                 /\ \E to \in {"acquire", "search"} : pc' = [pc EXCEPT ![w] = to]
                 /\ lead' = [lead EXCEPT ![w] = Head(toSocial)]
<1> DEFINE l == Head(toSocial)
<1>1. l \in Leads /\ w \in Workers
    BY DEF TypeOK, SocialTake, QueueDone, Workers
<1>2. links[l] \in Links /\ "none" \in Links /\ "usable" \in Links
    BY <1>1 DEF TypeOK, Links
<1>3. CASE cancelled /\ \E found \in Links : Deliver(w, l, found)
    BY <1>1, <1>3, DeliverEffect DEF SocialTake
<1>4. CASE ~cancelled /\ \E found \in Links, to \in {"acquire", "search"} : Continue(w, l, found, to)
    BY <1>1, <1>4, ContinueEffect DEF SocialTake
<1>5. QED
    BY <1>2, <1>3, <1>4 DEF SocialTake, SkipsDiscovery

(* The answer to a fetch either ends the discovery or leads to a search.   *)
LEMMA SocialFetchedEffect ==
    ASSUME TypeOK, Busy, NEW w \in SocialWorkers, SocialFetched(w)
    PROVE  /\ lead[w] \in Leads
           /\ counts' \in [Counters -> Nat]
           /\ links' \in [Leads -> Links]
           /\ \A k \in Leads \ {lead[w]} : links'[k] = links[k]
           /\ \/ /\ processed' = processed \cup {lead[w]}
                 /\ pc' = [pc EXCEPT ![w] = "get"]
                 /\ lead' = [lead EXCEPT ![w] = NoLead]
              \/ /\ processed' = processed
                 /\ pc' = [pc EXCEPT ![w] = "search"]
                 /\ lead' = lead
<1>1. lead[w] \in Leads /\ w \in Workers
    BY DEF TypeOK, Busy, SocialFetched, Workers, NoLead
<1>2. links[lead[w]] \in Links
    BY <1>1 DEF TypeOK
<1>3. CASE \E found \in Links : Deliver(w, lead[w], found)
    BY <1>1, <1>3, DeliverEffect
<1>4. CASE \E found \in Links : Continue(w, lead[w], found, "search")
    BY <1>1, <1>4, ContinueEffect DEF TypeOK
<1>5. QED
    BY <1>2, <1>3, <1>4 DEF SocialFetched

(* The answer to a search ends the discovery.                              *)
LEMMA SocialSearchedEffect ==
    ASSUME TypeOK, Busy, NEW w \in SocialWorkers, SocialSearched(w)
    PROVE  /\ lead[w] \in Leads
           /\ counts' \in [Counters -> Nat]
           /\ links' \in [Leads -> Links]
           /\ \A k \in Leads \ {lead[w]} : links'[k] = links[k]
           /\ processed' = processed \cup {lead[w]}
           /\ pc' = [pc EXCEPT ![w] = "get"]
           /\ lead' = [lead EXCEPT ![w] = NoLead]
<1>1. lead[w] \in Leads /\ w \in Workers
    BY DEF TypeOK, Busy, SocialSearched, Workers, NoLead
<1>2. links[lead[w]] \in Links
    BY <1>1 DEF TypeOK
<1>3. Better(links[lead[w]]) \subseteq Links
    BY <1>2 DEF Better, Links
<1>4. QED
    BY <1>1, <1>3, DeliverEffect DEF SocialSearched

(* The parts of Base a step of a worker, the feeder or the main coroutine  *)
(* can disturb.                                                            *)
LEMMA BaseStep == ASSUME Base, [Next]_vars PROVE Base'
<1> USE DEF Base, TypeOK, Busy, PageHeld
<1> USE WorkersAssumption, PagesAssumption, LeadsAssumption
<1>1. CASE Feed
    BY <1>1 DEF Feed, FeedItem, leadVars, workerVars, mainVars, fixedVars, Leads, QueueDone
<1>2. ASSUME NEW w \in EnrichWorkers, EnrichTake(w) PROVE Base'
    BY <1>2 DEF EnrichTake, Goto, leadVars, mainVars, fixedVars, Controls, Workers, NoLead, QueueDone
<1>3. ASSUME NEW w \in EnrichWorkers, EnrichQuit(w) PROVE Base'
    BY <1>3 DEF EnrichQuit, Goto, leadVars, mainVars, fixedVars, Controls, Workers, NoLead, QueueDone
<1>4. ASSUME NEW w \in Workers, AcquirePage(w) PROVE Base'
    BY <1>4 DEF AcquirePage, TakePage, Goto, leadVars, queueVars, mainVars, fixedVars, Controls
<1>5. ASSUME NEW w \in EnrichWorkers, EnrichFinish(w) PROVE Base'
    <2>1. lead[w] \in Leads /\ w \in Workers /\ website[lead[w]] \in Websites
        BY <1>5 DEF EnrichFinish, Workers, NoLead
    <2>2. website' \in [Leads -> Websites] /\ counts' \in [Counters -> Nat]
        BY <1>5, <2>1, Tallies DEF EnrichFinish, Websites
    <2>3. QED
        BY <1>5, <2>1, <2>2 DEF EnrichFinish, ReleasePage, Goto, queueVars, mainVars, fixedVars, Controls, NoLead
<1>6. ASSUME NEW w \in EnrichWorkers, Forward(w) PROVE Base'
    BY <1>6 DEF Forward, Goto, leadVars, mainVars, fixedVars, Controls, Workers, NoLead, QueueDone
<1>7. ASSUME NEW w \in SocialWorkers, SocialTake(w) PROVE Base'
    <2>1. /\ UNCHANGED <<website, fed, toEnrich, page, free, main, markers, batch, needed, cancelled>>
          /\ toSocial # << >> /\ pc[w] = "get"
        BY <1>7 DEF SocialTake, mainVars, fixedVars
    <2>2. /\ Head(toSocial) \in Leads
          /\ toSocial' = Tail(toSocial)
          /\ counts' \in [Counters -> Nat] /\ links' \in [Leads -> Links]
          /\ processed' \in {processed, processed \cup {Head(toSocial)}}
        BY <1>7, SocialTakeEffect
    <2>3. /\ \E to \in {"get", "acquire", "search"}, l \in {NoLead, Head(toSocial)} :
                /\ pc' = [pc EXCEPT ![w] = to]
                /\ lead' = [lead EXCEPT ![w] = l]
                /\ to = "get" <=> l = NoLead
        BY <1>7, <2>2, SocialTakeEffect DEF Leads, NoLead
    <2>4. TypeOK'
        BY <2>1, <2>2, <2>3 DEF Controls, Workers
    <2>5. Busy' /\ PageHeld'
        BY <2>1, <2>3, <2>2 DEF Workers
    <2>6. QED
        BY <2>4, <2>5
<1>8. ASSUME NEW w \in SocialWorkers, SocialFetched(w) PROVE Base'
    <2>1. /\ UNCHANGED <<website, fed, toEnrich, toSocial, main, markers, batch, needed, cancelled>>
          /\ pc[w] = "browse"
          /\ free' = free \cup {page[w]}
          /\ page' = [page EXCEPT ![w] = NoPage]
        BY <1>8 DEF SocialFetched, ReleasePage, queueVars, mainVars, fixedVars
    <2>2. /\ lead[w] \in Leads
          /\ counts' \in [Counters -> Nat] /\ links' \in [Leads -> Links]
          /\ processed' \in {processed, processed \cup {lead[w]}}
        BY <1>8, SocialFetchedEffect
    <2>3. \/ pc' = [pc EXCEPT ![w] = "get"] /\ lead' = [lead EXCEPT ![w] = NoLead]
          \/ pc' = [pc EXCEPT ![w] = "search"] /\ lead' = lead
        BY <1>8, SocialFetchedEffect
    <2>4. TypeOK'
        BY <2>1, <2>2, <2>3 DEF Controls, Workers
    <2>5. Busy' /\ PageHeld'
        BY <2>1, <2>3 DEF Workers
    <2>6. QED
        BY <2>4, <2>5
<1>9. ASSUME NEW w \in SocialWorkers, SocialSearched(w) PROVE Base'
    <2>1. /\ UNCHANGED <<website, fed, toEnrich, toSocial, page, free, main, markers, batch, needed, cancelled>>
          /\ pc[w] = "search"
        BY <1>9 DEF SocialSearched, queueVars, mainVars, fixedVars
    <2>2. /\ lead[w] \in Leads
          /\ counts' \in [Counters -> Nat] /\ links' \in [Leads -> Links]
          /\ processed' = processed \cup {lead[w]}
          /\ pc' = [pc EXCEPT ![w] = "get"] /\ lead' = [lead EXCEPT ![w] = NoLead]
        BY <1>9, SocialSearchedEffect
    <2>3. TypeOK'
        BY <2>1, <2>2 DEF Controls, Workers
    <2>4. Busy' /\ PageHeld'
        BY <2>1, <2>2 DEF Workers
    <2>5. QED
        BY <2>3, <2>4
<1>10. ASSUME NEW w \in SocialWorkers, SocialQuit(w) PROVE Base'
    BY <1>10 DEF SocialQuit, Goto, leadVars, mainVars, fixedVars, Controls, Workers, NoLead, QueueDone
<1>11. CASE MainStep
    <2>1. CASE EnrichmentJoined
        BY <2>1 DEF EnrichmentJoined, leadVars, queueVars, workerVars, fixedVars, Stages
    <2>2. CASE PutMarker
        BY <2>2 DEF PutMarker, leadVars, workerVars, fixedVars, Stages
    <2>3. CASE SocialJoined
        BY <2>3 DEF SocialJoined, leadVars, queueVars, workerVars, fixedVars, Stages
    <2>4. QED
        BY <1>11, <2>1, <2>2, <2>3 DEF MainStep
<1>12. CASE RequestCancellation
    BY <1>12 DEF RequestCancellation, leadVars, queueVars, workerVars, mainVars, fixedVars
<1>13. CASE UNCHANGED vars
    BY <1>13 DEF vars, leadVars, queueVars, workerVars, mainVars, fixedVars
<1>14. QED
    BY <1>1, <1>2, <1>3, <1>4, <1>5, <1>6, <1>7, <1>8, <1>9, <1>10, <1>11, <1>12, <1>13
    DEF Next, EnrichStep, SocialStep, Returned, Workers

(* Types and control points fit together when the stage begins.            *)
LEMMA BaseInit == Init => Base
<1> SUFFICES ASSUME Init PROVE Base
    OBVIOUS
<1>1. /\ needed \subseteq Leads /\ links \in [Leads -> Links]
      /\ toEnrich \in Seq(Leads \cup {QueueDone}) /\ toSocial \in Seq(Leads \cup {QueueDone})
    BY DEF Init, Missing, Links
<1>2. /\ pc \in [Workers -> Controls] /\ lead \in [Workers -> Leads \cup {NoLead}]
      /\ page \in [Workers -> Pages \cup {NoPage}]
    BY DEF Init, Controls
<1>3. TypeOK
    BY <1>1, <1>2 DEF Init, TypeOK, Stages
<1>4. Busy /\ PageHeld
    BY DEF Init, Busy, PageHeld
<1>5. QED
    BY <1>3, <1>4 DEF Base

(* Every variable keeps its type: in particular no worker ever handles a   *)
(* lead that is none, and no page outside the pool is ever handed out.     *)
THEOREM Typing == Spec => []TypeOK
<1>1. Base => TypeOK
    BY DEF Base
<1>2. QED
    BY <1>1, BaseInit, BaseStep, PTL DEF Spec
-----------------------------------------------------------------------------
(* Queues: what is in one after a put and after a get.                     *)
Items == Leads \cup {QueueDone}

MarkersLast(q) ==
    \A i, j \in 1..Len(q) : i < j /\ q[i] = QueueDone => q[j] = QueueDone

(* What putting an item at the end of a queue does to its content, to the  *)
(* absence of repeats and to the order of leads and markers.               *)
LEMMA PutItem ==
    ASSUME NEW q \in Seq(Items), NEW x \in Items
    PROVE  /\ ToSet(Append(q, x)) = ToSet(q) \cup {x}
           /\ NoRepeats(q) /\ (x = QueueDone \/ x \notin ToSet(q)) => NoRepeats(Append(q, x))
           /\ MarkersLast(q) /\ (x = QueueDone \/ QueueDone \notin ToSet(q)) => MarkersLast(Append(q, x))
<1>1. /\ Len(Append(q, x)) = Len(q) + 1
      /\ \A i \in 1..Len(q) : Append(q, x)[i] = q[i]
      /\ Append(q, x)[Len(q) + 1] = x
      /\ Len(q) \in Nat
    OBVIOUS
<1>2. DOMAIN q = 1..Len(q) /\ DOMAIN Append(q, x) = 1..Len(q) + 1
    OBVIOUS
<1>3. ToSet(Append(q, x)) = ToSet(q) \cup {x}
    BY <1>1, <1>2 DEF ToSet
<1>4. \A i \in 1..Len(q) : q[i] \in ToSet(q)
    BY <1>2 DEF ToSet
<1>5. ASSUME NoRepeats(q), x = QueueDone \/ x \notin ToSet(q) PROVE NoRepeats(Append(q, x))
    BY <1>1, <1>4, <1>5 DEF NoRepeats
<1>6. ASSUME MarkersLast(q), x = QueueDone \/ QueueDone \notin ToSet(q)
      PROVE  MarkersLast(Append(q, x))
    BY <1>1, <1>4, <1>6 DEF MarkersLast
<1>7. QED
    BY <1>3, <1>5, <1>6

(* The same for taking the item at its head: a marker at the head means    *)
(* that no lead is left.                                                   *)
LEMMA GetItem ==
    ASSUME NEW q \in Seq(Items), q # << >>
    PROVE  /\ Head(q) \in ToSet(q)
           /\ ToSet(q) = ToSet(Tail(q)) \cup {Head(q)}
           /\ NoRepeats(q) => NoRepeats(Tail(q)) /\ (Head(q) # QueueDone => Head(q) \notin ToSet(Tail(q)))
           /\ MarkersLast(q) => MarkersLast(Tail(q))
           /\ MarkersLast(q) /\ Head(q) = QueueDone => ToSet(q) \subseteq {QueueDone}
<1>1. /\ Len(q) \in Nat \ {0} /\ Head(q) = q[1]
      /\ Len(Tail(q)) = Len(q) - 1
      /\ \A i \in 1..(Len(q) - 1) : Tail(q)[i] = q[i + 1]
    OBVIOUS
<1>2. DOMAIN q = 1..Len(q) /\ DOMAIN Tail(q) = 1..(Len(q) - 1)
    OBVIOUS
<1>3. ToSet(q) = {q[i] : i \in 1..Len(q)} /\ ToSet(Tail(q)) = {q[i + 1] : i \in 1..(Len(q) - 1)}
    BY <1>1, <1>2 DEF ToSet
<1>4. Head(q) \in ToSet(q)
    BY <1>1, <1>3
<1>5. ToSet(q) = ToSet(Tail(q)) \cup {Head(q)}
    <2>1. \A i \in 1..Len(q) : i = 1 \/ (i - 1 \in 1..(Len(q) - 1) /\ q[i] = q[(i - 1) + 1])
        BY <1>1
    <2>2. \A i \in 1..(Len(q) - 1) : i + 1 \in 1..Len(q)
        BY <1>1
    <2>3. ASSUME NEW i \in 1..Len(q) PROVE q[i] \in ToSet(Tail(q)) \cup {Head(q)}
        <3>1. CASE i = 1
            BY <1>1, <3>1
        <3>2. CASE i # 1
            BY <1>3, <2>1, <3>2
        <3>3. QED
            BY <3>1, <3>2
    <2>4. QED
        BY <1>1, <1>3, <1>4, <2>2, <2>3
<1>6. ASSUME NoRepeats(q)
      PROVE  NoRepeats(Tail(q)) /\ (Head(q) # QueueDone => Head(q) \notin ToSet(Tail(q)))
    BY <1>1, <1>3, <1>6 DEF NoRepeats
<1>7. ASSUME MarkersLast(q) PROVE MarkersLast(Tail(q))
    BY <1>1, <1>7 DEF MarkersLast
<1>8. ASSUME MarkersLast(q), Head(q) = QueueDone PROVE ToSet(q) \subseteq {QueueDone}
    BY <1>1, <1>3, <1>8 DEF MarkersLast
<1>9. QED
    BY <1>4, <1>5, <1>6, <1>7, <1>8
-----------------------------------------------------------------------------
(* Where the leads are, in a form the steps preserve.                      *)
InBatch ==
    /\ ToSet(toEnrich) \subseteq 0..batch /\ ToSet(toSocial) \subseteq 0..batch
    /\ \A w \in Workers : lead[w] \in 0..batch
    /\ processed \subseteq 1..batch

Somewhere ==
    \A l \in 1..batch :
        \/ l > fed
        \/ l \in ToSet(toEnrich)
        \/ \E w \in Workers : lead[w] = l
        \/ l \in ToSet(toSocial)
        \/ l \in processed

Alone ==
    /\ \A l \in ToSet(toEnrich) \ {QueueDone} :
        /\ l <= fed /\ l \notin ToSet(toSocial) /\ l \notin processed
        /\ \A w \in Workers : lead[w] # l
    /\ \A l \in ToSet(toSocial) \ {QueueDone} :
        /\ l <= fed /\ l \notin processed
        /\ \A w \in Workers : lead[w] # l
    /\ \A w \in Workers : lead[w] # NoLead =>
        /\ lead[w] <= fed /\ lead[w] \notin processed
        /\ \A v \in Workers : lead[v] = lead[w] => v = w
    /\ \A l \in processed : l <= fed
    /\ NoRepeats(toEnrich) /\ NoRepeats(toSocial)

(* The markers stay behind the leads, and who has taken one knows that the *)
(* leads are through: what the placing of the markers is for.              *)
Order ==
    /\ MarkersLast(toEnrich) /\ MarkersLast(toSocial)
    /\ QueueDone \in ToSet(toEnrich) => fed > batch
    /\ \A w \in EnrichWorkers : pc[w] = "exited" =>
        fed > batch /\ ToSet(toEnrich) \subseteq {QueueDone}
    /\ main # "enriching" => FeederDone /\ AllExited(EnrichWorkers)
    /\ QueueDone \in ToSet(toSocial) => main # "enriching"
    /\ \A w \in SocialWorkers : pc[w] = "exited" =>
        main # "enriching" /\ ToSet(toSocial) \subseteq {QueueDone}
    /\ main = "finished" => AllExited(SocialWorkers)

StreamInv == Base /\ InBatch /\ Somewhere /\ Alone /\ Order

(* One lemma per kind of move a lead makes.                                *)
LEMMA FeedKeeps == ASSUME StreamInv, Feed PROVE (InBatch /\ Somewhere /\ Alone /\ Order)'
<1> DEFINE x == FeedItem(fed + 1)
<1>1. /\ x \in Items /\ x \in 0..batch /\ fed \in Nat /\ batch \in Nat
      /\ x # QueueDone => x = fed + 1 /\ x <= batch
      /\ x = QueueDone => fed + 1 > batch
      /\ toEnrich \in Seq(Items)
    BY LeadsAssumption DEF StreamInv, Base, TypeOK, FeedItem, Items, Leads, QueueDone
<1>2. /\ toEnrich' = Append(toEnrich, x) /\ fed' = fed + 1 /\ fed < FeedLength
      /\ UNCHANGED <<batch, toSocial, lead, pc, processed, main>>
    BY DEF Feed, leadVars, workerVars, mainVars, fixedVars
<1>3. x # QueueDone => x \notin ToSet(toEnrich) /\ QueueDone \notin ToSet(toEnrich)
    BY <1>1 DEF StreamInv, Alone, Order
<1>4. /\ ToSet(toEnrich') = ToSet(toEnrich) \cup {x}
      /\ NoRepeats(toEnrich') /\ MarkersLast(toEnrich')
    BY <1>1, <1>2, <1>3, PutItem DEF StreamInv, Alone, Order
<1>5. InBatch'
    BY <1>1, <1>2, <1>4 DEF StreamInv, InBatch
<1>6. Somewhere'
    BY <1>1, <1>2, <1>4 DEF StreamInv, Somewhere, FeedItem, QueueDone
<1>7. Alone'
    BY <1>1, <1>2, <1>4 DEF StreamInv, Alone, QueueDone, NoLead, Base, TypeOK, InBatch
<1>8. Order'
    BY <1>1, <1>2, <1>4 DEF StreamInv, Order, FeederDone, FeedLength, AllExited
<1>9. QED
    BY <1>5, <1>6, <1>7, <1>8

(* A worker with empty hands takes a lead from the queue of enrichment.    *)
LEMMA EnrichTakeKeeps ==
    ASSUME StreamInv, NEW w \in EnrichWorkers, EnrichTake(w)
    PROVE  (InBatch /\ Somewhere /\ Alone /\ Order)'
<1> DEFINE x == Head(toEnrich)
<1>1. /\ toEnrich # << >> /\ x # QueueDone /\ toEnrich' = Tail(toEnrich)
      /\ UNCHANGED <<batch, fed, toSocial, processed, main>>
      /\ lead' = [lead EXCEPT ![w] = x]
      /\ \E to \in {"acquire", "put"} : pc' = [pc EXCEPT ![w] = to]
      /\ pc[w] = "get"
    BY DEF EnrichTake, Goto, leadVars, mainVars, fixedVars
<1>2. /\ toEnrich \in Seq(Items) /\ lead \in [Workers -> Items] /\ pc \in [Workers -> Controls]
      /\ w \in Workers /\ lead[w] = NoLead /\ batch \in Nat /\ fed \in Nat
    BY <1>1, LeadsAssumption DEF StreamInv, Base, TypeOK, Busy, Items, Workers, NoLead, QueueDone
<1>3. /\ x \in ToSet(toEnrich) /\ ToSet(toEnrich) = ToSet(toEnrich') \cup {x}
      /\ x \notin ToSet(toEnrich')
      /\ NoRepeats(toEnrich') /\ MarkersLast(toEnrich')
    BY <1>1, <1>2, GetItem DEF StreamInv, Alone, Order
<1>4. InBatch'
    BY <1>1, <1>2, <1>3 DEF StreamInv, InBatch
<1>5. Somewhere'
    BY <1>1, <1>2, <1>3 DEF StreamInv, Somewhere, NoLead
<1>6. Alone'
    BY <1>1, <1>2, <1>3 DEF StreamInv, Alone, NoLead
<1>7. Order'
    BY <1>1, <1>2, <1>3 DEF StreamInv, Order, FeederDone, FeedLength, AllExited, Workers
<1>8. QED
    BY <1>4, <1>5, <1>6, <1>7

(* A worker takes its marker: the queue holds no lead any more.            *)
LEMMA EnrichQuitKeeps ==
    ASSUME StreamInv, NEW w \in EnrichWorkers, EnrichQuit(w)
    PROVE  (InBatch /\ Somewhere /\ Alone /\ Order)'
<1>1. /\ toEnrich # << >> /\ Head(toEnrich) = QueueDone /\ toEnrich' = Tail(toEnrich)
      /\ UNCHANGED <<batch, fed, toSocial, processed, main>>
      /\ lead' = [lead EXCEPT ![w] = NoLead]
      /\ pc' = [pc EXCEPT ![w] = "exited"]
      /\ pc[w] = "get"
    BY DEF EnrichQuit, Goto, leadVars, mainVars, fixedVars
<1>2. /\ toEnrich \in Seq(Items) /\ lead \in [Workers -> Items] /\ pc \in [Workers -> Controls]
      /\ w \in Workers /\ lead[w] = NoLead /\ batch \in Nat /\ fed \in Nat
    BY <1>1, LeadsAssumption DEF StreamInv, Base, TypeOK, Busy, Items, Workers, NoLead, QueueDone
<1>3. lead' = lead
    BY <1>1, <1>2
<1>4. /\ QueueDone \in ToSet(toEnrich) /\ ToSet(toEnrich) \subseteq {QueueDone}
      /\ ToSet(toEnrich') \subseteq {QueueDone}
      /\ NoRepeats(toEnrich') /\ MarkersLast(toEnrich')
    BY <1>1, <1>2, GetItem DEF StreamInv, Alone, Order
<1>5. InBatch'
    BY <1>1, <1>2, <1>3, <1>4 DEF StreamInv, InBatch, QueueDone
<1>6. Somewhere'
    BY <1>1, <1>2, <1>3, <1>4 DEF StreamInv, Somewhere, QueueDone
<1>7. Alone'
    BY <1>1, <1>2, <1>3, <1>4 DEF StreamInv, Alone, NoLead
<1>8. Order'
    <2>1. w \notin SocialWorkers
        BY WorkersAssumption
    <2>2. QED
        BY <1>1, <1>2, <1>4, <2>1 DEF StreamInv, Order, FeederDone, FeedLength, AllExited, Workers
<1>9. QED
    BY <1>5, <1>6, <1>7, <1>8

(* A worker goes on with the lead it has.                                  *)
LEMMA StayKeeps ==
    ASSUME StreamInv, NEW w \in Workers, NEW to \in Controls \ {"exited"},
           pc[w] # "exited", pc' = [pc EXCEPT ![w] = to],
           UNCHANGED <<batch, fed, toEnrich, toSocial, lead, processed, main>>
    PROVE  (InBatch /\ Somewhere /\ Alone /\ Order)'
<1>1. pc \in [Workers -> Controls]
    BY DEF StreamInv, Base, TypeOK
<1>2. (InBatch /\ Somewhere /\ Alone)'
    BY DEF StreamInv, InBatch, Somewhere, Alone
<1>3. Order'
    BY <1>1 DEF StreamInv, Order, FeederDone, FeedLength, AllExited, Workers
<1>4. QED
    BY <1>2, <1>3

(* An enrichment worker hands its lead on.                                 *)
LEMMA ForwardKeeps ==
    ASSUME StreamInv, NEW w \in EnrichWorkers, Forward(w)
    PROVE  (InBatch /\ Somewhere /\ Alone /\ Order)'
<1> DEFINE x == lead[w]
<1>1. /\ toSocial' = Append(toSocial, x)
      /\ UNCHANGED <<batch, fed, toEnrich, processed, main>>
      /\ lead' = [lead EXCEPT ![w] = NoLead]
      /\ pc' = [pc EXCEPT ![w] = "get"]
      /\ pc[w] = "put"
    BY DEF Forward, Goto, leadVars, mainVars, fixedVars
<1>2. /\ toSocial \in Seq(Items) /\ lead \in [Workers -> Items] /\ pc \in [Workers -> Controls]
      /\ w \in Workers /\ x # NoLead /\ x \in Items /\ batch \in Nat /\ fed \in Nat
    BY <1>1, LeadsAssumption DEF StreamInv, Base, TypeOK, Busy, Items, Workers, NoLead, QueueDone
<1>3. main = "enriching" /\ QueueDone \notin ToSet(toSocial)
    BY <1>1 DEF StreamInv, Order, AllExited
<1>4. x \notin ToSet(toSocial)
    BY <1>2 DEF StreamInv, Alone, NoLead, QueueDone
<1>5. /\ ToSet(toSocial') = ToSet(toSocial) \cup {x}
      /\ NoRepeats(toSocial') /\ MarkersLast(toSocial')
    BY <1>1, <1>2, <1>3, <1>4, PutItem DEF StreamInv, Alone, Order
<1>6. InBatch'
    BY <1>1, <1>2, <1>5 DEF StreamInv, InBatch, NoLead
<1>7. Somewhere'
    BY <1>1, <1>2, <1>5 DEF StreamInv, Somewhere, NoLead
<1>8. Alone'
    BY <1>1, <1>2, <1>5 DEF StreamInv, Alone, NoLead, QueueDone
<1>9. Order'
    BY <1>1, <1>2, <1>3, <1>5 DEF StreamInv, Order, FeederDone, FeedLength, AllExited, Workers, NoLead, QueueDone
<1>10. QED
    BY <1>6, <1>7, <1>8, <1>9

(* A social worker takes a lead and keeps it, or delivers it at once.      *)
LEMMA SocialTakeKeeps ==
    ASSUME StreamInv, NEW w \in SocialWorkers, SocialTake(w)
    PROVE  (InBatch /\ Somewhere /\ Alone /\ Order)'
<1> DEFINE x == Head(toSocial)
<1>1. /\ toSocial # << >> /\ x # QueueDone /\ toSocial' = Tail(toSocial)
      /\ UNCHANGED <<batch, fed, toEnrich, main>>
      /\ pc[w] = "get"
    BY DEF SocialTake, mainVars, fixedVars
<1>2. /\ toSocial \in Seq(Items) /\ lead \in [Workers -> Items] /\ pc \in [Workers -> Controls]
      /\ w \in Workers /\ lead[w] = NoLead /\ batch \in Nat /\ fed \in Nat
    BY <1>1, LeadsAssumption DEF StreamInv, Base, TypeOK, Busy, Items, Workers, NoLead, QueueDone
<1>3. \/ lead' = [lead EXCEPT ![w] = x] /\ processed' = processed
      \/ lead' = lead /\ processed' = processed \cup {x}
    BY <1>2, SocialTakeEffect DEF StreamInv, Base
<1>4. \E to \in {"get", "acquire", "search"} : pc' = [pc EXCEPT ![w] = to]
    BY SocialTakeEffect DEF StreamInv, Base
<1>5. /\ x \in ToSet(toSocial) /\ ToSet(toSocial) = ToSet(toSocial') \cup {x}
      /\ x \notin ToSet(toSocial')
      /\ NoRepeats(toSocial') /\ MarkersLast(toSocial')
    BY <1>1, <1>2, GetItem DEF StreamInv, Alone, Order
<1>6. InBatch'
    <2>1. x \in 1..batch
        BY <1>1, <1>2, <1>5 DEF StreamInv, InBatch, QueueDone
    <2>2. QED
        BY <1>1, <1>2, <1>3, <1>5, <2>1 DEF StreamInv, InBatch
<1>7. Somewhere'
    BY <1>1, <1>2, <1>3, <1>5 DEF StreamInv, Somewhere, NoLead
<1>8. Alone'
    BY <1>1, <1>2, <1>3, <1>5 DEF StreamInv, Alone, NoLead, QueueDone
<1>9. Order'
    BY <1>1, <1>2, <1>4, <1>5 DEF StreamInv, Order, FeederDone, FeedLength, AllExited, Workers
<1>10. QED
    BY <1>6, <1>7, <1>8, <1>9

(* A social worker delivers the lead it has.                               *)
LEMMA DeliverKeeps ==
    ASSUME StreamInv, NEW w \in SocialWorkers, pc[w] \in {"browse", "search"},
           lead[w] \in Leads,
           processed' = processed \cup {lead[w]},
           pc' = [pc EXCEPT ![w] = "get"],
           lead' = [lead EXCEPT ![w] = NoLead],
           UNCHANGED <<batch, fed, toEnrich, toSocial, main>>
    PROVE  (InBatch /\ Somewhere /\ Alone /\ Order)'
<1>1. /\ lead \in [Workers -> Items] /\ pc \in [Workers -> Controls]
      /\ w \in Workers /\ lead[w] # NoLead /\ batch \in Nat /\ fed \in Nat
    BY LeadsAssumption DEF StreamInv, Base, TypeOK, Items, Workers, NoLead, QueueDone, Leads
<1>2. InBatch'
    <2>1. lead[w] \in 1..batch
        BY <1>1 DEF StreamInv, InBatch, NoLead
    <2>2. processed' \subseteq 1..batch
        BY <2>1 DEF StreamInv, InBatch
    <2>3. \A v \in Workers : lead'[v] \in 0..batch
        BY <1>1 DEF StreamInv, InBatch, NoLead
    <2>4. QED
        BY <2>2, <2>3 DEF StreamInv, InBatch
<1>3. Somewhere'
    BY <1>1 DEF StreamInv, Somewhere, NoLead
<1>4. Alone'
    BY <1>1 DEF StreamInv, Alone, NoLead, QueueDone
<1>5. Order'
    BY <1>1 DEF StreamInv, Order, FeederDone, FeedLength, AllExited, Workers
<1>6. QED
    BY <1>2, <1>3, <1>4, <1>5

(* A social worker takes its marker: the queue holds no lead any more.     *)
LEMMA SocialQuitKeeps ==
    ASSUME StreamInv, NEW w \in SocialWorkers, SocialQuit(w)
    PROVE  (InBatch /\ Somewhere /\ Alone /\ Order)'
<1>1. /\ toSocial # << >> /\ Head(toSocial) = QueueDone /\ toSocial' = Tail(toSocial)
      /\ UNCHANGED <<batch, fed, toEnrich, processed, main>>
      /\ lead' = [lead EXCEPT ![w] = NoLead]
      /\ pc' = [pc EXCEPT ![w] = "exited"]
      /\ pc[w] = "get"
    BY DEF SocialQuit, Goto, leadVars, mainVars, fixedVars
<1>2. /\ toSocial \in Seq(Items) /\ lead \in [Workers -> Items] /\ pc \in [Workers -> Controls]
      /\ w \in Workers /\ lead[w] = NoLead /\ batch \in Nat /\ fed \in Nat
    BY <1>1, LeadsAssumption DEF StreamInv, Base, TypeOK, Busy, Items, Workers, NoLead, QueueDone
<1>3. lead' = lead
    BY <1>1, <1>2
<1>4. /\ QueueDone \in ToSet(toSocial) /\ ToSet(toSocial) \subseteq {QueueDone}
      /\ ToSet(toSocial') \subseteq {QueueDone}
      /\ NoRepeats(toSocial') /\ MarkersLast(toSocial')
    BY <1>1, <1>2, GetItem DEF StreamInv, Alone, Order
<1>5. InBatch'
    BY <1>1, <1>2, <1>3, <1>4 DEF StreamInv, InBatch, QueueDone
<1>6. Somewhere'
    BY <1>1, <1>2, <1>3, <1>4 DEF StreamInv, Somewhere, QueueDone
<1>7. Alone'
    BY <1>1, <1>2, <1>3, <1>4 DEF StreamInv, Alone, NoLead
<1>8. Order'
    <2>1. w \notin EnrichWorkers
        BY WorkersAssumption
    <2>2. QED
        BY <1>1, <1>2, <1>4, <2>1 DEF StreamInv, Order, FeederDone, FeedLength, AllExited, Workers
<1>9. QED
    BY <1>5, <1>6, <1>7, <1>8

(* The stage's own coroutine moves no lead, and puts markers only once no  *)
(* enrichment worker can put a lead behind them.                           *)
LEMMA MainKeeps ==
    ASSUME StreamInv, MainStep
    PROVE  (InBatch /\ Somewhere /\ Alone /\ Order)'
<1>1. CASE EnrichmentJoined
    <2>1. /\ UNCHANGED <<batch, fed, toEnrich, toSocial, pc, lead, processed>>
          /\ main' = "closing" /\ FeederDone /\ AllExited(EnrichWorkers)
        BY <1>1 DEF EnrichmentJoined, leadVars, queueVars, workerVars, fixedVars
    <2>2. (InBatch /\ Somewhere /\ Alone)'
        BY <2>1 DEF StreamInv, InBatch, Somewhere, Alone
    <2>3. Order'
        BY <2>1 DEF StreamInv, Order, FeederDone, FeedLength, AllExited
    <2>4. QED
        BY <2>2, <2>3
<1>2. CASE PutMarker
    <2>1. /\ UNCHANGED <<batch, fed, toEnrich, pc, lead, processed>>
          /\ toSocial' = Append(toSocial, QueueDone)
          /\ main = "closing" /\ main' \in {"closing", "joining"}
        BY <1>2 DEF PutMarker, leadVars, workerVars, fixedVars
    <2>2. toSocial \in Seq(Items) /\ QueueDone \in Items /\ batch \in Nat
        BY LeadsAssumption DEF StreamInv, Base, TypeOK, Items
    <2>3. /\ ToSet(toSocial') = ToSet(toSocial) \cup {QueueDone}
          /\ NoRepeats(toSocial') /\ MarkersLast(toSocial')
        BY <2>1, <2>2, PutItem DEF StreamInv, Alone, Order
    <2>4. InBatch'
        BY <2>1, <2>2, <2>3 DEF StreamInv, InBatch, QueueDone
    <2>5. Somewhere'
        BY <2>1, <2>3 DEF StreamInv, Somewhere
    <2>6. Alone'
        <3>1. \A v \in Workers : lead[v] # NoLead => lead[v] \notin ToSet(toSocial')
            BY <2>3 DEF StreamInv, Alone, NoLead, QueueDone
        <3>2. QED
            BY <2>1, <2>3, <3>1 DEF StreamInv, Alone, NoLead, QueueDone
    <2>7. Order'
        BY <2>1, <2>3 DEF StreamInv, Order, FeederDone, FeedLength, AllExited
    <2>8. QED
        BY <2>4, <2>5, <2>6, <2>7
<1>3. CASE SocialJoined
    <2>1. /\ UNCHANGED <<batch, fed, toEnrich, toSocial, pc, lead, processed>>
          /\ main = "joining" /\ main' = "finished" /\ AllExited(SocialWorkers)
        BY <1>3 DEF SocialJoined, leadVars, queueVars, workerVars, fixedVars
    <2>2. (InBatch /\ Somewhere /\ Alone)'
        BY <2>1 DEF StreamInv, InBatch, Somewhere, Alone
    <2>3. Order'
        BY <2>1 DEF StreamInv, Order, FeederDone, FeedLength, AllExited
    <2>4. QED
        BY <2>2, <2>3
<1>4. QED
    BY <1>1, <1>2, <1>3 DEF MainStep

(* All leads wait to be fed when the stage begins.                         *)
LEMMA StreamInit == Init => StreamInv
<1> SUFFICES ASSUME Init PROVE StreamInv
    OBVIOUS
<1>1. Base
    BY BaseInit
<1>2. /\ toEnrich = << >> /\ toSocial = << >> /\ fed = 0 /\ processed = {} /\ main = "enriching"
      /\ \A w \in Workers : lead[w] = NoLead /\ pc[w] = "get"
      /\ batch \in Nat
    BY LeadsAssumption DEF Init
<1>3. ToSet(toEnrich) = {} /\ ToSet(toSocial) = {}
    BY <1>2 DEF ToSet
<1>4. InBatch /\ Somewhere
    BY <1>2, <1>3 DEF InBatch, Somewhere, NoLead
<1>5. Alone
    BY <1>2, <1>3 DEF Alone, NoRepeats
<1>6. Order
    BY <1>2, <1>3 DEF Order, MarkersLast, Workers
<1>7. QED
    BY <1>1, <1>4, <1>5, <1>6 DEF StreamInv

(* Every step moves at most one lead to its next place, and keeps the      *)
(* markers behind the leads.                                               *)
LEMMA StreamInvStep == ASSUME StreamInv, [Next]_vars PROVE StreamInv'
<1>1. Base'
    BY BaseStep DEF StreamInv
<1> SUFFICES (InBatch /\ Somewhere /\ Alone /\ Order)'
    BY <1>1 DEF StreamInv
<1>2. CASE Feed
    BY <1>2, FeedKeeps
<1>3. ASSUME NEW w \in Workers, AcquirePage(w) PROVE (InBatch /\ Somewhere /\ Alone /\ Order)'
    <2>1. lead' = lead /\ pc' = [pc EXCEPT ![w] = "browse"] /\ pc[w] = "acquire"
        BY <1>3 DEF AcquirePage, Goto, StreamInv, Base, TypeOK
    <2>2. UNCHANGED <<batch, fed, toEnrich, toSocial, processed, main>>
        BY <1>3 DEF AcquirePage, queueVars, leadVars, mainVars, fixedVars
    <2>3. QED
        BY <2>1, <2>2, StayKeeps DEF Controls
<1>4. ASSUME NEW w \in EnrichWorkers, EnrichStep(w) PROVE (InBatch /\ Somewhere /\ Alone /\ Order)'
    <2>1. CASE EnrichFinish(w)
        <3>1. lead' = lead /\ pc' = [pc EXCEPT ![w] = "put"] /\ pc[w] = "browse" /\ w \in Workers
            BY <2>1 DEF EnrichFinish, Goto, StreamInv, Base, TypeOK, Workers
        <3>2. UNCHANGED <<batch, fed, toEnrich, toSocial, processed, main>>
            BY <2>1 DEF EnrichFinish, queueVars, mainVars, fixedVars
        <3>3. QED
            BY <3>1, <3>2, StayKeeps DEF Controls
    <2>2. QED
        BY <1>3, <1>4, <2>1, EnrichTakeKeeps, EnrichQuitKeeps, ForwardKeeps DEF EnrichStep, Workers
<1>5. ASSUME NEW w \in SocialWorkers, SocialStep(w) PROVE (InBatch /\ Somewhere /\ Alone /\ Order)'
    <2>1. CASE SocialFetched(w)
        <3>1. /\ UNCHANGED <<batch, fed, toEnrich, toSocial, main>>
              /\ pc[w] = "browse" /\ w \in Workers
            BY <2>1 DEF SocialFetched, queueVars, mainVars, fixedVars, Workers
        <3>2. \/ /\ lead[w] \in Leads /\ processed' = processed \cup {lead[w]}
                 /\ pc' = [pc EXCEPT ![w] = "get"] /\ lead' = [lead EXCEPT ![w] = NoLead]
              \/ processed' = processed /\ pc' = [pc EXCEPT ![w] = "search"] /\ lead' = lead
            BY <2>1, SocialFetchedEffect DEF StreamInv, Base
        <3>3. QED
            BY <3>1, <3>2, StayKeeps, DeliverKeeps DEF Controls
    <2>2. CASE SocialSearched(w)
        <3>1. UNCHANGED <<batch, fed, toEnrich, toSocial, main>> /\ pc[w] = "search"
            BY <2>2 DEF SocialSearched, queueVars, mainVars, fixedVars
        <3>2. QED
            BY <2>2, <3>1, SocialSearchedEffect, DeliverKeeps DEF StreamInv, Base
    <2>3. QED
        BY <1>3, <1>5, <2>1, <2>2, SocialTakeKeeps, SocialQuitKeeps DEF SocialStep, Workers
<1>6. CASE MainStep
    BY <1>6, MainKeeps
<1>7. CASE RequestCancellation \/ UNCHANGED vars
    <2>1. UNCHANGED <<batch, fed, toEnrich, toSocial, pc, lead, processed, main>>
        BY <1>7 DEF RequestCancellation, vars, leadVars, queueVars, workerVars, mainVars, fixedVars
    <2>2. QED
        BY <2>1 DEF StreamInv, InBatch, Somewhere, Alone, Order, FeederDone, FeedLength, AllExited
<1>8. QED
    BY <1>2, <1>4, <1>5, <1>6, <1>7 DEF Next, Returned

(* The inductive invariant of the stage: types, and the place of every     *)
(* lead and every marker.                                                  *)
LEMMA StreamInvariant == Spec => []StreamInv
    BY StreamInit, StreamInvStep, PTL DEF Spec

(* A stage that has returned has delivered every lead of the batch.        *)
LEMMA Finished == StreamInv => NoLeadDropped
<1> SUFFICES ASSUME StreamInv, main = "finished" PROVE processed = 1..batch
    BY DEF NoLeadDropped
<1>1. batch \in Nat /\ fed = FeedLength /\ Cardinality(EnrichWorkers) \in Nat \ {0}
    BY WorkerCounts, LeadsAssumption DEF StreamInv, Base, TypeOK, Order, FeederDone
<1>2. \A l \in 1..batch : ~(l > fed)
    BY <1>1 DEF FeedLength
<1>3. \A w \in Workers : pc[w] = "exited" /\ lead[w] = NoLead
    BY DEF StreamInv, Base, Busy, Order, AllExited, Workers
<1>4. ToSet(toEnrich) \subseteq {QueueDone} /\ ToSet(toSocial) \subseteq {QueueDone}
    BY <1>3, WorkersAssumption DEF StreamInv, Order, Workers
<1>5. 1..batch \subseteq processed
    BY <1>1, <1>2, <1>3, <1>4 DEF StreamInv, Somewhere, NoLead, QueueDone
<1>6. QED
    BY <1>5 DEF StreamInv, InBatch

LEMMA FinishedNext == StreamInv' => NoLeadDropped'
    BY Finished, PTL

(* When the stage returns, the leads that came through are those of the    *)
(* batch: whatever the workers, the queues' capacities and the moment of a *)
(* stop, none is dropped.                                                  *)
THEOREM NothingDropped == Spec => []NoLeadDropped
    BY Finished, StreamInvariant, PTL

LEMMA LeftNoneBehind == StreamInv => ExitOnlyWhenDrained
    BY DEF StreamInv, Order, ExitOnlyWhenDrained

(* A worker that took its marker left no lead behind.                      *)
THEOREM MarkersComeLast == Spec => []ExitOnlyWhenDrained
    BY LeftNoneBehind, StreamInvariant, PTL

\* The places of StreamInv are those the property compares.
LEMMA PlacedOnce == StreamInv => LeadInOnePlace
<1>1. StreamInv => Conserved
    <2> SUFFICES ASSUME StreamInv, NEW l \in 1..batch PROVE \E i \in 1..6 : l \in Where[i]
        BY DEF Conserved
    <2>1. CASE l > fed
        BY <2>1 DEF Where, Unfed
    <2>2. CASE l \in ToSet(toEnrich)
        BY <2>2 DEF Where
    <2>3. CASE \E w \in Workers : lead[w] = l
        BY <2>3 DEF Where, Held, Workers
    <2>4. CASE l \in ToSet(toSocial)
        BY <2>4 DEF Where
    <2>5. CASE l \in processed
        BY <2>5 DEF Where
    <2>6. QED
        BY <2>1, <2>2, <2>3, <2>4, <2>5 DEF StreamInv, Somewhere
<1>2. StreamInv => Exclusive
    <2> SUFFICES ASSUME StreamInv PROVE Exclusive
        OBVIOUS
    <2>1. NoRepeats(toEnrich) /\ NoRepeats(toSocial)
        BY DEF StreamInv, Alone
    <2>2. \A v, w \in Workers : lead[v] = lead[w] /\ lead[v] # NoLead => v = w
        BY DEF StreamInv, Alone
    <2>3. /\ Unfed \cap ToSet(toEnrich) \subseteq {QueueDone}
          /\ Unfed \cap Held(EnrichWorkers) \subseteq {QueueDone}
          /\ Unfed \cap ToSet(toSocial) \subseteq {QueueDone}
          /\ Unfed \cap Held(SocialWorkers) \subseteq {QueueDone}
          /\ Unfed \cap processed \subseteq {QueueDone}
        BY DEF StreamInv, Alone, Unfed, Held, Workers, NoLead, QueueDone, Base, TypeOK, InBatch
    <2>4. /\ ToSet(toEnrich) \cap Held(EnrichWorkers) \subseteq {QueueDone}
          /\ ToSet(toEnrich) \cap ToSet(toSocial) \subseteq {QueueDone}
          /\ ToSet(toEnrich) \cap Held(SocialWorkers) \subseteq {QueueDone}
          /\ ToSet(toEnrich) \cap processed \subseteq {QueueDone}
        BY DEF StreamInv, Alone, Held, Workers
    <2>5. /\ Held(EnrichWorkers) \cap ToSet(toSocial) \subseteq {QueueDone}
          /\ Held(EnrichWorkers) \cap Held(SocialWorkers) \subseteq {QueueDone}
          /\ Held(EnrichWorkers) \cap processed \subseteq {QueueDone}
        BY WorkersAssumption DEF StreamInv, Alone, Held, Workers, NoLead, QueueDone
    <2>6. /\ ToSet(toSocial) \cap Held(SocialWorkers) \subseteq {QueueDone}
          /\ ToSet(toSocial) \cap processed \subseteq {QueueDone}
          /\ Held(SocialWorkers) \cap processed \subseteq {QueueDone}
        BY DEF StreamInv, Alone, Held, Workers, NoLead, QueueDone
    <2>7. \A i, j \in 1..6 : i # j => Where[i] \cap Where[j] \subseteq {QueueDone}
        BY <2>3, <2>4, <2>5, <2>6 DEF Where
    <2>8. QED
        BY <2>1, <2>2, <2>7 DEF Exclusive
<1>3. QED
    BY <1>1, <1>2 DEF LeadInOnePlace

(* Every lead of the batch is at exactly one place at any time.            *)
THEOREM OnePlace == Spec => []LeadInOnePlace
    BY PlacedOnce, StreamInvariant, PTL
-----------------------------------------------------------------------------
(* After a graceful stop no worker starts to look anything up.             *)
THEOREM StopStartsNothing == Spec => NoNewWorkAfterCancel
<1>1. ASSUME Base, [Next]_vars, cancelled PROVE Looking' \subseteq Looking
    <2> USE DEF Looking
    <2>1. CASE Feed \/ MainStep \/ RequestCancellation \/ UNCHANGED vars
        BY <2>1 DEF Feed, MainStep, EnrichmentJoined, PutMarker, SocialJoined, RequestCancellation,
                    vars, workerVars
    <2>2. ASSUME NEW w \in Workers, pc[w] \in {"acquire", "browse", "search"},
                 NEW to, pc' = [pc EXCEPT ![w] = to]
          PROVE  Looking' \subseteq Looking
        BY <1>1, <2>2 DEF Base, TypeOK
    <2>3. ASSUME NEW w \in Workers, NEW to \in {"get", "put", "exited"}, pc' = [pc EXCEPT ![w] = to]
          PROVE  Looking' \subseteq Looking
        BY <1>1, <2>3 DEF Base, TypeOK
    <2>4. ASSUME NEW w \in Workers, AcquirePage(w) PROVE Looking' \subseteq Looking
        BY <2>2, <2>4 DEF AcquirePage, Goto
    <2>5. ASSUME NEW w \in EnrichWorkers, EnrichStep(w) PROVE Looking' \subseteq Looking
        <3>1. CASE EnrichTake(w)
            BY <1>1, <2>3, <3>1 DEF EnrichTake, WantsEnrichment, Goto, Workers
        <3>2. CASE EnrichQuit(w) \/ EnrichFinish(w) \/ Forward(w)
            BY <2>3, <3>2 DEF EnrichQuit, EnrichFinish, Forward, Goto, Workers
        <3>3. QED
            BY <2>4, <2>5, <3>1, <3>2 DEF EnrichStep, Workers
    <2>6. ASSUME NEW w \in SocialWorkers, SocialStep(w) PROVE Looking' \subseteq Looking
        <3>1. CASE SocialTake(w)
            BY <1>1, <2>3, <3>1, SocialTakeEffect DEF Base, Workers
        <3>2. CASE SocialFetched(w)
            BY <1>1, <2>2, <3>2, SocialFetchedEffect DEF SocialFetched, Base, Workers
        <3>3. CASE SocialSearched(w)
            BY <1>1, <2>3, <3>3, SocialSearchedEffect DEF Base, Workers
        <3>4. CASE SocialQuit(w)
            BY <2>3, <3>4 DEF SocialQuit, Goto, Workers
        <3>5. QED
            BY <2>4, <2>6, <3>1, <3>2, <3>3, <3>4 DEF SocialStep, Workers
    <2>7. QED
        BY <1>1, <2>1, <2>5, <2>6 DEF Next, Returned
<1>2. Spec => []Base
    BY BaseInit, BaseStep, PTL DEF Spec
<1>3. Base /\ [Next]_vars => [cancelled => Looking' \subseteq Looking]_vars
    BY <1>1
<1>4. QED
    BY <1>2, <1>3, PTL DEF Spec, NoNewWorkAfterCancel
-----------------------------------------------------------------------------
(* A page is free or with the one worker that browses on it.               *)
LEMMA ReleaseKeeps ==
    ASSUME Base, PageDiscipline, NEW w \in Workers, page[w] # NoPage, ReleasePage(w)
    PROVE  /\ \A p \in Pages : p \in free' <=> \A v \in Workers : page'[v] # p
           /\ \A u, v \in Workers : page'[u] = page'[v] /\ page'[u] # NoPage => u = v
<1>1. /\ page' = [page EXCEPT ![w] = NoPage] /\ free' = free \cup {page[w]}
      /\ page \in [Workers -> Pages \cup {NoPage}]
    BY DEF ReleasePage, Base, TypeOK
<1>2. page'[w] = NoPage /\ \A v \in Workers \ {w} : page'[v] = page[v]
    BY <1>1
<1>3. \A u, v \in Workers : page'[u] = page'[v] /\ page'[u] # NoPage => u = v
    BY <1>2 DEF PageDiscipline
<1>4. ASSUME NEW p \in Pages PROVE p \in free' <=> \A v \in Workers : page'[v] # p
    <2>1. CASE p = page[w]
        BY <1>1, <1>2, <2>1, PagesAssumption DEF PageDiscipline
    <2>2. CASE p # page[w]
        BY <1>1, <1>2, <2>2, PagesAssumption DEF PageDiscipline
    <2>3. QED
        BY <2>1, <2>2
<1>5. QED
    BY <1>3, <1>4

(* No page is ever with two workers, none is lost, and a worker that waits *)
(* for a queue holds none, for any number of workers and pages.            *)
THEOREM PagesShared == Spec => []PageDiscipline
<1>1. Init => PageDiscipline
    <2> SUFFICES ASSUME Init PROVE PageDiscipline
        OBVIOUS
    <2>1. free = Pages /\ \A w \in Workers : page[w] = NoPage /\ pc[w] = "get"
        BY DEF Init
    <2>2. QED
        BY <2>1, PagesAssumption DEF PageDiscipline
<1>2. ASSUME Base, Base', PageDiscipline, [Next]_vars PROVE PageDiscipline'
    <2> SUFFICES /\ \A p \in Pages : p \in free' <=> \A v \in Workers : page'[v] # p
                 /\ \A u, v \in Workers : page'[u] = page'[v] /\ page'[u] # NoPage => u = v
        BY <1>2 DEF Base, PageHeld, PageDiscipline
    <2>1. ASSUME NEW w \in Workers, AcquirePage(w)
          PROVE  /\ \A p \in Pages : p \in free' <=> \A v \in Workers : page'[v] # p
                 /\ \A u, v \in Workers : page'[u] = page'[v] /\ page'[u] # NoPage => u = v
        <3>1. PICK q \in free : free' = free \ {q} /\ page' = [page EXCEPT ![w] = q]
            BY <2>1 DEF AcquirePage, TakePage
        <3>2. /\ q \in Pages /\ page[w] = NoPage /\ page'[w] = q
              /\ \A v \in Workers \ {w} : page'[v] = page[v] /\ page[v] # q
            BY <1>2, <2>1, <3>1 DEF Base, TypeOK, PageDiscipline, AcquirePage
        <3>3. QED
            BY <1>2, <3>1, <3>2, PagesAssumption DEF PageDiscipline
    <2>2. ASSUME NEW w \in EnrichWorkers, EnrichFinish(w)
          PROVE  /\ \A p \in Pages : p \in free' <=> \A v \in Workers : page'[v] # p
                 /\ \A u, v \in Workers : page'[u] = page'[v] /\ page'[u] # NoPage => u = v
        BY <1>2, <2>2, ReleaseKeeps DEF EnrichFinish, Base, PageHeld, Workers
    <2>3. ASSUME NEW w \in SocialWorkers, SocialFetched(w)
          PROVE  /\ \A p \in Pages : p \in free' <=> \A v \in Workers : page'[v] # p
                 /\ \A u, v \in Workers : page'[u] = page'[v] /\ page'[u] # NoPage => u = v
        BY <1>2, <2>3, ReleaseKeeps DEF SocialFetched, Base, PageHeld, Workers
    <2>4. CASE UNCHANGED <<page, free>>
        BY <1>2, <2>4 DEF PageDiscipline
    <2>5. CASE Feed \/ MainStep \/ RequestCancellation \/ UNCHANGED vars
        BY <2>4, <2>5 DEF Feed, MainStep, EnrichmentJoined, PutMarker, SocialJoined,
                          RequestCancellation, vars, workerVars
    <2>6. ASSUME NEW w \in EnrichWorkers, EnrichTake(w) \/ EnrichQuit(w) \/ Forward(w)
          PROVE  UNCHANGED <<page, free>>
        BY <2>6 DEF EnrichTake, EnrichQuit, Forward
    <2>7. ASSUME NEW w \in SocialWorkers, SocialTake(w) \/ SocialQuit(w) \/ SocialSearched(w)
          PROVE  UNCHANGED <<page, free>>
        BY <2>7 DEF SocialTake, SocialQuit, SocialSearched
    <2>8. QED
        BY <1>2, <2>1, <2>2, <2>3, <2>4, <2>5, <2>6, <2>7
        DEF Next, EnrichStep, SocialStep, Returned, Workers
<1>3. QED
    <2>1. Spec => []Base
        BY BaseInit, BaseStep, PTL DEF Spec
    <2>2. QED
        BY <1>1, <1>2, <2>1, PTL DEF Spec
-----------------------------------------------------------------------------
(* The refinement of LeadFlow.  What the phase of a lead, which PhaseOf    *)
(* reads off the queues and the workers case by case, says of its place.   *)
PhaseTells ==
    \A l \in 1..batch :
        /\ PhaseOf(l) \in Flow!Phases
        /\ PhaseOf(l) = "waiting" <=> l > fed \/ l \in ToSet(toEnrich)
        /\ PhaseOf(l) = "enriching" <=> \E w \in EnrichWorkers : lead[w] = l /\ pc[w] # "put"
        /\ PhaseOf(l) = "enriched" <=>
            l \in ToSet(toSocial) \/ \E w \in EnrichWorkers : lead[w] = l /\ pc[w] = "put"
        /\ PhaseOf(l) = "discovering" <=> \E w \in SocialWorkers : lead[w] = l
        /\ PhaseOf(l) = "delivered" <=> l \in processed

LEMMA PlaceGivesPhase == StreamInv => PhaseTells
<1> SUFFICES ASSUME StreamInv, NEW l \in 1..batch
    PROVE  /\ PhaseOf(l) \in Flow!Phases
           /\ PhaseOf(l) = "waiting" <=> l > fed \/ l \in ToSet(toEnrich)
           /\ PhaseOf(l) = "enriching" <=> \E w \in EnrichWorkers : lead[w] = l /\ pc[w] # "put"
           /\ PhaseOf(l) = "enriched" <=>
               l \in ToSet(toSocial) \/ \E w \in EnrichWorkers : lead[w] = l /\ pc[w] = "put"
           /\ PhaseOf(l) = "discovering" <=> \E w \in SocialWorkers : lead[w] = l
           /\ PhaseOf(l) = "delivered" <=> l \in processed
    BY DEF PhaseTells
<1> DEFINE looked == \E w \in EnrichWorkers : lead[w] = l /\ pc[w] # "put"
           holding == \E w \in EnrichWorkers : lead[w] = l /\ pc[w] = "put"
           searched == \E w \in SocialWorkers : lead[w] = l
           through == l \in processed
           queued == l \in ToSet(toSocial)
           unseen == l > fed \/ l \in ToSet(toEnrich)
<1>1. PhaseOf(l) = CASE looked -> "enriching" [] holding -> "enriched" [] searched -> "discovering"
                     [] through -> "delivered" [] queued -> "enriched" [] unseen -> "waiting"
                     [] OTHER -> "lost"
    BY DEF PhaseOf
<1>2. l # NoLead /\ l # QueueDone /\ batch \in Nat /\ fed \in Nat
    BY LeadsAssumption DEF NoLead, QueueDone, StreamInv, Base, TypeOK
<1>3. looked \/ holding \/ searched \/ through \/ queued \/ unseen
    BY DEF StreamInv, Somewhere, Workers
<1>4. /\ looked => ~holding /\ ~searched
      /\ holding => ~searched
    BY <1>2, WorkersAssumption DEF StreamInv, Alone, Workers
<1>5. looked \/ holding \/ searched => ~through /\ ~queued /\ ~unseen
    BY <1>2 DEF StreamInv, Alone, Workers, Base, TypeOK
<1>6. /\ through => ~queued /\ ~unseen
      /\ queued => ~unseen
    BY <1>2 DEF StreamInv, Alone
<1> HIDE DEF looked, holding, searched, through, queued, unseen
<1>7. /\ PhaseOf(l) \in Flow!Phases
      /\ PhaseOf(l) = "waiting" <=> unseen
      /\ PhaseOf(l) = "enriching" <=> looked
      /\ PhaseOf(l) = "enriched" <=> queued \/ holding
      /\ PhaseOf(l) = "discovering" <=> searched
      /\ PhaseOf(l) = "delivered" <=> through
    BY <1>1, <1>3, <1>4, <1>5, <1>6 DEF Flow!Phases
<1>8. QED
    BY <1>7 DEF looked, holding, searched, through, queued, unseen

LEMMA PlaceGivesPhaseNext == StreamInv' => PhaseTells'
    BY PlaceGivesPhase, PTL

(* The leads seen as LeadFlow sees them.                                   *)
FlowPhase == [l \in Leads |-> IF l <= batch THEN PhaseOf(l) ELSE "waiting"]

\* Nothing that says where l is changes.
SamePlace(l) ==
    /\ (l > fed \/ l \in ToSet(toEnrich))' <=> (l > fed \/ l \in ToSet(toEnrich))
    /\ (\E w \in EnrichWorkers : lead[w] = l /\ pc[w] # "put")'
        <=> (\E w \in EnrichWorkers : lead[w] = l /\ pc[w] # "put")
    /\ (l \in ToSet(toSocial) \/ \E w \in EnrichWorkers : lead[w] = l /\ pc[w] = "put")'
        <=> (l \in ToSet(toSocial) \/ \E w \in EnrichWorkers : lead[w] = l /\ pc[w] = "put")
    /\ (\E w \in SocialWorkers : lead[w] = l)' <=> (\E w \in SocialWorkers : lead[w] = l)
    /\ (l \in processed)' <=> l \in processed

LEMMA SamePhase ==
    ASSUME PhaseTells, PhaseTells', batch' = batch, NEW l \in 1..batch, SamePlace(l)
    PROVE  PhaseOf(l)' = PhaseOf(l)
    BY DEF PhaseTells, SamePlace, Flow!Phases

LEMMA NobodyMoves ==
    ASSUME PhaseTells, PhaseTells', batch' = batch, batch \in 0..MaxLeads,
           \A l \in 1..batch : SamePlace(l)
    PROVE  FlowPhase' = FlowPhase
<1>1. \A l \in 1..batch : PhaseOf(l)' = PhaseOf(l)
    BY SamePhase
<1>2. \A l \in Leads : l <= batch => l \in 1..batch
    BY LeadsAssumption DEF Leads
<1>3. QED
    BY <1>1, <1>2 DEF FlowPhase

LEMMA OneMoves ==
    ASSUME PhaseTells, PhaseTells', batch' = batch, batch \in 0..MaxLeads, NEW x \in 1..batch,
           \A l \in (1..batch) \ {x} : SamePlace(l)
    PROVE  /\ FlowPhase' = [FlowPhase EXCEPT ![x] = PhaseOf(x)']
           /\ FlowPhase[x] = PhaseOf(x) /\ x \in Leads
           /\ FlowPhase' = [k \in Leads |-> IF k \in {x} THEN PhaseOf(x)' ELSE FlowPhase[k]]
<1>1. \A l \in (1..batch) \ {x} : PhaseOf(l)' = PhaseOf(l)
    BY SamePhase
<1>2. \A l \in Leads : l <= batch => l \in 1..batch
    BY LeadsAssumption DEF Leads
<1>3. x \in Leads /\ x <= batch
    BY LeadsAssumption DEF Leads
<1>4. QED
    BY <1>1, <1>2, <1>3 DEF FlowPhase

(* A step that moves one lead from one phase to the next is a step of      *)
(* LeadFlow: which one depends on the two phases.                          *)
LEMMA FlowMove ==
    ASSUME PhaseTells, PhaseTells', batch \in 0..MaxLeads, NEW x \in 1..batch,
           \A l \in (1..batch) \ {x} : SamePlace(l),
           UNCHANGED <<batch, cancelled>>, (main = "finished")' <=> main = "finished",
           \/ ~cancelled /\ PhaseOf(x) = "waiting" /\ PhaseOf(x)' = "enriching"
           \/ PhaseOf(x) = "waiting" /\ PhaseOf(x)' = "enriched"
           \/ PhaseOf(x) = "enriching" /\ PhaseOf(x)' = "enriched"
           \/ ~cancelled /\ PhaseOf(x) = "enriched" /\ PhaseOf(x)' = "discovering"
           \/ PhaseOf(x) = "discovering" /\ PhaseOf(x)' = "delivered"
           \/ cancelled /\ PhaseOf(x) = "enriched" /\ PhaseOf(x)' = "delivered"
    PROVE  Flow!FlowNext
<1>1. /\ FlowPhase' = [FlowPhase EXCEPT ![x] = PhaseOf(x)']
      /\ FlowPhase[x] = PhaseOf(x) /\ x \in Leads
      /\ FlowPhase' = [k \in Leads |-> IF k \in {x} THEN PhaseOf(x)' ELSE FlowPhase[k]]
    BY OneMoves
<1>2. (main = "finished")' = (main = "finished")
    OBVIOUS
<1>3. UNCHANGED <<batch, cancelled, main = "finished">>
    BY <1>2
<1>4. ASSUME NEW from, NEW to, PhaseOf(x) = from, PhaseOf(x)' = to PROVE Flow!Move(x, from, to)
    BY <1>1, <1>3, <1>4 DEF Flow!Move, FlowPhase
<1>5. ASSUME PhaseOf(x) = "waiting", PhaseOf(x)' = "enriched" PROVE Flow!SkipEnriching(x)
    <2>1. {x} \in SUBSET (1..batch) /\ x \in {x} /\ \A k \in {x} : FlowPhase[k] = "waiting"
        BY <1>1, <1>5
    <2>2. FlowPhase' = [k \in Flow!Leads |-> IF k \in {x} THEN "enriched" ELSE FlowPhase[k]]
        BY <1>1, <1>5 DEF Flow!Leads, Leads
    <2>3. QED
        BY <1>3, <2>1, <2>2 DEF Flow!SkipEnriching, FlowPhase
<1>6. Flow!LeadStep(x)
    BY <1>4, <1>5 DEF Flow!LeadStep, Flow!StartEnriching, Flow!FinishEnriching,
           Flow!StartDiscovering, Flow!Deliver, Flow!DeliverUndiscovered
<1>7. QED
    BY <1>1, <1>6 DEF Flow!FlowNext, Flow!Leads, Leads

\* A step that moves no lead is none of LeadFlow's.
LEMMA FlowStays ==
    ASSUME PhaseTells, PhaseTells', batch \in 0..MaxLeads,
           \A l \in 1..batch : SamePlace(l),
           UNCHANGED <<batch, cancelled>>, (main = "finished")' <=> main = "finished"
    PROVE  UNCHANGED Flow!flowVars
<1>1. FlowPhase' = FlowPhase
    BY NobodyMoves
<1>2. UNCHANGED <<batch, cancelled, main = "finished">>
    OBVIOUS
<1>3. QED
    BY <1>1, <1>2 DEF Flow!flowVars, FlowPhase

\* The worker part of SamePlace, by name.
LookedUp(l) == \E w \in EnrichWorkers : lead[w] = l /\ pc[w] # "put"
Carried(l)  == \E w \in EnrichWorkers : lead[w] = l /\ pc[w] = "put"
Searched(l) == \E w \in SocialWorkers : lead[w] = l

(* A worker that changes its lead and its place leaves every other lead    *)
(* where it is, and takes its new lead along.                              *)
LEMMA OneWorkerMoves ==
    ASSUME lead \in [Workers -> Items], pc \in [Workers -> Controls],
           NEW w \in Workers, NEW x \in Items, NEW to \in Controls,
           lead' = [lead EXCEPT ![w] = x], pc' = [pc EXCEPT ![w] = to]
    PROVE  /\ \A l : l # x /\ l # lead[w] =>
                /\ LookedUp(l)' <=> LookedUp(l)
                /\ Carried(l)' <=> Carried(l)
                /\ Searched(l)' <=> Searched(l)
           /\ w \in EnrichWorkers /\ to # "put" => LookedUp(x)'
           /\ w \in EnrichWorkers /\ to = "put" => Carried(x)'
           /\ w \in SocialWorkers => Searched(x)'
<1>1. /\ lead'[w] = x /\ pc'[w] = to
      /\ \A v \in Workers \ {w} : lead'[v] = lead[v] /\ pc'[v] = pc[v]
    OBVIOUS
<1>2. EnrichWorkers \subseteq Workers /\ SocialWorkers \subseteq Workers
    BY DEF Workers
<1>3. ASSUME NEW l, l # x, l # lead[w]
      PROVE  /\ LookedUp(l)' <=> LookedUp(l)
             /\ Carried(l)' <=> Carried(l)
             /\ Searched(l)' <=> Searched(l)
    BY <1>1, <1>2, <1>3 DEF LookedUp, Carried, Searched
<1>4. /\ w \in EnrichWorkers /\ to # "put" => LookedUp(x)'
      /\ w \in EnrichWorkers /\ to = "put" => Carried(x)'
      /\ w \in SocialWorkers => Searched(x)'
    BY <1>1 DEF LookedUp, Carried, Searched
<1>5. QED
    BY <1>3, <1>4

(* Every step of the workers, the feeder and the stage's own coroutine     *)
(* moves one lead on as LeadFlow allows, or none.                          *)
LEMMA FlowStep ==
    ASSUME StreamInv, StreamInv', [Next]_vars
    PROVE  [Flow!FlowNext]_Flow!flowVars
<1>1. PhaseTells /\ PhaseTells'
    BY PlaceGivesPhase, PlaceGivesPhaseNext
<1>2. /\ batch \in 0..MaxLeads /\ batch \in Nat /\ fed \in Nat
      /\ toEnrich \in Seq(Items) /\ toSocial \in Seq(Items)
      /\ lead \in [Workers -> Items] /\ pc \in [Workers -> Controls]
      /\ \A w \in Workers : lead[w] = NoLead <=> pc[w] \in {"get", "exited"}
      /\ EnrichWorkers \subseteq Workers /\ SocialWorkers \subseteq Workers
      /\ EnrichWorkers \cap SocialWorkers = {}
    BY WorkersAssumption, LeadsAssumption
    DEF StreamInv, Base, TypeOK, Busy, Items, Workers, NoLead, QueueDone
<1>3. CASE Feed
    <2>1. /\ toEnrich' = Append(toEnrich, FeedItem(fed + 1)) /\ fed' = fed + 1
          /\ UNCHANGED <<batch, toSocial, lead, pc, processed, main, cancelled>>
        BY <1>3 DEF Feed, leadVars, workerVars, mainVars, fixedVars
    <2>2. FeedItem(fed + 1) \in Items
        BY <1>2, LeadsAssumption DEF FeedItem, Items, Leads, QueueDone
    <2>3. ToSet(toEnrich') = ToSet(toEnrich) \cup {FeedItem(fed + 1)}
        BY <1>2, <2>1, <2>2, PutItem
    <2>4. ASSUME NEW l \in 1..batch PROVE SamePlace(l)
        BY <1>2, <2>1, <2>3 DEF SamePlace, FeedItem, QueueDone
    <2>5. QED
        BY <1>1, <1>2, <2>1, <2>4, FlowStays
<1>4. ASSUME NEW w \in EnrichWorkers, EnrichTake(w) PROVE Flow!FlowNext
    <2>0. PICK x : x = Head(toEnrich)
        OBVIOUS
    <2>1. /\ toEnrich # << >> /\ x # QueueDone /\ toEnrich' = Tail(toEnrich)
          /\ UNCHANGED <<batch, fed, toSocial, processed, main, cancelled>>
          /\ lead' = [lead EXCEPT ![w] = x] /\ pc[w] = "get"
          /\ \/ ~cancelled /\ pc' = [pc EXCEPT ![w] = "acquire"]
             \/ pc' = [pc EXCEPT ![w] = "put"]
        BY <1>4, <2>0 DEF EnrichTake, Goto, WantsEnrichment, leadVars, mainVars, fixedVars
    <2>2. x \in ToSet(toEnrich) /\ ToSet(toEnrich) = ToSet(toEnrich') \cup {x}
        BY <1>2, <2>0, <2>1, GetItem
    <2>3. x \in 1..batch /\ lead[w] = NoLead
        BY <1>2, <2>1, <2>2 DEF StreamInv, InBatch, QueueDone
    <2>4. PICK to \in {"acquire", "put"} :
            pc' = [pc EXCEPT ![w] = to] /\ (to = "acquire" => ~cancelled)
        BY <2>1
    <2>5. /\ w \in Workers /\ to \in Controls /\ x \in Items
          /\ lead' = [lead EXCEPT ![w] = x]
        BY <1>2, <2>1, <2>3, <2>4, LeadsAssumption DEF Controls, Items, Leads
    <2>6. \A l \in (1..batch) \ {x} : SamePlace(l)
        <3>1. \A l \in (1..batch) \ {x} : l # lead[w]
            BY <2>3 DEF NoLead
        <3>2. \A l \in (1..batch) \ {x} :
                /\ LookedUp(l)' <=> LookedUp(l)
                /\ Carried(l)' <=> Carried(l)
                /\ Searched(l)' <=> Searched(l)
            BY <1>2, <2>4, <2>5, <3>1, OneWorkerMoves
        <3>3. QED
            BY <2>1, <2>2, <3>2 DEF SamePlace, LookedUp, Carried, Searched
    <2>7. PhaseOf(x) = "waiting"
        BY <1>1, <2>2, <2>3 DEF PhaseTells
    <2>8. \/ to = "acquire" /\ LookedUp(x)'
          \/ to = "put" /\ Carried(x)'
        BY <1>2, <2>4, <2>5, OneWorkerMoves
    <2>9. \/ ~cancelled /\ PhaseOf(x)' = "enriching"
          \/ PhaseOf(x)' = "enriched"
        BY <1>1, <2>1, <2>3, <2>4, <2>8 DEF PhaseTells, LookedUp, Carried
    <2>10. QED
        BY <1>1, <1>2, <2>1, <2>3, <2>6, <2>7, <2>9, FlowMove
<1>5. ASSUME NEW w \in EnrichWorkers, EnrichQuit(w) PROVE UNCHANGED Flow!flowVars
    <2>1. /\ toEnrich # << >> /\ Head(toEnrich) = QueueDone /\ toEnrich' = Tail(toEnrich)
          /\ UNCHANGED <<batch, fed, toSocial, processed, main, cancelled>>
          /\ lead' = [lead EXCEPT ![w] = NoLead] /\ pc[w] = "get"
          /\ pc' = [pc EXCEPT ![w] = "exited"]
        BY <1>5 DEF EnrichQuit, Goto, leadVars, mainVars, fixedVars
    <2>2. ToSet(toEnrich) = ToSet(toEnrich') \cup {QueueDone}
        BY <1>2, <2>1, GetItem
    <2>3. \A l \in 1..batch : SamePlace(l)
        BY <1>2, <2>1, <2>2 DEF SamePlace, NoLead, QueueDone
    <2>4. QED
        BY <1>1, <1>2, <2>1, <2>3, FlowStays
<1>6. ASSUME NEW w \in Workers, AcquirePage(w) PROVE UNCHANGED Flow!flowVars
    <2>1. /\ UNCHANGED <<batch, fed, toEnrich, toSocial, lead, processed, main, cancelled>>
          /\ pc[w] = "acquire" /\ pc' = [pc EXCEPT ![w] = "browse"]
        BY <1>2, <1>6 DEF AcquirePage, Goto, leadVars, queueVars, mainVars, fixedVars
    <2>2. \A l \in 1..batch : SamePlace(l)
        BY <1>2, <2>1 DEF SamePlace
    <2>3. QED
        BY <1>1, <1>2, <2>1, <2>2, FlowStays
<1>7. ASSUME NEW w \in EnrichWorkers, EnrichFinish(w) PROVE Flow!FlowNext
    <2>0. PICK x : x = lead[w]
        OBVIOUS
    <2>1. /\ UNCHANGED <<batch, fed, toEnrich, toSocial, lead, processed, main, cancelled>>
          /\ pc[w] = "browse" /\ pc' = [pc EXCEPT ![w] = "put"]
        BY <1>2, <1>7 DEF EnrichFinish, Goto, queueVars, mainVars, fixedVars
    <2>2. x \in 1..batch
        BY <1>2, <2>0, <2>1 DEF StreamInv, InBatch, NoLead
    <2>3. \A l \in (1..batch) \ {x} : SamePlace(l)
        BY <1>2, <2>0, <2>1, <2>2 DEF SamePlace
    <2>4. PhaseOf(x) = "enriching" /\ PhaseOf(x)' = "enriched"
        BY <1>1, <1>2, <2>0, <2>1, <2>2 DEF PhaseTells
    <2>5. QED
        BY <1>1, <1>2, <2>1, <2>2, <2>3, <2>4, FlowMove
<1>8. ASSUME NEW w \in EnrichWorkers, Forward(w) PROVE UNCHANGED Flow!flowVars
    <2>0. PICK x : x = lead[w]
        OBVIOUS
    <2>1. /\ toSocial' = Append(toSocial, x)
          /\ UNCHANGED <<batch, fed, toEnrich, processed, main, cancelled>>
          /\ lead' = [lead EXCEPT ![w] = NoLead] /\ pc[w] = "put"
          /\ pc' = [pc EXCEPT ![w] = "get"]
        BY <1>8, <2>0 DEF Forward, Goto, leadVars, mainVars, fixedVars
    <2>2. ToSet(toSocial') = ToSet(toSocial) \cup {x}
        BY <1>2, <2>0, <2>1, PutItem
    <2>3. \A l \in 1..batch : SamePlace(l)
        <3>1. /\ w \in Workers /\ NoLead \in Items /\ "get" \in Controls
              /\ \A l \in 1..batch : l # NoLead
            BY <1>2 DEF Controls, Items, NoLead, QueueDone
        <3>2. \A l \in (1..batch) \ {x} :
                /\ LookedUp(l)' <=> LookedUp(l)
                /\ Carried(l)' <=> Carried(l)
                /\ Searched(l)' <=> Searched(l)
            BY <1>2, <2>0, <2>1, <3>1, OneWorkerMoves
        <3>3. \A l \in (1..batch) \ {x} : SamePlace(l)
            BY <2>1, <2>2, <3>2 DEF SamePlace, LookedUp, Carried, Searched
        <3>4. ASSUME x \in 1..batch PROVE SamePlace(x)
            <4>1. Carried(x)
                BY <2>0, <2>1 DEF Carried
            <4>2. PhaseOf(x) = "enriched" /\ PhaseOf(x)' = "enriched"
                BY <1>1, <2>1, <2>2, <3>4, <4>1 DEF PhaseTells, Carried
            <4>3. QED
                BY <1>1, <2>1, <3>4, <4>2 DEF PhaseTells, SamePlace
        <3>5. QED
            BY <3>3, <3>4
    <2>4. QED
        BY <1>1, <1>2, <2>1, <2>3, FlowStays
<1>9. ASSUME NEW w \in SocialWorkers, SocialTake(w) PROVE Flow!FlowNext
    <2>0. PICK x : x = Head(toSocial)
        OBVIOUS
    <2>1. /\ toSocial # << >> /\ x # QueueDone /\ toSocial' = Tail(toSocial)
          /\ UNCHANGED <<batch, fed, toEnrich, main, cancelled>> /\ pc[w] = "get"
        BY <1>9, <2>0 DEF SocialTake, mainVars, fixedVars
    <2>2. \/ /\ cancelled /\ processed' = processed \cup {x}
             /\ pc' = [pc EXCEPT ![w] = "get"] /\ lead' = [lead EXCEPT ![w] = NoLead]
          \/ /\ ~cancelled /\ processed' = processed
             /\ \E to \in {"acquire", "search"} : pc' = [pc EXCEPT ![w] = to]
             /\ lead' = [lead EXCEPT ![w] = x]
        BY <1>9, <2>0, SocialTakeEffect DEF StreamInv, Base
    <2>3. x \in ToSet(toSocial) /\ ToSet(toSocial) = ToSet(toSocial') \cup {x}
        BY <1>2, <2>0, <2>1, GetItem
    <2>4. x \in 1..batch /\ lead[w] = NoLead
        <3>1. x \in 1..batch
            BY <2>1, <2>3 DEF StreamInv, InBatch, QueueDone
        <3>2. QED
            BY <1>2, <2>1, <3>1
    <2>5. PICK y \in {NoLead, x}, to \in {"get", "acquire", "search"} :
            /\ lead' = [lead EXCEPT ![w] = y] /\ pc' = [pc EXCEPT ![w] = to]
            /\ \/ cancelled /\ processed' = processed \cup {x}
               \/ ~cancelled /\ processed' = processed /\ y = x
        BY <2>2
    <2>6. w \in Workers /\ to \in Controls /\ y \in Items
        BY <1>2, <2>4, <2>5, LeadsAssumption DEF Controls, Items, Leads, NoLead, QueueDone
    <2>7. \A l \in (1..batch) \ {x} : SamePlace(l)
        <3>1. \A l \in (1..batch) \ {x} : l # lead[w] /\ l # y
            BY <2>4, <2>5 DEF NoLead
        <3>2. \A l \in (1..batch) \ {x} :
                /\ LookedUp(l)' <=> LookedUp(l)
                /\ Carried(l)' <=> Carried(l)
                /\ Searched(l)' <=> Searched(l)
            BY <1>2, <2>5, <2>6, <3>1, OneWorkerMoves
        <3>3. QED
            BY <2>1, <2>3, <2>5, <3>2 DEF SamePlace, LookedUp, Carried, Searched
    <2>8. PhaseOf(x) = "enriched"
        BY <1>1, <2>3, <2>4 DEF PhaseTells
    <2>9. y = x => Searched(x)'
        BY <1>2, <2>5, <2>6, OneWorkerMoves
    <2>10. \/ cancelled /\ PhaseOf(x)' = "delivered"
           \/ ~cancelled /\ PhaseOf(x)' = "discovering"
        BY <1>1, <2>1, <2>4, <2>5, <2>9 DEF PhaseTells, Searched
    <2>11. QED
        BY <1>1, <1>2, <2>1, <2>4, <2>7, <2>8, <2>10, FlowMove
<1>10. ASSUME NEW w \in SocialWorkers, SocialFetched(w) \/ SocialSearched(w)
       PROVE  [Flow!FlowNext]_Flow!flowVars
    <2>0. PICK x : x = lead[w]
        OBVIOUS
    <2>1. UNCHANGED <<batch, fed, toEnrich, toSocial, main, cancelled>>
        BY <1>10 DEF SocialFetched, SocialSearched, queueVars, mainVars, fixedVars
    <2>2. \/ /\ processed' = processed \cup {x}
             /\ pc' = [pc EXCEPT ![w] = "get"] /\ lead' = [lead EXCEPT ![w] = NoLead]
          \/ processed' = processed /\ pc' = [pc EXCEPT ![w] = "search"] /\ lead' = lead
        BY <1>10, <2>0, SocialFetchedEffect, SocialSearchedEffect DEF StreamInv, Base
    <2>3. x \in 1..batch /\ w \in Workers /\ w \notin EnrichWorkers
        BY <1>2, <1>10, <2>0, SocialFetchedEffect, SocialSearchedEffect
        DEF StreamInv, Base, InBatch, Leads
    <2>4. \A l \in (1..batch) \ {x} : SamePlace(l)
        BY <1>2, <2>0, <2>1, <2>2, <2>3 DEF SamePlace, NoLead
    <2>5. PhaseOf(x) = "discovering"
        BY <1>1, <1>10, <2>0, <2>3 DEF PhaseTells
    <2>6. CASE processed' = processed \cup {x}
        <3>1. PhaseOf(x)' = "delivered"
            BY <1>1, <2>1, <2>3, <2>6 DEF PhaseTells
        <3>2. QED
            BY <1>1, <1>2, <2>1, <2>3, <2>4, <2>5, <3>1, FlowMove
    <2>7. CASE processed' = processed /\ pc' = [pc EXCEPT ![w] = "search"] /\ lead' = lead
        <3>1. \A l \in 1..batch : SamePlace(l)
            BY <1>2, <2>1, <2>3, <2>7 DEF SamePlace
        <3>2. QED
            BY <1>1, <1>2, <2>1, <3>1, FlowStays
    <2>8. QED
        BY <2>2, <2>6, <2>7
<1>11. ASSUME NEW w \in SocialWorkers, SocialQuit(w) PROVE UNCHANGED Flow!flowVars
    <2>1. /\ toSocial # << >> /\ Head(toSocial) = QueueDone /\ toSocial' = Tail(toSocial)
          /\ UNCHANGED <<batch, fed, toEnrich, processed, main, cancelled>>
          /\ lead' = [lead EXCEPT ![w] = NoLead] /\ pc[w] = "get"
          /\ pc' = [pc EXCEPT ![w] = "exited"]
        BY <1>11 DEF SocialQuit, Goto, leadVars, mainVars, fixedVars
    <2>2. ToSet(toSocial) = ToSet(toSocial') \cup {QueueDone}
        BY <1>2, <2>1, GetItem
    <2>3. \A l \in 1..batch : SamePlace(l)
        BY <1>2, <2>1, <2>2 DEF SamePlace, NoLead, QueueDone
    <2>4. QED
        BY <1>1, <1>2, <2>1, <2>3, FlowStays
<1>12. CASE EnrichmentJoined
    <2>1. /\ UNCHANGED <<batch, fed, toEnrich, toSocial, pc, lead, processed, cancelled>>
          /\ main # "finished" /\ main' # "finished"
        BY <1>12 DEF EnrichmentJoined, leadVars, queueVars, workerVars, fixedVars
    <2>2. \A l \in 1..batch : SamePlace(l)
        BY <2>1 DEF SamePlace
    <2>3. QED
        BY <1>1, <1>2, <2>1, <2>2, FlowStays
<1>13. CASE PutMarker
    <2>1. /\ UNCHANGED <<batch, fed, toEnrich, pc, lead, processed, cancelled>>
          /\ toSocial' = Append(toSocial, QueueDone)
          /\ main # "finished" /\ main' # "finished"
        BY <1>13 DEF PutMarker, leadVars, workerVars, fixedVars
    <2>2. ToSet(toSocial') = ToSet(toSocial) \cup {QueueDone}
        BY <1>2, <2>1, PutItem DEF Items
    <2>3. \A l \in 1..batch : SamePlace(l)
        BY <1>2, <2>1, <2>2 DEF SamePlace, QueueDone
    <2>4. QED
        BY <1>1, <1>2, <2>1, <2>3, FlowStays
<1>14. CASE SocialJoined
    <2>1. /\ UNCHANGED <<batch, fed, toEnrich, toSocial, pc, lead, processed, cancelled>>
          /\ main = "joining" /\ main' = "finished"
        BY <1>14 DEF SocialJoined, leadVars, queueVars, workerVars, fixedVars
    <2>2. FlowPhase' = FlowPhase
        <3>1. \A l \in 1..batch : SamePlace(l)
            BY <2>1 DEF SamePlace
        <3>2. QED
            BY <1>1, <1>2, <2>1, <3>1, NobodyMoves
    <2>3. \A l \in 1..batch : l \in processed'
        BY <2>1, FinishedNext DEF NoLeadDropped
    <2>4. \A l \in 1..batch : FlowPhase[l] = "delivered"
        <3>1. \A l \in 1..batch : PhaseOf(l) = "delivered" /\ l \in Leads /\ l <= batch
            BY <1>1, <1>2, <2>1, <2>3, LeadsAssumption DEF PhaseTells, Leads
        <3>2. QED
            BY <3>1 DEF FlowPhase
    <2>5. Flow!Return
        BY <2>1, <2>2, <2>4 DEF Flow!Return, FlowPhase
    <2>6. QED
        BY <2>5 DEF Flow!FlowNext
<1>15. CASE RequestCancellation
    <2>1. /\ UNCHANGED <<batch, fed, toEnrich, toSocial, pc, lead, processed, main>>
          /\ ~cancelled /\ cancelled' = TRUE
        BY <1>15 DEF RequestCancellation, leadVars, queueVars, workerVars, mainVars, fixedVars
    <2>2. FlowPhase' = FlowPhase
        <3>1. \A l \in 1..batch : SamePlace(l)
            BY <2>1 DEF SamePlace
        <3>2. QED
            BY <1>1, <1>2, <2>1, <3>1, NobodyMoves
    <2>3. Flow!Stop
        BY <2>1, <2>2 DEF Flow!Stop, FlowPhase
    <2>4. QED
        BY <2>3 DEF Flow!FlowNext
<1>16. CASE UNCHANGED vars
    <2>1. UNCHANGED <<batch, fed, toEnrich, toSocial, pc, lead, processed, main, cancelled>>
        BY <1>16 DEF vars, leadVars, queueVars, workerVars, mainVars, fixedVars
    <2>2. \A l \in 1..batch : SamePlace(l)
        BY <2>1 DEF SamePlace
    <2>3. QED
        BY <1>1, <1>2, <2>1, <2>2, FlowStays
<1>17. QED
    BY <1>2, <1>3, <1>4, <1>5, <1>6, <1>7, <1>8, <1>9, <1>10, <1>11, <1>12, <1>13, <1>14, <1>15, <1>16
    DEF Next, EnrichStep, SocialStep, MainStep, Returned

(* The stage implements the safety part of LeadFlow, for any workers,      *)
(* pages and leads: whatever the queues and the workers do, each lead is   *)
(* looked up at most once and then discovered at most once, in that order, *)
(* nothing starts after a stop, and the stage returns with every lead      *)
(* delivered.  (That it does return is left to the model checker.)         *)
THEOREM StreamImplementsFlow ==
    Spec => Flow!FlowInit /\ [][Flow!FlowNext]_Flow!flowVars
<1>1. Init => Flow!FlowInit
    <2> SUFFICES ASSUME Init PROVE Flow!FlowInit
        OBVIOUS
    <2>1. StreamInv /\ PhaseTells
        BY StreamInit, PlaceGivesPhase
    <2>2. \A l \in 1..batch : PhaseOf(l) = "waiting"
        BY <2>1, LeadsAssumption DEF PhaseTells, Init
    <2>3. FlowPhase = [l \in Leads |-> "waiting"]
        BY <2>2, LeadsAssumption DEF FlowPhase, Leads, Init
    <2>4. QED
        BY <2>3 DEF Init, Flow!FlowInit, FlowPhase, Flow!Leads, Leads
<1>2. QED
    BY <1>1, FlowStep, StreamInvariant, PTL DEF Spec
-----------------------------------------------------------------------------
(* Who writes a lead: an enrichment worker that looks it up, or a social   *)
(* worker that takes it from the queue or discovers it.                    *)
LEMMA Writers ==
    ASSUME StreamInv, [Next]_vars, NEW l \in 1..batch
    PROVE  /\ website'[l] # website[l] => LookedUp(l)
           /\ links'[l] # links[l] => l \in ToSet(toSocial) \/ Searched(l)
<1>1. /\ TypeOK /\ Busy /\ l \in Leads
      /\ EnrichWorkers \subseteq Workers /\ SocialWorkers \subseteq Workers
    BY LeadsAssumption DEF StreamInv, Base, TypeOK, Leads, Workers
<1>2. CASE Feed \/ MainStep \/ RequestCancellation \/ UNCHANGED vars
    <2>1. UNCHANGED <<website, links>>
        BY <1>2 DEF Feed, MainStep, EnrichmentJoined, PutMarker, SocialJoined, RequestCancellation,
                    vars, leadVars
    <2>2. QED
        BY <2>1
<1>3. ASSUME NEW w \in Workers, EnrichTake(w) \/ EnrichQuit(w) \/ Forward(w) \/ AcquirePage(w) \/ SocialQuit(w)
      PROVE  UNCHANGED <<website, links>>
    BY <1>3 DEF EnrichTake, EnrichQuit, Forward, AcquirePage, SocialQuit, leadVars
<1>4. ASSUME NEW w \in EnrichWorkers, EnrichFinish(w)
      PROVE  links' = links /\ (website'[l] # website[l] => LookedUp(l))
    <2>1. links' = links /\ pc[w] = "browse"
          /\ \E site : website' = [website EXCEPT ![lead[w]] = site]
        BY <1>4 DEF EnrichFinish
    <2>2. website'[l] # website[l] => lead[w] = l
        BY <1>1, <2>1 DEF TypeOK
    <2>3. QED
        BY <2>1, <2>2 DEF LookedUp
<1>5. ASSUME NEW w \in SocialWorkers, SocialTake(w)
      PROVE  website' = website /\ (links'[l] # links[l] => l \in ToSet(toSocial))
    <2>1. /\ website' = website /\ toSocial # << >> /\ toSocial \in Seq(Items)
          /\ \A k \in Leads \ {Head(toSocial)} : links'[k] = links[k]
        BY <1>1, <1>5, SocialTakeEffect DEF SocialTake, TypeOK, Items
    <2>2. Head(toSocial) \in ToSet(toSocial)
        BY <2>1, GetItem
    <2>3. QED
        BY <1>1, <2>1, <2>2
<1>6. ASSUME NEW w \in SocialWorkers, SocialFetched(w) \/ SocialSearched(w)
      PROVE  website' = website /\ (links'[l] # links[l] => Searched(l))
    <2>1. website' = website /\ \A k \in Leads \ {lead[w]} : links'[k] = links[k]
        BY <1>1, <1>6, SocialFetchedEffect, SocialSearchedEffect DEF SocialFetched, SocialSearched
    <2>2. QED
        BY <1>1, <2>1 DEF Searched
<1>7. QED
    BY <1>1, <1>2, <1>3, <1>4, <1>5, <1>6 DEF Next, EnrichStep, SocialStep, Returned

(* The coroutines share the leads without a lock: for any number of them a *)
(* website is written only while an enrichment worker has the lead, and    *)
(* the links never after the lead is through.                              *)
THEOREM WritersTakeTurns == Spec => WritesInTurn
<1>1. ASSUME StreamInv, [Next]_vars, NEW l \in 1..batch
      PROVE  /\ website'[l] # website[l] => PhaseOf(l) = "enriching"
             /\ links'[l] # links[l] => PhaseOf(l) \in {"enriched", "discovering"}
    <2>1. PhaseTells
        BY <1>1, PlaceGivesPhase
    <2>2. QED
        BY <1>1, <2>1, Writers DEF PhaseTells, LookedUp, Searched
<1>2. StreamInv /\ [Next]_vars =>
        [\A l \in 1..batch :
            /\ website'[l] # website[l] => PhaseOf(l) = "enriching"
            /\ links'[l] # links[l] => PhaseOf(l) \in {"enriched", "discovering"}]_vars
    BY <1>1
<1>3. QED
    BY <1>2, StreamInvariant, PTL DEF Spec, WritesInTurn
-----------------------------------------------------------------------------
(* The tallies.  A delivered lead adds one to the discovery counters and,  *)
(* by the link it has then, to those of selection.                         *)
SocialTallies ==
    /\ counts["social_completed"] + counts["social_failed"] = Cardinality(processed)
    /\ counts["selection_before"] = counts["social_completed"]
    /\ counts["selection_after"] = Cardinality({l \in processed : links[l] = "usable"})

Enrichments == counts["enrichment_completed"] + counts["enrichment_failed"]

LEMMA DeliverTallies ==
    ASSUME TypeOK, SocialTallies, NEW w \in Workers, NEW l \in Leads \ processed, NEW found \in Links,
           Deliver(w, l, found)
    PROVE  SocialTallies' /\ Enrichments' = Enrichments
<1> DEFINE usable == {k \in processed : links[k] = "usable"}
<1>1. IsFiniteSet(processed) /\ IsFiniteSet(usable) /\ Cardinality(usable) \in Nat
      /\ Cardinality(processed) \in Nat
    <2>1. IsFiniteSet(1..MaxLeads)
        BY LeadsAssumption, FS_Interval
    <2>2. processed \in SUBSET (1..MaxLeads) /\ usable \in SUBSET (1..MaxLeads)
        BY DEF TypeOK, Leads
    <2>3. QED
        BY <2>1, <2>2, FS_Subset, FS_CardinalityType
<1>2. /\ processed' = processed \cup {l} /\ links' = [links EXCEPT ![l] = Selected(found)]
      /\ counts' = SelectionTally(Bump(counts, SocialTally(found)), found)
    BY DEF Deliver
<1>3. Cardinality(processed') = Cardinality(processed) + 1
    BY <1>1, <1>2, FS_AddElement
<1>4. {k \in processed' : links'[k] = "usable"} = usable \cup (IF found = "usable" THEN {l} ELSE {})
    BY <1>2 DEF TypeOK, Selected, Links
<1>5. Cardinality({k \in processed' : links'[k] = "usable"})
        = Cardinality(usable) + (IF found = "usable" THEN 1 ELSE 0)
    <2>1. l \notin usable
        OBVIOUS
    <2>2. CASE found = "usable"
        BY <1>1, <1>4, <2>1, <2>2, FS_AddElement
    <2>3. CASE found # "usable"
        BY <1>1, <1>4, <2>3
    <2>4. QED
        BY <2>2, <2>3
<1>6. /\ counts'["social_completed"] = counts["social_completed"] + (IF found = "none" THEN 0 ELSE 1)
      /\ counts'["social_failed"] = counts["social_failed"] + (IF found = "none" THEN 1 ELSE 0)
      /\ counts'["selection_before"] = counts["selection_before"] + (IF found = "none" THEN 0 ELSE 1)
      /\ counts'["selection_after"] = counts["selection_after"] + (IF found = "usable" THEN 1 ELSE 0)
      /\ counts'["enrichment_completed"] = counts["enrichment_completed"]
      /\ counts'["enrichment_failed"] = counts["enrichment_failed"]
    <2> USE <1>2 DEF SelectionTally, Selected, SocialTally, Bump, TypeOK, Counters
    <2>1. CASE found = "none"
        BY <2>1
    <2>2. CASE found = "rejected"
        BY <2>2
    <2>3. CASE found = "usable"
        <3> DEFINE one == Bump(counts, "social_completed")
                   two == Bump(one, "selection_before")
        <3>1. one \in [Counters -> Nat] /\ two \in [Counters -> Nat]
            OBVIOUS
        <3>2. counts' = Bump(two, "selection_after")
            BY <2>3
        <3>3. /\ one["social_completed"] = counts["social_completed"] + 1
              /\ \A c \in Counters \ {"social_completed"} : one[c] = counts[c]
            OBVIOUS
        <3>4. /\ two["selection_before"] = one["selection_before"] + 1
              /\ \A c \in Counters \ {"selection_before"} : two[c] = one[c]
            BY <3>1
        <3> HIDE DEF one, two
        <3>5. /\ counts'["selection_after"] = two["selection_after"] + 1
              /\ \A c \in Counters \ {"selection_after"} : counts'[c] = two[c]
            BY <3>1, <3>2
        <3>6. QED
            BY <2>3, <3>1, <3>3, <3>4, <3>5
    <2>4. QED
        BY <2>1, <2>2, <2>3 DEF Links
<1>7. /\ counts["social_completed"] \in Nat /\ counts["social_failed"] \in Nat
      /\ counts["selection_before"] \in Nat /\ counts["selection_after"] \in Nat
    BY DEF TypeOK, Counters
<1>8. QED
    BY <1>1, <1>3, <1>5, <1>6, <1>7 DEF SocialTallies, Enrichments

LEMMA ContinueTallies ==
    ASSUME TypeOK, SocialTallies, NEW w \in Workers, NEW l \in Leads \ processed, NEW found \in Links,
           NEW to, Continue(w, l, found, to)
    PROVE  SocialTallies' /\ Enrichments' = Enrichments
<1>1. /\ processed' = processed /\ counts' = counts /\ links' = [links EXCEPT ![l] = found]
    BY DEF Continue
<1>2. {k \in processed : links'[k] = "usable"} = {k \in processed : links[k] = "usable"}
    BY <1>1 DEF TypeOK
<1>3. QED
    BY <1>1, <1>2 DEF SocialTallies, Enrichments

(* The needed leads whose lookup is over, done or skipped.                 *)
Past == {l \in needed : l <= fed /\ l \notin ToSet(toEnrich) /\ ~LookedUp(l)}

(* A lookup is counted when it ends, and as long as nobody has asked for a *)
(* stop none of those needed is skipped.                                   *)
EnrichTallies ==
    /\ needed \subseteq 1..batch
    /\ \A w \in EnrichWorkers : pc[w] \in {"acquire", "browse"} => lead[w] \in needed
    /\ \E S \in SUBSET Past : Enrichments = Cardinality(S) /\ (~cancelled => S = Past)

TallyInv == SocialTallies /\ EnrichTallies

\* What a step that ends no lookup has to leave alone.
LEMMA NothingCounted ==
    ASSUME TypeOK, EnrichTallies, Enrichments' = Enrichments,
           UNCHANGED <<batch, needed>>, cancelled => cancelled',
           \A w \in EnrichWorkers : pc'[w] \in {"acquire", "browse"} => lead'[w] \in needed,
           Past \subseteq Past', cancelled' \/ Past' = Past
    PROVE  EnrichTallies'
<1>1. PICK S \in SUBSET Past : Enrichments = Cardinality(S) /\ (~cancelled => S = Past)
    BY DEF EnrichTallies
<1>2. S \in SUBSET Past' /\ Enrichments' = Cardinality(S) /\ (~cancelled' => S = Past')
    BY <1>1
<1>3. needed' \subseteq 1..batch'
    BY DEF EnrichTallies
<1>4. \A w \in EnrichWorkers : pc'[w] \in {"acquire", "browse"} => lead'[w] \in needed'
    OBVIOUS
<1>5. QED
    BY <1>2, <1>3, <1>4 DEF EnrichTallies

(* The steps of the social workers.                                        *)
LEMMA SocialKeepsTallies ==
    ASSUME StreamInv, SocialTallies, NEW w \in SocialWorkers,
           SocialTake(w) \/ SocialFetched(w) \/ SocialSearched(w)
    PROVE  SocialTallies' /\ Enrichments' = Enrichments
<1>1. TypeOK /\ Busy /\ w \in Workers
    BY DEF StreamInv, Base, Workers
<1>2. CASE SocialTake(w)
    <2>1. PICK l : l = Head(toSocial)
        OBVIOUS
    <2>2. /\ l \in Leads /\ l \in ToSet(toSocial) /\ l # QueueDone
        <3>1. toSocial \in Seq(Items) /\ toSocial # << >> /\ Head(toSocial) # QueueDone
            BY <1>1, <1>2 DEF TypeOK, Items, SocialTake
        <3>2. QED
            BY <1>1, <1>2, <2>1, <3>1, GetItem, SocialTakeEffect
    <2>3. l \notin processed /\ links[l] \in Links
        BY <1>1, <2>2 DEF StreamInv, Alone, TypeOK
    <2>4. CASE \E found \in Links : Deliver(w, l, found)
        BY <1>1, <2>2, <2>3, <2>4, DeliverTallies
    <2>5. CASE \E found \in Links, to \in {"acquire", "search"} : Continue(w, l, found, to)
        BY <1>1, <2>2, <2>3, <2>5, ContinueTallies
    <2>6. QED
        BY <1>2, <2>1, <2>3, <2>4, <2>5 DEF SocialTake
<1>3. ASSUME SocialFetched(w) \/ SocialSearched(w)
      PROVE  SocialTallies' /\ Enrichments' = Enrichments
    <2>1. PICK l : l = lead[w]
        OBVIOUS
    <2>2. l \in Leads
        BY <1>1, <1>3, <2>1, SocialFetchedEffect, SocialSearchedEffect
    <2>3. l \notin processed /\ links[l] \in Links
        BY <1>1, <2>1, <2>2 DEF StreamInv, Alone, TypeOK, Leads, NoLead
    <2>4. Better(links[l]) \subseteq Links
        BY <2>3 DEF Better, Links
    <2>5. \/ \E found \in Links : Deliver(w, l, found)
          \/ \E found \in Links : Continue(w, l, found, "search")
        BY <1>3, <2>1, <2>3, <2>4 DEF SocialFetched, SocialSearched
    <2>6. QED
        BY <1>1, <2>2, <2>3, <2>5, DeliverTallies, ContinueTallies
<1>4. QED
    BY <1>2, <1>3

\* The steps that bring no lookup to an end and skip none.
LEMMA QuietKeepsTallies ==
    ASSUME StreamInv, EnrichTallies, Enrichments' = Enrichments,
           UNCHANGED <<batch, needed, fed, toEnrich>>, cancelled => cancelled',
           \A v \in EnrichWorkers : pc'[v] = pc[v] /\ lead'[v] = lead[v]
    PROVE  EnrichTallies'
<1>1. Past' = Past
    BY DEF Past, LookedUp
<1>2. \A v \in EnrichWorkers : pc'[v] \in {"acquire", "browse"} => lead'[v] \in needed
    BY DEF EnrichTallies
<1>3. TypeOK
    BY DEF StreamInv, Base
<1>4. QED
    BY <1>1, <1>2, <1>3, NothingCounted

(* The steps of the enrichment workers and their feeder.                   *)
LEMMA FeedKeepsTallies ==
    ASSUME StreamInv, TallyInv, Feed
    PROVE  TallyInv'
<1>1. /\ toEnrich' = Append(toEnrich, FeedItem(fed + 1)) /\ fed' = fed + 1
      /\ UNCHANGED <<batch, needed, lead, pc, processed, links, counts, cancelled>>
    BY DEF Feed, leadVars, workerVars, mainVars, fixedVars
<1>2. /\ TypeOK /\ batch \in Nat /\ fed \in Nat /\ toEnrich \in Seq(Items)
      /\ FeedItem(fed + 1) \in Items
    BY LeadsAssumption DEF StreamInv, Base, TypeOK, Items, FeedItem, Leads, QueueDone
<1>3. ToSet(toEnrich') = ToSet(toEnrich) \cup {FeedItem(fed + 1)}
    BY <1>1, <1>2, PutItem
<1>4. \A l \in needed : l \in 1..batch /\ l # QueueDone
    <2>1. needed \subseteq 1..batch
        BY DEF TallyInv, EnrichTallies
    <2>2. QED
        BY <1>2, <2>1 DEF QueueDone
<1>5. \A l \in 1..batch : LookedUp(l)' <=> LookedUp(l)
    BY <1>1 DEF LookedUp
<1>6. ASSUME NEW l \in needed
      PROVE  l <= fed /\ l \notin ToSet(toEnrich) <=> l <= fed' /\ l \notin ToSet(toEnrich')
    <2>1. l \in 1..batch /\ l # QueueDone
        BY <1>4
    <2>2. CASE l = fed + 1
        BY <1>1, <1>2, <1>3, <2>1, <2>2 DEF FeedItem
    <2>3. CASE l # fed + 1
        <3>1. l # FeedItem(fed + 1)
            BY <1>2, <2>1, <2>3 DEF FeedItem
        <3>2. l <= fed <=> l <= fed + 1
            BY <1>2, <2>1, <2>3
        <3>3. QED
            BY <1>1, <1>3, <3>1, <3>2
    <2>4. QED
        BY <2>2, <2>3
<1>7. Past' = Past
    BY <1>1, <1>4, <1>5, <1>6 DEF Past
<1>8. \A w \in EnrichWorkers : pc'[w] \in {"acquire", "browse"} => lead'[w] \in needed
    BY <1>1 DEF TallyInv, EnrichTallies
<1>9. EnrichTallies'
    BY <1>1, <1>2, <1>7, <1>8, NothingCounted DEF TallyInv, Enrichments
<1>10. QED
    BY <1>1, <1>9 DEF TallyInv, SocialTallies

LEMMA EnrichTakeKeepsTallies ==
    ASSUME StreamInv, TallyInv, NEW w \in EnrichWorkers, EnrichTake(w)
    PROVE  TallyInv'
<1>0. PICK x : x = Head(toEnrich)
    OBVIOUS
<1>1. /\ toEnrich # << >> /\ x # QueueDone /\ toEnrich' = Tail(toEnrich)
      /\ UNCHANGED <<batch, needed, fed, processed, links, counts, cancelled>>
      /\ lead' = [lead EXCEPT ![w] = x] /\ pc[w] = "get"
      /\ pc' = [pc EXCEPT ![w] = IF x \in needed /\ ~cancelled THEN "acquire" ELSE "put"]
    BY <1>0 DEF EnrichTake, Goto, WantsEnrichment, leadVars, mainVars, fixedVars
<1>2. /\ TypeOK /\ batch \in Nat /\ fed \in Nat /\ toEnrich \in Seq(Items) /\ w \in Workers
      /\ lead \in [Workers -> Items] /\ pc \in [Workers -> Controls] /\ EnrichWorkers \subseteq Workers
    BY LeadsAssumption DEF StreamInv, Base, TypeOK, Items, Workers, NoLead, QueueDone
<1>3. /\ x \in ToSet(toEnrich) /\ ToSet(toEnrich) = ToSet(toEnrich') \cup {x}
      /\ x \notin ToSet(toEnrich')
    <2>1. NoRepeats(toEnrich)
        BY DEF StreamInv, Alone
    <2>2. QED
        BY <1>0, <1>1, <1>2, <2>1, GetItem
<1>4. x <= fed /\ \A v \in Workers : lead[v] # x
    BY <1>1, <1>3 DEF StreamInv, Alone
<1>5. lead'[w] = x /\ \A v \in Workers \ {w} : lead'[v] = lead[v] /\ pc'[v] = pc[v]
    BY <1>1, <1>2
<1>6. pc'[w] = IF x \in needed /\ ~cancelled THEN "acquire" ELSE "put"
    BY <1>1, <1>2
<1>7. \A l \in needed : l # x => (LookedUp(l)' <=> LookedUp(l))
    <2>1. \A l \in needed : l # lead[w]
        BY <1>1, <1>2 DEF StreamInv, Base, Busy, TallyInv, EnrichTallies, NoLead
    <2>2. QED
        BY <1>2, <1>5, <2>1 DEF LookedUp
<1>8. \A l \in needed \ {x} : l \in Past' <=> l \in Past
    BY <1>1, <1>3, <1>7 DEF Past
<1>9. x \notin Past /\ (x \in Past' => cancelled)
    BY <1>1, <1>2, <1>3, <1>5, <1>6 DEF Past, LookedUp
<1>10. Past \subseteq Past' /\ (cancelled' \/ Past' = Past)
    BY <1>1, <1>8, <1>9 DEF Past
<1>11. \A v \in EnrichWorkers : pc'[v] \in {"acquire", "browse"} => lead'[v] \in needed
    BY <1>2, <1>5, <1>6 DEF TallyInv, EnrichTallies
<1>12. EnrichTallies'
    BY <1>1, <1>2, <1>10, <1>11, NothingCounted DEF TallyInv, Enrichments
<1>13. QED
    BY <1>1, <1>12 DEF TallyInv, SocialTallies

\* A marker taken, a page opened, a lead handed on.
LEMMA PassingKeepsTallies ==
    ASSUME StreamInv, TallyInv, NEW w \in EnrichWorkers,
           EnrichQuit(w) \/ AcquirePage(w) \/ Forward(w)
    PROVE  TallyInv'
<1>1. /\ UNCHANGED <<batch, needed, fed, processed, links, counts, cancelled>>
      /\ \/ /\ pc[w] = "get" /\ toEnrich # << >> /\ Head(toEnrich) = QueueDone
            /\ toEnrich' = Tail(toEnrich)
            /\ pc' = [pc EXCEPT ![w] = "exited"] /\ lead' = [lead EXCEPT ![w] = NoLead]
         \/ /\ pc[w] = "acquire" /\ toEnrich' = toEnrich
            /\ pc' = [pc EXCEPT ![w] = "browse"] /\ lead' = [lead EXCEPT ![w] = lead[w]]
         \/ /\ pc[w] = "put" /\ toEnrich' = toEnrich
            /\ pc' = [pc EXCEPT ![w] = "get"] /\ lead' = [lead EXCEPT ![w] = NoLead]
    BY DEF EnrichQuit, AcquirePage, Forward, Goto, queueVars, leadVars, mainVars, fixedVars
<1>2. /\ TypeOK /\ toEnrich \in Seq(Items) /\ w \in Workers
      /\ lead \in [Workers -> Items] /\ pc \in [Workers -> Controls] /\ EnrichWorkers \subseteq Workers
    BY LeadsAssumption DEF StreamInv, Base, TypeOK, Items, Workers, NoLead, QueueDone
<1>3. \A l \in needed : l # QueueDone /\ l # NoLead
    BY DEF TallyInv, EnrichTallies, QueueDone, NoLead
<1>4. \A l \in needed : l \in ToSet(toEnrich') <=> l \in ToSet(toEnrich)
    <2>1. CASE toEnrich' = toEnrich
        BY <2>1
    <2>2. CASE toEnrich # << >> /\ Head(toEnrich) = QueueDone /\ toEnrich' = Tail(toEnrich)
        BY <1>2, <1>3, <2>2, GetItem
    <2>3. QED
        BY <1>1, <2>1, <2>2
<1>5. \A v \in Workers \ {w} : lead'[v] = lead[v] /\ pc'[v] = pc[v]
    BY <1>1, <1>2
<1>6. \/ pc[w] = "get" /\ pc'[w] = "exited" /\ lead[w] = NoLead /\ lead'[w] = NoLead
      \/ pc[w] = "acquire" /\ pc'[w] = "browse" /\ lead'[w] = lead[w]
      \/ pc[w] = "put" /\ pc'[w] = "get" /\ lead'[w] = NoLead
    BY <1>1, <1>2 DEF StreamInv, Base, Busy
<1>7. \A l \in needed : LookedUp(l)' <=> LookedUp(l)
    BY <1>2, <1>3, <1>5, <1>6 DEF LookedUp
<1>8. Past' = Past
    BY <1>1, <1>4, <1>7 DEF Past
<1>9. \A v \in EnrichWorkers : pc'[v] \in {"acquire", "browse"} => lead'[v] \in needed
    BY <1>2, <1>5, <1>6 DEF TallyInv, EnrichTallies
<1>10. EnrichTallies'
    BY <1>1, <1>2, <1>8, <1>9, NothingCounted DEF TallyInv, Enrichments
<1>11. QED
    BY <1>1, <1>10 DEF TallyInv, SocialTallies

(* The end of a lookup: one more needed lead is past it, one more counted. *)
LEMMA EnrichFinishKeepsTallies ==
    ASSUME StreamInv, TallyInv, NEW w \in EnrichWorkers, EnrichFinish(w)
    PROVE  TallyInv'
<1>0. PICK x : x = lead[w]
    OBVIOUS
<1>1. /\ UNCHANGED <<batch, needed, fed, toEnrich, lead, processed, links, cancelled>>
      /\ pc[w] = "browse" /\ pc' = [pc EXCEPT ![w] = "put"]
      /\ \E site : counts' = Bump(counts, EnrichTally(site))
    <2>1. lead' = [lead EXCEPT ![w] = lead[w]] /\ lead \in [Workers -> Leads \cup {NoLead}]
        BY DEF EnrichFinish, Goto, StreamInv, Base, TypeOK
    <2>2. QED
        BY <2>1 DEF EnrichFinish, Goto, queueVars, mainVars, fixedVars
<1>2. /\ TypeOK /\ w \in Workers /\ EnrichWorkers \subseteq Workers
      /\ pc \in [Workers -> Controls] /\ fed \in Nat
    BY DEF StreamInv, Base, TypeOK, Workers
<1>3. x \in needed /\ x # NoLead
    BY <1>0, <1>1 DEF TallyInv, EnrichTallies, NoLead
<1>4. pc'[w] = "put" /\ \A v \in Workers \ {w} : pc'[v] = pc[v]
    BY <1>1, <1>2
<1>5. \A v \in Workers : lead[v] = x => v = w
    BY <1>0, <1>2, <1>3 DEF StreamInv, Alone
<1>6. x <= fed /\ x \notin ToSet(toEnrich)
    <2>1. x \notin ToSet(toEnrich)
        BY <1>0, <1>2, <1>3 DEF StreamInv, Alone, NoLead, QueueDone
    <2>2. QED
        BY <1>0, <1>2, <1>3, <2>1 DEF StreamInv, Alone
<1>7. LookedUp(x) /\ ~LookedUp(x)'
    BY <1>0, <1>1, <1>2, <1>4, <1>5 DEF LookedUp
<1>8. \A l : l # x => (LookedUp(l)' <=> LookedUp(l))
    BY <1>0, <1>1, <1>2, <1>4 DEF LookedUp
<1>9. Past' = Past \cup {x} /\ x \notin Past
    BY <1>1, <1>3, <1>6, <1>7, <1>8 DEF Past
<1>10. Enrichments' = Enrichments + 1
    BY <1>1, <1>2 DEF Enrichments, Bump, EnrichTally, TypeOK, Counters
<1>11. PICK S \in SUBSET Past : Enrichments = Cardinality(S) /\ (~cancelled => S = Past)
    BY DEF TallyInv, EnrichTallies
<1>12. IsFiniteSet(S)
    <2>1. S \in SUBSET (1..MaxLeads)
        BY <1>2 DEF Past, TypeOK, Leads
    <2>2. IsFiniteSet(1..MaxLeads)
        BY LeadsAssumption, FS_Interval
    <2>3. QED
        BY <2>1, <2>2, FS_Subset
<1>13. Cardinality(S \cup {x}) = Enrichments + 1
    BY <1>9, <1>11, <1>12, FS_AddElement
<1>14. /\ S \cup {x} \in SUBSET Past' /\ Enrichments' = Cardinality(S \cup {x})
       /\ ~cancelled' => S \cup {x} = Past'
    BY <1>1, <1>9, <1>10, <1>11, <1>13
<1>15. \A v \in EnrichWorkers : pc'[v] \in {"acquire", "browse"} => lead'[v] \in needed
    BY <1>1, <1>2, <1>4 DEF TallyInv, EnrichTallies
<1>16. EnrichTallies'
    BY <1>1, <1>14, <1>15 DEF TallyInv, EnrichTallies
<1>17. SocialTallies'
    <2>1. \A c \in {"social_completed", "social_failed", "selection_before", "selection_after"} :
            counts'[c] = counts[c]
        BY <1>1, <1>2 DEF Bump, EnrichTally, TypeOK, Counters
    <2>2. QED
        BY <1>1, <2>1 DEF TallyInv, SocialTallies
<1>18. QED
    BY <1>16, <1>17 DEF TallyInv

LEMMA TallyStep == ASSUME StreamInv, TallyInv, [Next]_vars PROVE TallyInv'
<1>1. ASSUME NEW w \in SocialWorkers, SocialTake(w) \/ SocialFetched(w) \/ SocialSearched(w)
      PROVE  TallyInv'
    <2>1. SocialTallies' /\ Enrichments' = Enrichments
        BY <1>1, SocialKeepsTallies DEF TallyInv
    <2>2. UNCHANGED <<batch, needed, fed, toEnrich, cancelled>>
        BY <1>1 DEF SocialTake, SocialFetched, SocialSearched, queueVars, fixedVars
    <2>3. \A v \in Workers \ {w} : pc'[v] = pc[v] /\ lead'[v] = lead[v]
        <3>1. \E to, l : pc' = [pc EXCEPT ![w] = to] /\ lead' = [lead EXCEPT ![w] = l]
            BY <1>1 DEF SocialTake, SocialFetched, SocialSearched, Deliver, Continue, Goto
        <3>2. QED
            BY <3>1 DEF StreamInv, Base, TypeOK
    <2>4. \A v \in EnrichWorkers : pc'[v] = pc[v] /\ lead'[v] = lead[v]
        BY <2>3, WorkersAssumption DEF Workers
    <2>5. QED
        BY <2>1, <2>2, <2>4, QuietKeepsTallies DEF TallyInv
<1>2. ASSUME NEW w \in SocialWorkers, SocialQuit(w) \/ AcquirePage(w) PROVE TallyInv'
    <2>1. /\ UNCHANGED <<batch, needed, fed, toEnrich, processed, links, counts, cancelled>>
          /\ \E to, l : pc' = [pc EXCEPT ![w] = to] /\ lead' = [lead EXCEPT ![w] = l]
        BY <1>2 DEF SocialQuit, AcquirePage, Goto, leadVars, queueVars, mainVars, fixedVars
    <2>2. \A v \in EnrichWorkers : pc'[v] = pc[v] /\ lead'[v] = lead[v]
        BY <2>1, WorkersAssumption DEF StreamInv, Base, TypeOK, Workers
    <2>3. QED
        BY <2>1, <2>2, QuietKeepsTallies DEF TallyInv, SocialTallies, Enrichments
<1>3. CASE MainStep \/ RequestCancellation \/ UNCHANGED vars
    <2>1. /\ UNCHANGED <<batch, needed, fed, toEnrich, processed, links, counts, pc, lead>>
          /\ cancelled => cancelled'
        BY <1>3 DEF MainStep, EnrichmentJoined, PutMarker, SocialJoined, RequestCancellation,
                    vars, leadVars, queueVars, workerVars, fixedVars
    <2>2. QED
        BY <2>1, QuietKeepsTallies DEF TallyInv, SocialTallies, Enrichments
<1>4. QED
    BY <1>1, <1>2, <1>3, FeedKeepsTallies, EnrichTakeKeepsTallies, PassingKeepsTallies,
       EnrichFinishKeepsTallies
    DEF Next, EnrichStep, SocialStep, Returned

LEMMA TallyInit == Init => TallyInv
<1> SUFFICES ASSUME Init PROVE TallyInv
    OBVIOUS
<1>1. \A c \in Counters : counts[c] = 0
    BY DEF Init
<1>2. /\ counts["social_completed"] = 0 /\ counts["social_failed"] = 0
      /\ counts["selection_before"] = 0 /\ counts["selection_after"] = 0
      /\ Enrichments = 0
    BY <1>1 DEF Counters, Enrichments
<1>3. processed = {} /\ {l \in processed : links[l] = "usable"} = {}
    BY DEF Init
<1>4. SocialTallies
    BY <1>2, <1>3, FS_EmptySet DEF SocialTallies
<1>5. needed \subseteq 1..batch
    BY LeadsAssumption DEF Init, Missing, Leads
<1>6. Past = {}
    BY <1>5 DEF Past, Init
<1>7. EnrichTallies
    <2>1. \A w \in EnrichWorkers : pc[w] = "get"
        BY DEF Init, Workers
    <2>2. {} \in SUBSET Past /\ Enrichments = Cardinality({}) /\ (~cancelled => {} = Past)
        BY <1>2, <1>6, FS_EmptySet
    <2>3. QED
        BY <1>5, <2>1, <2>2 DEF EnrichTallies
<1>8. QED
    BY <1>4, <1>7 DEF TallyInv

(* The reported numbers are those of the leads that came through, whatever *)
(* the order in which the workers finish and whenever the run is stopped.  *)
THEOREM TalliesMatch == Spec => []TalliesAgree
<1>1. StreamInv /\ TallyInv => TalliesAgree
    <2> SUFFICES ASSUME StreamInv, TallyInv PROVE TalliesAgree
        OBVIOUS
    <2>1. PICK S \in SUBSET Past : Enrichments = Cardinality(S) /\ (~cancelled => S = Past)
        BY DEF TallyInv, EnrichTallies
    <2>2. IsFiniteSet(needed) /\ S \in SUBSET needed
        <3>1. needed \in SUBSET (1..MaxLeads)
            BY DEF StreamInv, Base, TypeOK, Leads
        <3>2. IsFiniteSet(1..MaxLeads)
            BY LeadsAssumption, FS_Interval
        <3>3. S \in SUBSET needed
            BY <2>1 DEF Past
        <3>4. QED
            BY <3>1, <3>2, <3>3, FS_Subset
    <2>3. Enrichments <= Cardinality(needed)
        BY <2>1, <2>2, FS_Subset
    <2>4. ASSUME main = "finished", ~cancelled PROVE Enrichments = Cardinality(needed)
        <3>1. processed = 1..batch
            BY <2>4, Finished DEF NoLeadDropped
        <3>2. PhaseTells
            BY PlaceGivesPhase
        <3>3. ASSUME NEW l \in needed PROVE l \in Past
            <4>1. l \in 1..batch /\ l \in processed
                BY <3>1 DEF TallyInv, EnrichTallies
            <4>2. PhaseOf(l) = "delivered"
                BY <3>2, <4>1 DEF PhaseTells
            <4>3. ~(l > fed \/ l \in ToSet(toEnrich)) /\ ~LookedUp(l)
                BY <3>2, <4>1, <4>2 DEF PhaseTells, LookedUp
            <4>4. fed \in Nat
                BY DEF StreamInv, Base, TypeOK
            <4>5. QED
                BY <4>1, <4>3, <4>4 DEF Past
        <3>4. Past = needed
            BY <3>3 DEF Past
        <3>5. QED
            BY <2>1, <2>4, <3>4
    <2>5. QED
        BY <2>3, <2>4 DEF TalliesAgree, TallyInv, SocialTallies, Enrichments
<1>2. Spec => []TallyInv
    BY TallyInit, TallyStep, StreamInvariant, PTL DEF Spec
<1>3. QED
    BY <1>1, <1>2, StreamInvariant, PTL
==============================================================================
