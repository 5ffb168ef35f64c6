------------------------- MODULE PipelineRun_proofs --------------------------
(***************************************************************************)
(* Theorems about PipelineRun, for every number of leads, workers, pages   *)
(* and cancellations.                                                      *)
(***************************************************************************)
EXTENDS PipelineRun, LeadStream_proofs

(* Who has a handle on what, until the run has ended: a browser is reached *)
(* through its own handle or the driver's, contexts through the browser's, *)
(* and a driver without a handle is one whose start was cancelled.         *)
Reached ==
    /\ browser => "driver" \in held
    /\ driver /\ "driver" \notin held => "driver_start" \in lapses
    /\ "browser" \in held => driver /\ browser
    /\ contexts # {} => "browser" \in held
    /\ ~(contexts \subseteq tracked) => lapses \cap {"pool_start", "context_close"} # {}
    /\ "browser_close" \notin lapses

OpenByStage ==
    /\ stage = "starting_driver" => ~driver
    /\ stage \in {"starting_driver", "launching", "undoing_launch", "stopping_driver"}
            => "browser" \notin held
    /\ stage \in {"launching", "undoing_launch", "starting_pool"} => driver /\ "driver" \in held
    /\ stage = "starting_pool" => "browser" \in held /\ contexts = {}
    /\ stage \in {"closing_browser", "stopping_driver"} => tracked = {}

Owned == ~Ended => Reached /\ OpenByStage

(* The stages of the start, cancelled or not.                              *)
LEMMA StartKeepsOwned ==
    ASSUME Owned, StartDriver \/ Launch \/ UndoLaunch \/ StartPool \/ CancelStart
    PROVE  ~Ended' /\ Reached' /\ OpenByStage' /\ "browser_close" \notin lapses'
                   /\ stage' \notin {"closing_browser", "stopping_driver"}
<1> USE DEF Reached, OpenByStage, Ended
<1>1. Reached /\ OpenByStage
    BY DEF Owned, StartDriver, Launch, UndoLaunch, StartPool, CancelStart
<1>2. CASE StartDriver
    BY <1>1, <1>2 DEF StartDriver, GoOn, Raise
<1>3. CASE Launch
    BY <1>1, <1>3 DEF Launch, GoOn
<1>4. CASE UndoLaunch
    BY <1>1, <1>4 DEF UndoLaunch, DriverGone, BrowserGone, Raise
<1>5. CASE StartPool
    <2>1. PICK opened \in SUBSET Pages : \E stuck \in SUBSET (Pages \ opened) :
            /\ contexts' = opened \cup stuck
            /\ tracked' = opened
            /\ IF stuck = {} THEN lapses' = lapses ELSE Lapse("context_close")
            /\ stage' \in {"stopping_pool", "discovering"}
        BY <1>5 DEF StartPool, Tracked, GoOn, Raise
    <2>2. PICK stuck \in SUBSET (Pages \ opened) :
            /\ contexts' = opened \cup stuck
            /\ tracked' = opened
            /\ IF stuck = {} THEN lapses' = lapses ELSE Lapse("context_close")
            /\ stage' \in {"stopping_pool", "discovering"}
        BY <2>1
    <2>3. UNCHANGED <<driver, browser, held>> /\ "browser" \in held
        BY <1>1, <1>5 DEF StartPool
    <2>4. /\ ~(contexts' \subseteq tracked') => "context_close" \in lapses'
          /\ "browser_close" \notin lapses' /\ lapses \subseteq lapses'
        BY <1>1, <2>2 DEF Lapse
    <2>5. QED
        BY <1>1, <2>2, <2>3, <2>4
<1>6. CASE CancelStart
    BY <1>1, <1>6 DEF CancelStart, Raise, Lapse, handles, resources
<1>7. QED
    BY <1>2, <1>3, <1>4, <1>5, <1>6

(* The finally block: what it leaves open when it ends the run.            *)
LEMMA CleanupKeepsOwned ==
    ASSUME Owned, StopPool \/ CloseBrowser \/ CloseFails \/ StopDriver \/ CancelCleanup
    PROVE  Owned' /\ CleanedUp'
<1> USE DEF Reached, OpenByStage, Ended, CleanedUp, PoolStopped
<1>1. Reached /\ OpenByStage
    BY DEF Owned, StopPool, CloseBrowser, CloseFails, StopDriver, CancelCleanup
<1>2. CASE StopPool
    <2>1. PICK stuck \in SUBSET (contexts \cap tracked) :
            /\ contexts' = (contexts \ tracked) \cup stuck
            /\ IF stuck = {} THEN lapses' = lapses ELSE Lapse("context_close")
        BY <1>2 DEF StopPool
    <2>2. /\ stage' = "closing_browser" /\ tracked' = {}
          /\ UNCHANGED <<driver, browser, held>>
        BY <1>2 DEF StopPool, GoOn
    <2>3. /\ contexts' # {} => lapses' \cap {"pool_start", "context_close"} # {}
          /\ "browser_close" \notin lapses' /\ lapses \subseteq lapses'
          /\ contexts' \subseteq contexts
        BY <1>1, <2>1 DEF Lapse
    <2>4. QED
        BY <1>1, <2>2, <2>3 DEF Owned
<1>3. CASE CloseBrowser
    BY <1>1, <1>3 DEF CloseBrowser, BrowserGone, GoOn, Owned
<1>4. CASE CloseFails
    BY <1>1, <1>4 DEF CloseFails, Conclude, Lapse, resources, handles, Owned
<1>5. CASE StopDriver
    BY <1>1, <1>5 DEF StopDriver, DriverGone, BrowserGone, Conclude, resources, Owned
<1>6. CASE CancelCleanup
    BY <1>1, <1>6 DEF CancelCleanup, DriverGone, BrowserGone, Lapse, resources, handles, Owned
<1>7. QED
    BY <1>2, <1>3, <1>4, <1>5, <1>6

(* What a run leaves open and by which lapse alone, whatever the tasks of  *)
(* the stream do and whenever the run is stopped or cancelled: the pool    *)
(* closes every context it has hold of; only browser.close() raising keeps *)
(* the browser, only that and a cancelled start keep the driver.           *)
THEOREM RunCleansUp == RunSpec => []CleanedUp
<1> DEFINE Closing == Owned /\ CleanedUp
<1>1. RunInit => Closing
    BY DEF RunInit, Owned, Reached, OpenByStage, CleanedUp, PoolStopped, Ended
<1>2. ASSUME Closing, [RunNext]_allVars PROVE Closing'
    <2>1. CASE StartDriver \/ Launch \/ UndoLaunch \/ StartPool \/ CancelStart
        BY <1>2, <2>1, StartKeepsOwned DEF Owned, CleanedUp, PoolStopped, Ended
    <2>2. CASE Discover \/ StreamReturns \/ CancelStream
        <3>1. /\ stage \in {"discovering", "streaming"} /\ stage' \in {"streaming", "stopping_pool"}
              /\ UNCHANGED <<driver, browser, contexts, held, tracked, lapses>>
            BY <2>2 DEF Discover, StreamReturns, CancelStream, GoOn, Raise, resources, handles
        <3>2. QED
            BY <1>2, <3>1 DEF Owned, Reached, OpenByStage, CleanedUp, PoolStopped, Ended
    <2>3. CASE StopPool \/ CloseBrowser \/ CloseFails \/ StopDriver \/ CancelCleanup
        BY <1>2, <2>3, CleanupKeepsOwned
    <2>4. CASE UNCHANGED runVars
        BY <1>2, <2>4 DEF runVars, resources, handles, Owned, Reached, OpenByStage, CleanedUp,
                          PoolStopped, Ended
    <2>5. QED
        BY <1>2, <2>1, <2>2, <2>3, <2>4
        DEF RunNext, RunStep, StreamStep, SocialTaskStep, RequestStop, RunOver, allVars
<1>3. Closing => CleanedUp
    OBVIOUS
<1>4. QED
    BY <1>1, <1>2, <1>3, PTL DEF RunSpec
-----------------------------------------------------------------------------
(* What the stages of the run say of its resources and its tasks.  A run   *)
(* that was cancelled is raising, a run that raises for another reason has *)
(* not come to the stream, and as long as nobody cancels it the invariant  *)
(* of the stream holds and the stream is over before the clean-up begins.  *)
BeforeStream ==
    {"starting_driver", "launching", "undoing_launch", "starting_pool", "discovering"}

StageTells ==
    /\ cancels # 0 => raising
    /\ raising => stage \notin BeforeStream \cup {"streaming", "returned"}
    /\ raising /\ cancels = 0 => ~spawned
    /\ stage \in BeforeStream => ~spawned
    /\ stage = "streaming" => spawned
    /\ stage \in {"starting_pool", "discovering", "streaming"} => browser
    /\ stage \in {"discovering", "streaming"} => contexts = Pages

TasksTell ==
    /\ ~spawned => \A w \in Workers : pc[w] = "get"
    /\ cancels = 0 => StreamInv
    /\ cancels = 0 /\ spawned /\ stage # "streaming" => main = "finished"

RunInv == RunTypeOK /\ Base /\ StageTells /\ TasksTell

(* The stream's steps as those of LeadStream.                              *)
LEMMA TaskStep ==
    ASSUME StreamStep \/ (\E w \in SocialWorkers : SocialTaskStep(w)) \/ RequestStop
    PROVE  [Next]_vars /\ UNCHANGED runVars
    BY DEF StreamStep, SocialTaskStep, RequestStop, Next

\* The clean-up of the pool, and a step that does not concern the tasks.
LEMMA PoolKeeps ==
    ASSUME RunInv, free' \subseteq Pages,
           UNCHANGED <<fixedVars, leadVars, queueVars, pc, lead, page, mainVars, cancelled>>
    PROVE  TypeOK' /\ Base' /\ (StreamInv => StreamInv')
<1>1. UNCHANGED <<batch, needed, website, links, processed, counts, fed, toEnrich, toSocial,
                  pc, lead, page, main, markers, cancelled>>
    BY DEF fixedVars, leadVars, queueVars, mainVars
<1>2. TypeOK'
    BY <1>1 DEF RunInv, RunTypeOK, TypeOK
<1>3. Base'
    BY <1>1, <1>2 DEF RunInv, Base, Busy, PageHeld
<1>4. /\ InBatch => InBatch'
      /\ Somewhere => Somewhere'
      /\ Alone => Alone'
    BY <1>1 DEF InBatch, Somewhere, Alone
<1>5. Order => Order'
    BY <1>1 DEF Order, FeederDone, FeedLength, AllExited
<1>6. QED
    BY <1>2, <1>3, <1>4, <1>5 DEF StreamInv

LEMMA QuietKeeps ==
    ASSUME RunInv, UNCHANGED vars
    PROVE  TypeOK' /\ Base' /\ (StreamInv => StreamInv')
<1>1. /\ UNCHANGED <<fixedVars, leadVars, queueVars, pc, lead, page, mainVars, cancelled>>
      /\ free' = free
    BY DEF vars, workerVars
<1>2. free \subseteq Pages
    BY DEF RunInv, RunTypeOK, TypeOK
<1>3. QED
    BY <1>1, <1>2, PoolKeeps

(* The steps of the tasks, and a stop requested.                           *)
LEMMA TasksKeepRunInv ==
    ASSUME RunInv, StreamStep \/ (\E w \in SocialWorkers : SocialTaskStep(w)) \/ RequestStop
    PROVE  RunInv'
<1>1. [Next]_vars /\ UNCHANGED runVars
    BY TaskStep
<1>2. Base' /\ (StreamInv => StreamInv')
    BY <1>1, BaseStep, StreamInvStep DEF RunInv
<1>3. UNCHANGED <<stage, raising, driver, browser, contexts, held, tracked, spawned, stranded,
                  cancels, lapses>>
    BY <1>1 DEF runVars, resources, handles, taskVars
<1>4. RunTypeOK' /\ StageTells'
    BY <1>2, <1>3 DEF RunInv, RunTypeOK, StageTells, Base
<1>5. ~spawned => \A w \in Workers : pc'[w] = "get"
    <2>1. SUFFICES ASSUME ~spawned PROVE pc' = pc
        BY DEF RunInv, TasksTell
    <2>2. RequestStop
        BY <2>1 DEF RunInv, StageTells, StreamStep, SocialTaskStep
    <2>3. QED
        BY <2>2 DEF RequestStop, RequestCancellation, workerVars
<1>6. cancels = 0 /\ spawned /\ stage # "streaming" => main' = "finished"
    <2>1. SUFFICES ASSUME stage # "streaming" PROVE main' = main
        BY DEF RunInv, TasksTell
    <2>2. CASE RequestStop
        BY <2>2 DEF RequestStop, RequestCancellation, mainVars
    <2>3. ASSUME NEW w \in SocialWorkers, SocialTaskStep(w) PROVE main' = main
        BY <2>3 DEF SocialTaskStep, SocialStep, SocialTake, SocialQuit, AcquirePage, SocialFetched,
                    SocialSearched, mainVars
    <2>4. QED
        BY <2>1, <2>2, <2>3 DEF StreamStep
<1>7. QED
    BY <1>2, <1>3, <1>4, <1>5, <1>6 DEF RunInv, TasksTell

\* What is open and who has hold of it keep their types.
LEMMA StartKeepsHandles ==
    ASSUME RunInv, StartDriver \/ Launch \/ UndoLaunch \/ StartPool \/ Discover \/ CancelStart
    PROVE  /\ {driver', browser'} \subseteq BOOLEAN /\ contexts' \subseteq Pages
           /\ held' \subseteq {"driver", "browser"} /\ tracked' \subseteq Pages
           /\ lapses' \subseteq Lapses
<1> USE DEF RunInv, RunTypeOK, Lapses
<1>1. CASE StartPool
    <2>1. PICK opened \in SUBSET Pages : \E stuck \in SUBSET (Pages \ opened) :
            /\ contexts' = opened \cup stuck /\ tracked' = opened
            /\ lapses' = lapses \/ Lapse("context_close")
        BY <1>1 DEF StartPool, Tracked
    <2>2. UNCHANGED <<driver, browser, held>>
        BY <1>1 DEF StartPool
    <2>3. QED
        BY <2>1, <2>2 DEF Lapse
<1>2. CASE StartDriver \/ Launch \/ UndoLaunch \/ Discover
    BY <1>2 DEF StartDriver, Launch, UndoLaunch, DriverGone, BrowserGone, Discover, resources, handles
<1>3. CASE CancelStart
    BY <1>3 DEF CancelStart, Lapse, resources, handles
<1>4. QED
    BY <1>1, <1>2, <1>3

\* The stages before the stream, in which no task exists and no exception is
\* on its way: whatever happens there leaves the tasks alone.
LEMMA StartKeepsRunInv ==
    ASSUME RunInv, StartDriver \/ Launch \/ UndoLaunch \/ StartPool \/ Discover \/ CancelStart
    PROVE  RunInv'
<1>1. /\ stage \in BeforeStream /\ ~raising /\ ~spawned /\ cancels = 0
      /\ cancels \in 0..MaxCancels /\ raising \in BOOLEAN /\ spawned \in BOOLEAN
    BY RunAssumption DEF RunInv, RunTypeOK, StageTells, StartDriver, Launch, UndoLaunch, StartPool,
           Discover, CancelStart, BeforeStream
<1>2. /\ UNCHANGED vars /\ UNCHANGED stranded
      /\ TypeOK' /\ Base' /\ (StreamInv => StreamInv')
    <2>1. UNCHANGED vars /\ UNCHANGED stranded
        BY DEF StartDriver, Launch, UndoLaunch, StartPool, Discover, CancelStart, Quiet, taskVars
    <2>2. QED
        BY <2>1, QuietKeeps
<1>3. \A w \in Workers : pc'[w] = "get"
    BY <1>1, <1>2 DEF RunInv, TasksTell, vars, workerVars
<1>4. StreamInv'
    BY <1>1, <1>2 DEF RunInv, TasksTell
<1>5. /\ {driver', browser'} \subseteq BOOLEAN /\ contexts' \subseteq Pages
      /\ held' \subseteq {"driver", "browser"} /\ tracked' \subseteq Pages
      /\ lapses' \subseteq Lapses
    BY StartKeepsHandles
<1>6. CASE StartDriver \/ Launch \/ UndoLaunch \/ StartPool
    <2>1. spawned' = spawned /\ cancels' = cancels
        BY <1>6 DEF StartDriver, Launch, UndoLaunch, StartPool, Quiet, taskVars
    <2>2. /\ stage' \in RunStages /\ raising' \in BOOLEAN /\ stage' \notin {"streaming", "returned"}
          /\ raising' => stage' \notin BeforeStream
          /\ stage' \in {"starting_pool", "discovering"} => browser'
          /\ stage' = "discovering" => contexts' = Pages
        <3>1. CASE StartPool
            <4>1. PICK opened \in SUBSET Pages : \E stuck \in SUBSET (Pages \ opened) :
                    /\ contexts' = opened \cup stuck
                    /\ IF opened # Pages THEN Raise
                          ELSE GoOn(IF cancelled THEN "stopping_pool" ELSE "discovering")
                BY <3>1 DEF StartPool
            <4>2. browser' = browser /\ browser
                BY <3>1 DEF StartPool, RunInv, StageTells
            <4>3. QED
                BY <1>1, <4>1, <4>2 DEF Raise, GoOn, RunStages, BeforeStream
        <3>2. CASE StartDriver
            <4>1. \/ stage' = "launching" /\ raising' = raising
                  \/ stage' = "stopping_pool" /\ raising' = TRUE
                BY <3>2 DEF StartDriver, GoOn, Raise
            <4>2. CASE stage' = "launching" /\ raising' = raising
                BY <1>1, <4>2 DEF RunStages, BeforeStream
            <4>3. CASE stage' = "stopping_pool" /\ raising' = TRUE
                BY <4>3 DEF RunStages, BeforeStream
            <4>4. QED
                BY <4>1, <4>2, <4>3
        <3>3. CASE Launch
            <4>1. \/ browser' /\ stage' = "starting_pool" /\ raising' = raising
                  \/ stage' = "undoing_launch" /\ raising' = raising
                BY <3>3 DEF Launch, GoOn
            <4>2. QED
                BY <1>1, <4>1 DEF RunStages, BeforeStream
        <3>4. CASE UndoLaunch
            BY <3>4 DEF UndoLaunch, Raise, RunStages, BeforeStream
        <3>5. QED
            BY <1>6, <3>1, <3>2, <3>3, <3>4
    <2>3. RunTypeOK' /\ StageTells'
        BY <1>1, <1>2, <1>5, <2>1, <2>2 DEF RunInv, RunTypeOK, StageTells
    <2>4. QED
        BY <1>1, <1>2, <1>3, <1>4, <2>1, <2>3 DEF RunInv, TasksTell
<1>7. CASE Discover
    <2>1. /\ stage' = IF cancelled THEN "stopping_pool" ELSE "streaming"
          /\ spawned' = ~cancelled /\ raising' = raising /\ stage = "discovering"
          /\ UNCHANGED <<driver, browser, contexts, cancels>>
        BY <1>7 DEF Discover, GoOn, resources
    <2>2. cancelled \in BOOLEAN
        BY DEF RunInv, RunTypeOK, TypeOK
    <2>3. RunTypeOK'
        BY <1>1, <1>2, <1>5, <2>1, <2>2 DEF RunInv, RunTypeOK, RunStages
    <2>4. StageTells'
        BY <1>1, <2>1, <2>2 DEF RunInv, StageTells, BeforeStream
    <2>5. cancels' = 0 /\ (spawned' => stage' = "streaming")
        BY <1>1, <2>1, <2>2
    <2>6. QED
        BY <1>2, <1>3, <1>4, <2>3, <2>4, <2>5 DEF RunInv, TasksTell
<1>8. CASE CancelStart
    <2>1. /\ stage' = "stopping_pool" /\ raising' = TRUE /\ spawned' = spawned
          /\ cancels' = cancels + 1 /\ cancels < MaxCancels
        BY <1>8 DEF CancelStart, Cancel, Raise
    <2>2. cancels' \in 1..MaxCancels
        BY <1>1, <2>1, RunAssumption
    <2>3. RunTypeOK'
        BY <1>1, <1>2, <1>5, <2>1, <2>2 DEF RunInv, RunTypeOK, RunStages
    <2>4. StageTells'
        BY <1>1, <2>1, <2>2 DEF StageTells, BeforeStream
    <2>5. QED
        BY <1>1, <1>2, <1>3, <2>1, <2>2, <2>3, <2>4 DEF RunInv, TasksTell
<1>9. QED
    BY <1>6, <1>7, <1>8

LEMMA StreamReturnsKeepsRunInv == ASSUME RunInv, StreamReturns PROVE RunInv'
<1>1. /\ stage = "streaming" /\ main = "finished" /\ stage' = "stopping_pool"
      /\ UNCHANGED vars
      /\ UNCHANGED <<raising, driver, browser, contexts, held, tracked, spawned, stranded, cancels, lapses>>
    BY DEF StreamReturns, StreamDone, GoOn, Quiet, taskVars, resources, handles
<1>2. TypeOK' /\ Base' /\ (StreamInv => StreamInv')
    BY <1>1, QuietKeeps
<1>3. UNCHANGED <<main, pc>>
    BY <1>1 DEF vars, mainVars, workerVars
<1>4. RunTypeOK'
    BY <1>1, <1>2 DEF RunInv, RunTypeOK, RunStages
<1>5. StageTells'
    BY <1>1 DEF RunInv, StageTells, BeforeStream
<1>6. QED
    BY <1>1, <1>2, <1>3, <1>4, <1>5 DEF RunInv, TasksTell

(* The finally block.                                                      *)
LEMMA CleanupKeepsHandles ==
    ASSUME RunInv, StopPool \/ CloseBrowser \/ CloseFails \/ StopDriver \/ CancelCleanup
    PROVE  /\ {driver', browser'} \subseteq BOOLEAN /\ contexts' \subseteq Pages
           /\ held' \subseteq {"driver", "browser"} /\ tracked' \subseteq Pages
           /\ lapses' \subseteq Lapses
<1> USE DEF RunInv, RunTypeOK, Lapses
<1>1. CASE StopPool
    <2>1. PICK stuck \in SUBSET (contexts \cap tracked) :
            /\ contexts' = (contexts \ tracked) \cup stuck
            /\ lapses' = lapses \/ Lapse("context_close")
        BY <1>1 DEF StopPool
    <2>2. UNCHANGED <<driver, browser, held>> /\ tracked' = {}
        BY <1>1 DEF StopPool
    <2>3. QED
        BY <2>1, <2>2 DEF Lapse
<1>2. CASE CloseBrowser \/ CloseFails \/ StopDriver
    BY <1>2 DEF CloseBrowser, CloseFails, StopDriver, DriverGone, BrowserGone, Lapse, resources, handles
<1>3. CASE CancelCleanup
    BY <1>3 DEF CancelCleanup, DriverGone, BrowserGone, Lapse, resources, handles
<1>4. QED
    BY <1>1, <1>2, <1>3

LEMMA CleanupKeepsRunInv ==
    ASSUME RunInv, StopPool \/ CloseBrowser \/ CloseFails \/ StopDriver \/ CancelCleanup
    PROVE  RunInv'
<1>1. /\ stage \in {"stopping_pool", "closing_browser", "stopping_driver"}
      /\ stage' \in {"closing_browser", "stopping_driver", "returned", "raised"}
      /\ stage' = "returned" => ~raising
      /\ spawned' = spawned
    BY DEF StopPool, CloseBrowser, CloseFails, StopDriver, CancelCleanup, GoOn, Conclude, Quiet, taskVars
<1>2. /\ UNCHANGED <<fixedVars, leadVars, queueVars, pc, lead, page, mainVars, cancelled>>
      /\ free' \in {free, {}} /\ stranded' \subseteq SocialWorkers
    BY DEF StopPool, CloseBrowser, CloseFails, StopDriver, CancelCleanup, Quiet, taskVars, vars,
           workerVars, RunInv, RunTypeOK
<1>3. \/ cancels' = cancels /\ raising' = raising
      \/ cancels < MaxCancels /\ cancels' = cancels + 1 /\ raising' = TRUE /\ stage' = "raised"
    BY DEF StopPool, CloseBrowser, CloseFails, StopDriver, CancelCleanup, Cancel, GoOn, Quiet, taskVars
<1>4. cancels \in 0..MaxCancels /\ cancels' \in 0..MaxCancels /\ (cancels' = 0 => cancels = 0)
    BY <1>3, RunAssumption DEF RunInv, RunTypeOK
<1>5. TypeOK' /\ Base' /\ (StreamInv => StreamInv')
    BY <1>2, PoolKeeps DEF RunInv, RunTypeOK, TypeOK
<1>6. raising' \in BOOLEAN /\ spawned' \in BOOLEAN
    BY <1>1, <1>3 DEF RunInv, RunTypeOK
<1>7. RunTypeOK'
    BY <1>1, <1>2, <1>4, <1>5, <1>6, CleanupKeepsHandles DEF RunTypeOK, RunStages
<1>8. StageTells'
    BY <1>1, <1>3, <1>4 DEF RunInv, StageTells, BeforeStream
<1>9. UNCHANGED <<pc, main>>
    BY <1>2 DEF mainVars
<1>10. TasksTell'
    BY <1>1, <1>4, <1>5, <1>9 DEF RunInv, TasksTell
<1>11. QED
    BY <1>5, <1>7, <1>8, <1>10 DEF RunInv

(* gather() cancels the tasks it waits for.                                *)
LEMMA CancelStreamKeepsRunInv == ASSUME RunInv, CancelStream PROVE RunInv'
<1>1. /\ stage = "streaming" /\ stage' = "stopping_pool" /\ raising' = TRUE
      /\ cancels < MaxCancels /\ cancels' = cancels + 1
      /\ UNCHANGED <<driver, browser, contexts, held, tracked, spawned, stranded, lapses>>
      /\ UNCHANGED <<batch, needed, website, links, processed, counts, fed, toEnrich, toSocial,
                     main, markers, cancelled>>
    BY DEF CancelStream, Cancel, Raise, resources, handles, fixedVars, leadVars, queueVars, mainVars
<1>2. cancels' \in 1..MaxCancels /\ spawned
    BY <1>1, RunAssumption DEF RunInv, RunTypeOK, StageTells
<1>3. /\ pc' \in [Workers -> Controls]
      /\ lead' \in [Workers -> Leads \cup {NoLead}]
      /\ page' \in [Workers -> Pages \cup {NoPage}]
      /\ Busy' /\ PageHeld'
    BY DEF CancelStream, RunInv, RunTypeOK, TypeOK, Base, Busy, PageHeld, Controls
<1>4. free' \subseteq Pages
    <2>1. \A w \in Workers : page[w] \in Pages \cup {NoPage}
        BY DEF RunInv, RunTypeOK, TypeOK
    <2>2. Awaited \subseteq Workers
        BY DEF Awaited, CancelStream, Workers, RunInv, RunTypeOK, TypeOK, Stages
    <2>3. QED
        BY <2>1, <2>2 DEF CancelStream, RunInv, RunTypeOK, TypeOK
<1>5. TypeOK' /\ Base'
    BY <1>1, <1>3, <1>4 DEF RunInv, RunTypeOK, TypeOK, Base
<1>6. RunTypeOK'
    BY <1>1, <1>2, <1>5 DEF RunInv, RunTypeOK, RunStages
<1>7. StageTells' /\ TasksTell'
    BY <1>1, <1>2 DEF StageTells, TasksTell, BeforeStream
<1>8. QED
    BY <1>5, <1>6, <1>7 DEF RunInv

LEMMA RunInvInit == RunInit => RunInv
<1> SUFFICES ASSUME RunInit PROVE RunInv
    OBVIOUS
<1>1. Init /\ StreamInv /\ Base /\ TypeOK
    BY StreamInit DEF RunInit, StreamInv, Base
<1>2. RunTypeOK
    <2>1. {raising, driver, browser, spawned} \subseteq BOOLEAN
        BY DEF RunInit
    <2>2. cancels \in 0..MaxCancels
        BY RunAssumption DEF RunInit
    <2>3. QED
        BY <1>1, <2>1, <2>2 DEF RunInit, RunTypeOK, RunStages
<1>3. StageTells
    BY DEF RunInit, StageTells, BeforeStream
<1>4. TasksTell
    BY <1>1 DEF RunInit, TasksTell, Init
<1>5. QED
    BY <1>1, <1>2, <1>3, <1>4 DEF RunInv

LEMMA RunInvStep == ASSUME RunInv, [RunNext]_allVars PROVE RunInv'
<1>1. CASE UNCHANGED allVars
    <2>1. TypeOK' /\ Base' /\ (StreamInv => StreamInv')
        BY <1>1, QuietKeeps DEF allVars
    <2>2. /\ UNCHANGED <<stage, raising, driver, browser, contexts, held, tracked, spawned, stranded,
                         cancels, lapses>>
          /\ UNCHANGED <<pc, main>>
        BY <1>1 DEF allVars, runVars, resources, handles, taskVars, vars, workerVars, mainVars
    <2>3. QED
        BY <2>1, <2>2 DEF RunInv, RunTypeOK, StageTells, TasksTell
<1>2. QED
    BY <1>1, TasksKeepRunInv, StartKeepsRunInv, StreamReturnsKeepsRunInv, CleanupKeepsRunInv,
       CancelStreamKeepsRunInv
    DEF RunNext, RunStep, RunOver

LEMMA RunInvariant == RunSpec => []RunInv
    BY RunInvInit, RunInvStep, PTL DEF RunSpec
-----------------------------------------------------------------------------
(* Every variable of the run keeps its type, the stream's included, in a   *)
(* cancelled run too.                                                      *)
THEOREM RunTyping == RunSpec => []RunTypeOK
<1>1. RunInv => RunTypeOK
    BY DEF RunInv
<1>2. QED
    BY <1>1, RunInvariant, PTL

(* What is proved of the stream alone holds of it within a run: as long as *)
(* the run's task is not cancelled, its leads are each in one place, none  *)
(* is dropped, and who has taken a marker has left none behind.            *)
THEOREM StreamWithinRun ==
    RunSpec => [](cancels = 0 => LeadInOnePlace /\ NoLeadDropped /\ ExitOnlyWhenDrained)
<1>1. RunInv => (cancels = 0 => LeadInOnePlace /\ NoLeadDropped /\ ExitOnlyWhenDrained)
    BY PlacedOnce, Finished, LeftNoneBehind DEF RunInv, TasksTell
<1>2. QED
    BY <1>1, RunInvariant, PTL

(* As long as nobody cancels the run no worker is on a page whose context  *)
(* or browser is closed, and a run that returns has left no task behind    *)
(* and has seen its leads through.                                         *)
THEOREM TasksLiveWithinRun == RunSpec => []TasksWithinRun
<1>1. RunInv => TasksWithinRun
    <2> SUFFICES ASSUME RunInv PROVE TasksWithinRun
        OBVIOUS
    <2>1. \A w \in Workers : page[w] \in Pages \cup {NoPage} /\ (page[w] # NoPage <=> pc[w] = "browse")
        BY DEF RunInv, RunTypeOK, TypeOK, Base, PageHeld
    <2>2. ASSUME cancels = 0, NEW w \in Workers, page[w] # NoPage PROVE page[w] \in contexts /\ browser
        <3>1. pc[w] = "browse"
            BY <2>1, <2>2
        <3>2. spawned
            BY <2>2, <3>1 DEF RunInv, TasksTell
        <3>3. main # "finished"
            BY <2>2, <3>1 DEF RunInv, TasksTell, StreamInv, Order, AllExited, Workers
        <3>4. stage = "streaming"
            BY <2>2, <3>2, <3>3 DEF RunInv, TasksTell
        <3>5. QED
            BY <2>1, <2>2, <3>4 DEF RunInv, StageTells
    <2>3. ASSUME stage = "returned" PROVE Alive = {} /\ (spawned => processed = 1..batch)
        <3>1. cancels = 0
            BY <2>3 DEF RunInv, StageTells
        <3>2. spawned => main = "finished" /\ StreamInv
            BY <2>3, <3>1 DEF RunInv, TasksTell
        <3>3. spawned => AllExited(Workers)
            BY <3>2 DEF StreamInv, Order, AllExited, Workers
        <3>4. spawned => processed = 1..batch
            BY <3>2, Finished DEF NoLeadDropped
        <3>5. QED
            BY <3>3, <3>4 DEF Alive, AllExited
    <2>4. QED
        BY <2>2, <2>3 DEF TasksWithinRun
<1>2. QED
    BY <1>1, RunInvariant, PTL
==============================================================================
