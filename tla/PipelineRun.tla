---------------------------- MODULE PipelineRun -----------------------------
(***************************************************************************)
(* PipelineOrchestrator.run(): starts the browser, the page pool and the   *)
(* session, discovers, streams the leads (LeadStream), and stops pool and  *)
(* browser in its finally block.  Two ways to stop a run may come at any   *)
(* moment: request_cancellation(), and cancelling the task that runs it.   *)
(*                                                                         *)
(* The run owns its browser (no browser_pool was given to it).  What       *)
(* discovery brings back is chosen in LeadStream's Init: a failing         *)
(* discovery stands for an empty batch.                                    *)
(*                                                                         *)
(* What is open (driver, browser, contexts) and what somebody has a handle *)
(* on (held, tracked) are kept apart: stop() closes what it has a handle   *)
(* on, and a call that is cancelled or fails may leave something open that *)
(* nobody has.                                                             *)
(***************************************************************************)
EXTENDS LeadStream

CONSTANTS
    FaultyClose,        \* whether close() of a context or the browser may raise
    MaxCancels          \* bound on the times the task is cancelled

ASSUME RunAssumption == FaultyClose \in BOOLEAN /\ MaxCancels \in Nat

VARIABLES
    stage,              \* where run() is suspended
    raising,            \* an exception is on its way through the finally
    driver,             \* the Playwright driver process is up
    browser,            \* Chromium is up
    contexts,           \* the browser contexts that are open
    held,               \* what BrowserManager has: _playwright, _browser
    tracked,            \* BrowserContextPool._all
    spawned,            \* the tasks of the stream have been created
    stranded,           \* workers waiting for a queue that stop() replaced
    cancels,            \* how often the task was cancelled
    lapses              \* history: which calls ended with something left open

resources == <<driver, browser, contexts>>
handles   == <<held, tracked>>
taskVars  == <<spawned, stranded, cancels>>
runVars   == <<stage, raising, resources, handles, taskVars, lapses>>
allVars   == <<vars, runVars>>

RunStages ==
    {"starting_driver", "launching", "undoing_launch", "starting_pool",
     "discovering", "streaming",
     "stopping_pool", "closing_browser", "stopping_driver", "returned", "raised"}

(* A start() of driver or pool that was cancelled, a close() that raised,  *)
(* and a clean-up that was cancelled.                                      *)
Lapses == {"driver_start", "pool_start", "context_close", "browser_close", "cleanup"}

Ended == stage \in {"returned", "raised"}

RunTypeOK ==
    /\ TypeOK
    /\ stage \in RunStages
    /\ {raising, driver, browser, spawned} \subseteq BOOLEAN
    /\ tracked \subseteq Pages /\ contexts \subseteq Pages
    /\ held \subseteq {"driver", "browser"}
    /\ lapses \subseteq Lapses
    /\ stranded \subseteq SocialWorkers
    /\ cancels \in 0..MaxCancels

RunInit ==
    /\ Init
    /\ stage = "starting_driver" /\ raising = FALSE
    /\ driver = FALSE /\ browser = FALSE /\ contexts = {}
    /\ held = {} /\ tracked = {} /\ lapses = {}
    /\ spawned = FALSE /\ stranded = {} /\ cancels = 0

\* On to the next stage, or into the finally block with an exception.
GoOn(s) == stage' = s /\ raising' = raising
Raise   == stage' = "stopping_pool" /\ raising' = TRUE

\* What a step of run() leaves alone when the tasks are not concerned.
Quiet == UNCHANGED <<vars, taskVars>>

Lapse(l) == lapses' = lapses \cup {l}

\* A browser takes its contexts with it, and a driver its browser.
BrowserGone == browser' = FALSE /\ contexts' = {}
DriverGone  == driver' = FALSE /\ BrowserGone
-----------------------------------------------------------------------------
(* What the code would be with one plausible mistake in it: no action uses *)
(* these; each stands in for a definition below to show that a property    *)
(* notices.                                                                *)

\* The run goes on to the finally block once the leads are handed out.
HandedOut == main # "enriching"

\* BrowserManager.stop() has nothing to do when there is no browser.
CloseBrowserOnly ==
    /\ stage = "closing_browser"
    /\ IF "browser" \in held
          THEN BrowserGone /\ held' = held \ {"browser"} /\ GoOn("stopping_driver")
          ELSE /\ stage' = (IF raising THEN "raised" ELSE "returned") /\ raising' = raising
               /\ UNCHANGED <<browser, contexts, held>>
    /\ Quiet /\ UNCHANGED <<driver, tracked, lapses>>

\* A pool that could not be started raises before it keeps track of anything.
TrackedIfAll(opened) == IF opened = Pages THEN opened ELSE {}

\* The finally block first waits for all the tasks of the stream.
StopPoolAfterTasks ==
    /\ stage = "stopping_pool"
    /\ spawned => AllExited(Workers)
    /\ GoOn("closing_browser")
    /\ contexts' = contexts \ tracked /\ tracked' = {}
    /\ UNCHANGED <<vars, driver, browser, held, taskVars, lapses>>
-----------------------------------------------------------------------------
(* BrowserManager.start() and BrowserContextPool.start()                   *)

StartDriver ==
    /\ stage = "starting_driver"
    /\ \/ driver' = TRUE /\ held' = held \cup {"driver"} /\ GoOn("launching")
       \/ driver' = FALSE /\ held' = held /\ Raise
    /\ Quiet /\ UNCHANGED <<browser, contexts, tracked, lapses>>

Launch ==
    /\ stage = "launching"
    /\ \/ browser' = TRUE /\ held' = held \cup {"browser"} /\ GoOn("starting_pool")
       \/ browser' = FALSE /\ held' = held /\ GoOn("undoing_launch")
    /\ Quiet /\ UNCHANGED <<driver, contexts, tracked, lapses>>

\* A launch that fails stops the driver before it raises.
UndoLaunch ==
    /\ stage = "undoing_launch"
    /\ DriverGone /\ held' = held \ {"driver"}
    /\ Raise
    /\ Quiet /\ UNCHANGED <<tracked, lapses>>

Tracked(opened) == opened

\* The entries that could be created are kept track of if another one fails.
\* One whose page fails closes its context; if that raises, the context stays.
\* SessionManager.startup() only sets a flag; a stop requested by now makes
\* the run skip discovery and stream.
StartPool ==
    /\ stage = "starting_pool"
    /\ \E opened \in SUBSET Pages : \E stuck \in SUBSET (Pages \ opened) :
        /\ contexts' = opened \cup stuck
        /\ tracked' = Tracked(opened)
        /\ IF stuck = {} THEN lapses' = lapses ELSE FaultyClose /\ Lapse("context_close")
        /\ IF opened # Pages THEN Raise
              ELSE GoOn(IF cancelled THEN "stopping_pool" ELSE "discovering")
    /\ Quiet /\ UNCHANGED <<driver, browser, held>>

\* Failed or not, discovery is followed by the stream unless a stop came.
Discover ==
    /\ stage = "discovering"
    /\ GoOn(IF cancelled THEN "stopping_pool" ELSE "streaming")
    /\ spawned' = ~cancelled
    /\ UNCHANGED <<vars, resources, handles, stranded, cancels, lapses>>

-----------------------------------------------------------------------------
(* The stream, and what is left of it once run() no longer waits for it    *)

StreamStep ==
    /\ stage = "streaming"
    /\ Feed \/ (\E w \in EnrichWorkers : EnrichStep(w)) \/ MainStep
    /\ UNCHANGED runVars

\* A task that nobody cancelled runs on when run() is past the stream.  One
\* that waits for the pool's former queue waits for ever.
SocialTaskStep(w) ==
    /\ spawned /\ w \notin stranded
    /\ SocialStep(w)
    /\ UNCHANGED runVars

StreamDone == main = "finished"

StreamReturns ==
    /\ stage = "streaming" /\ StreamDone
    /\ GoOn("stopping_pool")
    /\ Quiet /\ UNCHANGED <<resources, handles, lapses>>

-----------------------------------------------------------------------------
(* The finally block                                                       *)

\* Every tracked context is closed, but for those whose close() raises, and an
\* empty queue takes the pool's place.
StopPool ==
    /\ stage = "stopping_pool"
    /\ GoOn("closing_browser")
    /\ \E stuck \in SUBSET (contexts \cap tracked) :
        /\ contexts' = (contexts \ tracked) \cup stuck
        /\ IF stuck = {} THEN lapses' = lapses ELSE FaultyClose /\ Lapse("context_close")
    /\ tracked' = {}
    /\ free' = {}
    /\ stranded' = {w \in SocialWorkers : pc[w] = "acquire"}
    /\ UNCHANGED <<driver, browser, held, spawned, cancels>>
    /\ UNCHANGED <<fixedVars, leadVars, queueVars, pc, lead, page, mainVars, cancelled>>

\* BrowserManager.stop(): what it has no handle on it does not close.
CloseBrowser ==
    /\ stage = "closing_browser"
    /\ GoOn("stopping_driver")
    /\ IF "browser" \in held THEN BrowserGone ELSE UNCHANGED <<browser, contexts>>
    /\ held' = held \ {"browser"}
    /\ Quiet /\ UNCHANGED <<driver, tracked, lapses>>

Conclude == stage' = (IF raising THEN "raised" ELSE "returned")

\* The error is logged by run(); BrowserManager.stop() got no further.
CloseFails ==
    /\ FaultyClose /\ stage = "closing_browser" /\ "browser" \in held
    /\ Conclude /\ raising' = raising /\ Lapse("browser_close")
    /\ Quiet /\ UNCHANGED <<resources, handles>>

StopDriver ==
    /\ stage = "stopping_driver"
    /\ IF "driver" \in held THEN DriverGone ELSE UNCHANGED resources
    /\ held' = held \ {"driver"}
    /\ Conclude /\ raising' = raising
    /\ Quiet /\ UNCHANGED <<tracked, lapses>>

-----------------------------------------------------------------------------
(* Cancelling the task: CancelledError at the await run() is suspended in. *)
(* What was being opened or closed may be open or closed by then, but no   *)
(* handle changes.                                                         *)

Cancel ==
    /\ cancels < MaxCancels
    /\ cancels' = cancels + 1

\* `except Exception` around the launch does not catch it.
CancelStart ==
    /\ Cancel /\ Raise
    /\ \/ stage = "starting_driver" /\ driver' \in BOOLEAN /\ Lapse("driver_start")
          /\ UNCHANGED <<browser, contexts>>
       \/ stage = "launching" /\ browser' \in BOOLEAN
          /\ UNCHANGED <<driver, contexts, lapses>>
       \/ stage = "undoing_launch" /\ driver' \in BOOLEAN
          /\ UNCHANGED <<browser, contexts, lapses>>
       \/ stage = "starting_pool" /\ contexts' \in SUBSET Pages /\ Lapse("pool_start")
          /\ UNCHANGED <<driver, browser>>
       \/ stage = "discovering" /\ UNCHANGED <<resources, lapses>>
    /\ UNCHANGED <<vars, handles, spawned, stranded>>

\* The tasks the stream's coroutine is waiting for.
Awaited == CASE main = "enriching" -> EnrichWorkers
             [] main = "closing"   -> {}
             [] main = "joining"   -> SocialWorkers

\* gather() cancels its children and waits for them: they give their pages
\* back on the way out.  Nobody cancels the other tasks.
CancelStream ==
    /\ stage = "streaming" /\ main # "finished"
    /\ Cancel /\ Raise
    /\ pc'   = [w \in Workers |-> IF w \in Awaited THEN "exited" ELSE pc[w]]
    /\ lead' = [w \in Workers |-> IF w \in Awaited THEN NoLead ELSE lead[w]]
    /\ page' = [w \in Workers |-> IF w \in Awaited THEN NoPage ELSE page[w]]
    /\ free' = free \cup ({page[w] : w \in Awaited} \ {NoPage})
    /\ UNCHANGED <<resources, handles, spawned, stranded, lapses>>
    /\ UNCHANGED <<fixedVars, leadVars, queueVars, mainVars, cancelled>>

\* CancelledError is no Exception: the rest of the finally block is skipped.
CancelCleanup ==
    /\ \/ stage = "stopping_pool" /\ tracked # {}
          /\ \E closed \in SUBSET tracked : contexts' = contexts \ closed
          /\ UNCHANGED <<driver, browser>>
       \/ stage = "closing_browser" /\ "browser" \in held
          /\ (BrowserGone \/ UNCHANGED <<browser, contexts>>)
          /\ UNCHANGED driver
       \/ stage = "stopping_driver" /\ "driver" \in held
          /\ (DriverGone \/ UNCHANGED resources)
    /\ Cancel /\ stage' = "raised" /\ raising' = TRUE /\ Lapse("cleanup")
    /\ UNCHANGED <<vars, handles, spawned, stranded>>

-----------------------------------------------------------------------------
RunOver == Ended /\ UNCHANGED allVars

RunStep ==
    \/ StartDriver \/ Launch \/ UndoLaunch \/ StartPool \/ Discover
    \/ StreamReturns
    \/ StopPool \/ CloseBrowser \/ CloseFails \/ StopDriver

RequestStop == ~Ended /\ RequestCancellation /\ UNCHANGED runVars

RunNext ==
    \/ RunStep
    \/ StreamStep
    \/ \E w \in SocialWorkers : SocialTaskStep(w)
    \/ RequestStop
    \/ CancelStart \/ CancelStream \/ CancelCleanup
    \/ RunOver

RunSpec == RunInit /\ [][RunNext]_allVars

\* Every await of run() and of its tasks ends (they have timeouts), and the
\* event loop resumes each of them.
RunFairSpec ==
    /\ RunSpec
    /\ WF_allVars(RunStep)
    /\ WF_allVars(stage = "streaming" /\ Feed /\ UNCHANGED runVars)
    /\ WF_allVars(stage = "streaming" /\ MainStep /\ UNCHANGED runVars)
    /\ \A w \in EnrichWorkers :
        WF_allVars(stage = "streaming" /\ EnrichStep(w) /\ UNCHANGED runVars)
    /\ \A w \in SocialWorkers : WF_allVars(SocialTaskStep(w))
-----------------------------------------------------------------------------
Alive == IF spawned THEN {w \in Workers : pc[w] # "exited"} ELSE {}

PoolStopped ==
    \/ stage \in {"closing_browser", "stopping_driver", "returned"}
    \/ stage = "raised" /\ "cleanup" \notin lapses

(* What a run may leave open, and by which lapse alone.  The pool closes   *)
(* every context, those of a start() that failed included, unless close()  *)
(* raises or start() is cancelled before it has hold of them; but those go *)
(* with the browser.  A run whose clean-up is not cancelled leaves browser *)
(* and contexts open only if browser.close() raised, and a driver only     *)
(* then or if its own start() was cancelled, which leaves no handle to     *)
(* stop it by.  If browser.close() raises, the driver does stay up: stop() *)
(* gets no further.                                                        *)
CleanedUp ==
    /\ (PoolStopped /\ contexts # {}) => lapses \cap {"pool_start", "context_close"} # {}
    /\ (Ended /\ "cleanup" \notin lapses) =>
        /\ (browser \/ contexts # {}) => "browser_close" \in lapses
        /\ driver => lapses \cap {"driver_start", "browser_close"} # {}
    /\ "browser_close" \in lapses => driver

(* The tasks of a run live within it: as long as nobody cancels the run,   *)
(* no worker is ever on a page whose context or browser is closed; and a   *)
(* run that returns a result, whatever happened on the way, has left no    *)
(* task behind and has seen all of its leads through.                      *)
TasksWithinRun ==
    /\ cancels = 0 =>
        \A w \in Workers : page[w] # NoPage => page[w] \in contexts /\ browser
    /\ stage = "returned" =>
        /\ Alive = {}
        /\ spawned => processed = 1..batch

(* Every run ends, however it is stopped.                                  *)
RunEnds == <>Ended

(* "cleanup happens either way via the try/finally in `run()`" (lines 275- *)
(* 276): when a run has ended, however it was stopped, nothing that it     *)
(* has a handle on is still open.                                          *)
CleanupEitherWay ==
    Ended =>
        /\ ~(driver /\ "driver" \in held)
        /\ ~(browser /\ "browser" \in held)
        /\ contexts \cap tracked = {}

(* The same sentence, about the tasks a run creates: none outlives it.     *)
NoTaskLeftBehind == Ended => Alive = {}
=============================================================================
