--------------------------- MODULE SessionManager ---------------------------
(***************************************************************************)
(* The life of the process-wide session: the application's lifespan starts *)
(* it and shuts it down, while requests (SessionRequest) come and go and   *)
(* runs start it again.  shutdown() awaits the closing of the HTTP client  *)
(* before it gives up the singleton, so that for a while get_instance()    *)
(* hands out a session whose client takes no requests any more; whoever    *)
(* asks for a session after that gets a successor.                         *)
(***************************************************************************)
EXTENDS SessionRequest

VARIABLES
    server,             \* how far lifespan() has come
    client,             \* the httpx.AsyncClient of this session
    started,            \* _started
    current,            \* SessionManager._instance is this session
    successor,          \* another session was made after this one
    refused,            \* the calls that were made to a closed client
    late                \* history: the requests made after shutdown began

lifeVars == <<server, client, started, current, successor>>
lateVars == <<refused, late>>
managerVars == <<sessionVars, lifeVars, lateVars>>

ManagerTypeOK ==
    /\ SessionTypeOK
    /\ server \in {"up", "closing", "down"}
    /\ client \in {"open", "closing", "closed"}
    /\ started \in BOOLEAN /\ current \in BOOLEAN /\ successor \in BOOLEAN
    /\ refused \subseteq Callers /\ late \subseteq Callers

\* lifespan() has got the instance and started it.
ManagerInit ==
    /\ SessionInit
    /\ server = "up"
    /\ client = "open"
    /\ started = TRUE
    /\ current = TRUE
    /\ successor = FALSE
    /\ refused = {} /\ late = {}

-----------------------------------------------------------------------------
(* What the code would be with one plausible mistake in it: no action uses *)
(* these; each stands in for a definition below to show that a property    *)
(* notices.                                                                *)

\* The singleton is given up before the client is closed.
ShutdownForgetsFirst ==
    /\ server = "up"
    /\ server' = "closing" /\ client' = "closing"
    /\ current' = FALSE
    /\ UNCHANGED <<sessionVars, lateVars, started, successor>>

\* Starting a session opens its client again.
StartReopens ==
    /\ started' = TRUE
    /\ client' = "open"
    /\ UNCHANGED successor

-----------------------------------------------------------------------------
(* get_instance(), startup() and shutdown()                                *)

\* is_closed holds from the moment aclose() is called.
IsClosed == client # "open"

\* Without a current session, get_instance() makes one.
MakeSuccessor ==
    /\ ~current
    /\ successor' = TRUE
    /\ UNCHANGED <<sessionVars, lateVars, server, client, started, current>>

Start ==
    /\ started' = TRUE
    /\ UNCHANGED <<client, successor>>

\* PipelineOrchestrator.run() starts the session it gets.
RunStarts ==
    /\ current
    /\ Start
    /\ UNCHANGED <<sessionVars, lateVars, server, current>>

ShutdownBegins ==
    /\ server = "up"
    /\ server' = "closing"
    /\ client' = IF started \/ ~IsClosed THEN "closing" ELSE client
    /\ UNCHANGED <<sessionVars, lateVars, started, current, successor>>

\* aclose() returns once the connections are closed.
ShutdownEnds ==
    /\ server = "closing"
    /\ server' = "down" /\ client' = "closed"
    /\ started' = FALSE
    /\ current' = FALSE
    /\ UNCHANGED <<sessionVars, lateVars, successor>>

-----------------------------------------------------------------------------
(* request(), of a session that may be closing or closed.  A request keeps *)
(* the session it was made with.                                           *)

Request(c) ==
    /\ current
    /\ Begin(c)
    /\ late' = IF IsClosed THEN late \cup {c} ELSE late
    /\ UNCHANGED <<lifeVars, refused>>

\* A closed client raises RuntimeError from within the breaker's call.
Attempt(c) ==
    /\ Try(c)
    /\ refused' = IF IsClosed /\ phase'[c] = "sent" THEN refused \cup {c} ELSE refused
    /\ late' = IF phase'[c] = "idle" THEN late \ {c} ELSE late
    /\ UNCHANGED lifeVars

\* That is no httpx.HTTPError: the breaker counts it, nobody tries again.
ClientRefuses(c) ==
    /\ c \in refused
    /\ Fail(c) /\ EndRequest(c, "failed")
    /\ UNCHANGED history

Respond(c) ==
    /\ ClientRefuses(c) \/ (c \notin refused /\ Answered(c))
    /\ refused' = refused \ {c}
    /\ late' = IF phase'[c] = "idle" THEN late \ {c} ELSE late
    /\ UNCHANGED lifeVars

Leave(c) ==
    /\ Abandon(c)
    /\ refused' = refused \ {c} /\ late' = late \ {c}
    /\ UNCHANGED lifeVars

Passes == TimePasses /\ UNCHANGED <<lifeVars, lateVars>>

\* The process may end once the lifespan has and no request is left.
Ended ==
    /\ server = "down" /\ \A c \in Callers : phase[c] = "idle"
    /\ UNCHANGED managerVars

ManagerNext ==
    \/ \E c \in Callers : Request(c) \/ Attempt(c) \/ Respond(c) \/ Leave(c)
    \/ Passes
    \/ MakeSuccessor \/ RunStarts
    \/ ShutdownBegins \/ ShutdownEnds
    \/ Ended

ManagerSpec == ManagerInit /\ [][ManagerNext]_managerVars

\* The limiter serves every request in the end, since their number is bounded;
\* requests run under a timeout, sleeps end, and connections close.
ManagerFairSpec ==
    /\ ManagerSpec
    /\ WF_managerVars(Passes)
    /\ WF_managerVars(ShutdownEnds)
    /\ \A c \in Callers : WF_managerVars(Attempt(c)) /\ WF_managerVars(Respond(c))
-----------------------------------------------------------------------------
(* The "process-wide singleton" (session_manager.py line 43) holds through *)
(* a shutdown: a successor opens connections only after this session has   *)
(* closed all of its own, whoever asks for a session meanwhile; and once   *)
(* shutdown is over, nobody gets this session any more, although runs may  *)
(* have started it again while its client was closing.                     *)
OneOpenSession ==
    /\ successor => client = "closed" /\ ~current
    /\ server = "down" => client = "closed" /\ ~current /\ ~started

(* A request that gets hold of the session while it is closing is refused  *)
(* or fails at its first attempt; it never reaches the network, is never   *)
(* retried, and never counts as a success.                                 *)
LateRequestsFail ==
    /\ \A c \in late : attempt[c] <= 1 /\ (phase[c] = "sent" => c \in refused)
    /\ \A c \in late : phase[c] # "backoff"
=============================================================================
