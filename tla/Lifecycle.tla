----------------------------- MODULE Lifecycle -----------------------------
(***************************************************************************)
(* The process from Start to Stop and, on SIGHUP, to the next Start (main, *)
(* Start, Stop in src/redins.go), with what these start and stop: one      *)
(* listener goroutine per server, the requests, the request log and its    *)
(* goroutine, and the zone updater with its subscription (NewHandler,      *)
(* ShutDown, LogRequest in handler/handler.go).                            *)
(*                                                                         *)
(* The n-th Start makes generation n: the servers s, the handler h.  Both  *)
(* are global variables that goroutines read when they get there.  The     *)
(* health checker has a module of its own; here it is switched off.        *)
(***************************************************************************)
EXTENDS Naturals, FiniteSets

CONSTANTS
    MaxStarts,     \* bound on Start
    Sizes,         \* how many servers a configuration may have
    Reqs,          \* request goroutines
    Capacity,      \* of logQueue, 1000 in the code
    Capnp          \* the generations that log requests in the capnp_request format

Gens == 1 .. MaxStarts
Sockets == UNION {1 .. k : k \in Sizes}

ASSUME StartsAssumption == MaxStarts \in Nat \ {0} /\ Sizes \subseteq Nat
ASSUME CapacityAssumption == Capacity \in Nat
ASSUME CapnpAssumption == Capnp \subseteq Gens

VARIABLES
    main, i,           \* the main goroutine and its loop index
    restart,           \* is it a SIGHUP that is being handled?
    s, h,              \* the generations these globals belong to, 0 before the first
    size,              \* len(s)
    server,            \* server[g][n]: a dns.Server
    listener,          \* listener[g][n]: the goroutine Start spawned for it
    logQueue, queued,  \* per generation: the channel and how much it holds
    quit, quitWG,
    logger,            \* the request log goroutine
    updater, subscriber,
    req, at, by,       \* requests: state, the server they came in at, their handler
    late,              \* history: a server was stopped before its listener ran
    missed             \* history: this Wait began before a goroutine had come to its Add

globals   == <<main, i, restart, s, h, size>>
listening == <<server, listener>>
log       == <<logQueue, queued, logger>>
closing   == <<quit, quitWG>>
updating  == <<updater, subscriber>>
requests  == <<req, at, by>>
history   == <<late, missed>>
vars == <<globals, listening, log, closing, updating, requests, history>>

\* How the process may end other than by the return of main: s is too short for
\* a listener, a send on the closed logQueue, a map without the fields that the
\* capnp format takes for granted, an Add before Wait has returned.
Panics == {"noServer", "closedQueue", "nilMap", "reused"}

\* Types; the log queue never holds more than its capacity (LogRequest).
TypeOK ==
    /\ main \in {"config", "quit", "updater", "listen", "idle",
                 "shutdown", "closeLog", "closeQuit", "wait", "blocked", "woken", "exit"}
                \cup Panics
    /\ i \in Nat /\ restart \in BOOLEAN
    /\ s \in 0 .. MaxStarts /\ h \in 0 .. MaxStarts
    /\ size \in Sizes \cup {0}
    /\ server \in [Gens -> [Sockets -> {"new", "serving", "closing", "down"}]]
    /\ listener \in [Gens -> [Sockets -> {"none", "ready", "ran"}]]
    /\ logQueue \in [Gens -> {"open", "closed"}] /\ queued \in [Gens -> 0 .. Capacity]
    /\ quit \in [Gens -> {"nil", "open", "closed"}] /\ quitWG \in [Gens -> 0 .. 2]
    /\ logger \in [Gens -> {"none", "ready", "deaf", "select", "ended"}]
    /\ updater \in [Gens -> {"none", "ready", "select", "ended"}]
    /\ subscriber \in [Gens -> {"none", "run", "told", "ended"}]
    /\ req \in [Reqs -> {"idle", "log"}]
    /\ at \in [Reqs -> (Gens \X Sockets) \cup {<<>>}] /\ by \in [Reqs -> 0 .. MaxStarts]
    /\ late \in BOOLEAN /\ missed \in BOOLEAN

\* A panic in any goroutine ends the process, as the return of main does.
Alive == main \notin {"exit"} \cup Panics
Ports == 1 .. size
-----------------------------------------------------------------------------
(* Start, and NewHandler in it *)

Go(from, to) == main = from /\ main' = to

\* LoadConfig, NewServer, and NewHandler up to the log goroutine, which is
\* started before h.quit is made.
NewServer ==
    /\ Go("config", "quit") /\ s' = s + 1 /\ size' \in Sizes
    /\ logger' = [logger EXCEPT ![s'] = "ready"]
    /\ UNCHANGED <<i, restart, h, listening, logQueue, queued, closing, updating, requests, history>>

MakeQuit ==
    /\ Go("quit", "updater")
    /\ quit' = [quit EXCEPT ![s] = "open"]
    /\ UNCHANGED <<i, restart, s, h, size, listening, log, quitWG, updating, requests, history>>

\* The updater is started, and NewHandler returns; NewRateLimiter.
NewHandler ==
    /\ Go("updater", "listen") /\ h' = s /\ i' = 1
    /\ updater' = [updater EXCEPT ![s] = "ready"]
    /\ UNCHANGED <<restart, s, size, listening, log, closing, subscriber, requests, history>>

GoListeners ==
    /\ main = "listen"
    /\ IF i \in Ports
       THEN /\ listener' = [listener EXCEPT ![s][i] = "ready"]
            /\ i' = i + 1 /\ UNCHANGED main
       ELSE main' = "idle" /\ i' = 1 /\ UNCHANGED listener
    /\ UNCHANGED <<restart, s, h, size, server, log, closing, updating, requests, history>>

Start == NewServer \/ MakeQuit \/ NewHandler \/ GoListeners
-----------------------------------------------------------------------------
(* Signals, Stop, and ShutDown in it *)

Signal ==
    /\ Go("idle", "shutdown")
    /\ restart' \in {r \in BOOLEAN : r => s < MaxStarts}
    /\ UNCHANGED <<i, s, h, size, listening, log, closing, updating, requests, history>>

\* Shutdown of a server that is not serving is an error; else it lets no more
\* requests in and waits for those there are (external).
StopServers(ports, busy) ==
    /\ main = "shutdown"
    /\ \/ /\ i \in ports /\ server[s][i] = "new"
          /\ late' = (late \/ listener[s][i] = "ready") /\ i' = i + 1
          /\ UNCHANGED <<main, server>>
       \/ /\ i \in ports /\ server[s][i] = "serving"
          /\ server' = [server EXCEPT ![s][i] = "closing"]
          /\ UNCHANGED <<main, i, late>>
       \/ /\ i \in ports /\ server[s][i] = "closing" /\ ~busy
          /\ server' = [server EXCEPT ![s][i] = "down"] /\ i' = i + 1
          /\ UNCHANGED <<main, late>>
       \/ /\ i \notin ports
          /\ main' = "closeLog" /\ i' = 1
          /\ UNCHANGED <<server, late>>
    /\ UNCHANGED <<restart, s, h, size, listener, log, closing, updating, requests, missed>>

Busy == \E r \in Reqs : req[r] # "idle" /\ at[r] = <<s, i>>

\* Faulty variants of Shutdown: it does not wait for the requests; the last
\* server is left out.
ShutdownAtOnce == StopServers(Ports, FALSE)
ShutdownButLast == StopServers(1 .. size - 1, Busy)

Shutdown == StopServers(Ports, Busy)

\* Faulty variant of CloseLog: the queue stays open.
CloseLogNot ==
    /\ Go("closeLog", "closeQuit")
    /\ UNCHANGED <<i, restart, s, h, size, listening, log, closing, updating, requests, history>>

CloseLog ==
    /\ Go("closeLog", "closeQuit")
    /\ logQueue' = [logQueue EXCEPT ![h] = "closed"]
    /\ UNCHANGED <<i, restart, s, h, size, listening, queued, logger, closing, updating, requests, history>>

CloseQuit ==
    /\ Go("closeQuit", "wait")
    /\ quit' = [quit EXCEPT ![h] = "closed"]
    /\ UNCHANGED <<i, restart, s, h, size, listening, log, quitWG, updating, requests, history>>

\* Where Stop returns to.
Returned == IF restart THEN "config" ELSE "exit"

\* quitWG.Wait() returns at once or blocks; the last Done wakes it up, and it
\* panics if somebody has called Add until it runs again (external).
Wait ==
    /\ Go("wait", IF quitWG[h] = 0 THEN Returned ELSE "blocked")
    /\ missed' = (quitWG[h] # 0 /\ "ready" \in {logger[h], updater[h]})
    /\ UNCHANGED <<i, restart, s, h, size, listening, log, closing, updating, requests, late>>

WaitReturns ==
    /\ Go("woken", IF quitWG[h] = 0 THEN Returned ELSE "reused")
    /\ missed' = (missed /\ quitWG[h] # 0)
    /\ UNCHANGED <<i, restart, s, h, size, listening, log, closing, updating, requests, late>>

\* quitWG.Done()
Done(g) ==
    /\ quitWG' = [quitWG EXCEPT ![g] = @ - 1]
    /\ main' = IF main = "blocked" /\ g = h /\ quitWG[g] = 1 THEN "woken" ELSE main

Stop == Shutdown \/ CloseLog \/ CloseQuit \/ Wait \/ WaitReturns
-----------------------------------------------------------------------------
(* Listeners and requests *)

\* s[n].ListenAndServe(): s is whatever it is by now, and may be shorter.  It
\* returns with an error if the server has been started or cannot bind.
ListenAndServe(g, n) ==
    /\ Alive /\ listener[g][n] = "ready"
    /\ IF n \notin Ports
       THEN main' = "noServer" /\ UNCHANGED listening
       ELSE /\ UNCHANGED main
            /\ listener' = [listener EXCEPT ![g][n] = "ran"]
            /\ \/ server[s][n] = "new" /\ server' = [server EXCEPT ![s][n] = "serving"]
               \/ UNCHANGED server
    /\ UNCHANGED <<i, restart, s, h, size, log, closing, updating, requests, history>>

\* A server calls handleRequest, and the handler of now gets the request (or the
\* rate limiter refuses it, which changes nothing here).
handleRequest(r, g, n) ==
    /\ Alive /\ req[r] = "idle" /\ server[g][n] = "serving"
    /\ req' = [req EXCEPT ![r] = "log"]
    /\ at' = [at EXCEPT ![r] = <<g, n>>] /\ by' = [by EXCEPT ![r] = h]
    /\ UNCHANGED <<globals, listening, log, closing, updating, history>>

\* LogRequest and the response.  Sending on a closed channel panics.
LogRequest(r) ==
    /\ Alive /\ req[r] = "log"
    /\ IF logQueue[by[r]] = "closed"
       THEN main' = "closedQueue" /\ UNCHANGED <<queued, requests>>
       ELSE /\ queued' = IF queued[by[r]] < Capacity THEN [queued EXCEPT ![by[r]] = @ + 1] ELSE queued
            /\ req' = [req EXCEPT ![r] = "idle"]
            /\ at' = [at EXCEPT ![r] = <<>>] /\ by' = [by EXCEPT ![r] = 0]
            /\ UNCHANGED main
    /\ UNCHANGED <<i, restart, s, h, size, listening, logQueue, logger, closing, updating, history>>
-----------------------------------------------------------------------------
(* The log goroutine *)

\* select evaluates h.quit; a nil channel is never ready.
Select(g) == IF quit[g] = "nil" THEN "deaf" ELSE "select"

\* It registers itself, and comes to its select.
LogAdd(g) ==
    /\ Alive /\ logger[g] = "ready"
    /\ quitWG' = [quitWG EXCEPT ![g] = @ + 1]
    /\ logger' = [logger EXCEPT ![g] = Select(g)]
    /\ UNCHANGED <<globals, listening, logQueue, queued, quit, updating, requests, history>>

\* case data := <-h.logQueue, which a closed channel makes ready for ever: data is
\* then a nil map, in which the capnp format looks for its fields.  And back to the
\* select.
LogData(g) ==
    /\ Alive /\ logger[g] \in {"deaf", "select"}
    /\ \/ /\ queued[g] > 0
          /\ queued' = [queued EXCEPT ![g] = @ - 1]
          /\ UNCHANGED main
       \/ /\ queued[g] = 0 /\ logQueue[g] = "closed"
          /\ main' = IF g \in Capnp THEN "nilMap" ELSE main
          /\ UNCHANGED queued
    /\ logger' = [logger EXCEPT ![g] = Select(g)]
    /\ UNCHANGED <<i, restart, s, h, size, listening, logQueue, closing, updating, requests, history>>

\* case <-h.quit
LogQuit(g) ==
    /\ Alive /\ logger[g] = "select" /\ quit[g] = "closed"
    /\ Done(g)
    /\ logger' = [logger EXCEPT ![g] = "ended"]
    /\ UNCHANGED <<i, restart, s, h, size, listening, logQueue, queued, quit, updating, requests, history>>
-----------------------------------------------------------------------------
(* The zone updater; ZoneRegistry has what it does between these steps *)

UpdaterAdd(g) ==
    /\ Alive /\ updater[g] = "ready"
    /\ quitWG' = [quitWG EXCEPT ![g] = @ + 1]
    /\ updater' = [updater EXCEPT ![g] = "select"]
    /\ subscriber' = [subscriber EXCEPT ![g] = "run"]
    /\ UNCHANGED <<globals, listening, log, quit, requests, history>>

\* Faulty variants of UpdaterQuit: it calls Done itself; it tells nobody.
UpdaterQuitDone(g) ==
    /\ Alive /\ updater[g] = "select" /\ quit[g] = "closed"
    /\ updater' = [updater EXCEPT ![g] = "ended"]
    /\ Done(g)
    /\ UNCHANGED <<i, restart, s, h, size, listening, log, quit, subscriber, requests, history>>
UpdaterQuitSilent(g) ==
    /\ Alive /\ updater[g] = "select" /\ quit[g] = "closed"
    /\ updater' = [updater EXCEPT ![g] = "ended"]
    /\ UNCHANGED <<globals, listening, log, closing, subscriber, requests, history>>

\* It hands the wait group on to the subscription ...
UpdaterQuit(g) ==
    /\ Alive /\ updater[g] = "select" /\ quit[g] = "closed"
    /\ updater' = [updater EXCEPT ![g] = "ended"]
    /\ subscriber' = [subscriber EXCEPT ![g] = "told"]
    /\ UNCHANGED <<globals, listening, log, closing, requests, history>>

\* ... which ends and calls Done (external).
SubscribeEventQuit(g) ==
    /\ Alive /\ subscriber[g] = "told"
    /\ Done(g)
    /\ subscriber' = [subscriber EXCEPT ![g] = "ended"]
    /\ UNCHANGED <<i, restart, s, h, size, listening, log, quit, updater, requests, history>>
-----------------------------------------------------------------------------
Init ==
    /\ main = "config" /\ i = 1 /\ restart = FALSE /\ s = 0 /\ h = 0 /\ size = 0
    /\ server = [g \in Gens |-> [n \in Sockets |-> "new"]]
    /\ listener = [g \in Gens |-> [n \in Sockets |-> "none"]]
    /\ logQueue = [g \in Gens |-> "open"] /\ queued = [g \in Gens |-> 0]
    /\ quit = [g \in Gens |-> "nil"] /\ quitWG = [g \in Gens |-> 0]
    /\ logger = [g \in Gens |-> "none"]
    /\ updater = [g \in Gens |-> "none"] /\ subscriber = [g \in Gens |-> "none"]
    /\ req = [r \in Reqs |-> "idle"] /\ at = [r \in Reqs |-> <<>>]
    /\ by = [r \in Reqs |-> 0]
    /\ late = FALSE /\ missed = FALSE

Log(g) == LogAdd(g) \/ LogData(g) \/ LogQuit(g)
Update(g) == UpdaterAdd(g) \/ UpdaterQuit(g) \/ SubscribeEventQuit(g)

Next ==
    \/ Start \/ Signal \/ Stop
    \/ \E g \in Gens : Log(g) \/ Update(g)
    \/ \E g \in Gens, n \in Sockets : ListenAndServe(g, n) \/ \E r \in Reqs : handleRequest(r, g, n)
    \/ \E r \in Reqs : LogRequest(r)

Spec == Init /\ [][Next]_vars

\* Goroutines run, and select picks among the ready cases at random.
FairSpec ==
    /\ Spec
    /\ WF_vars(Stop)
    /\ WF_vars(\E g \in Gens : Update(g))
    /\ \A g \in Gens : WF_vars(Log(g)) /\ WF_vars(LogQuit(g))
    /\ \A r \in Reqs : WF_vars(LogRequest(r))
-----------------------------------------------------------------------------
\* Stop stops the servers, which wait for their requests, before the handler, and
\* the handler's goroutines before it is given up.  So no request logs into a
\* closed queue and no listener misses its server, unless a signal has overtaken
\* the listener goroutine of a server: Shutdown then has nothing to stop yet.
\* Nobody calls Add under Wait, unless Wait began before a goroutine had come to
\* its Add.  And a nil map is logged in the capnp format only by a handler whose
\* queue ShutDown has closed.
PanicHasACause ==
    /\ main \in {"noServer", "closedQueue"} => late
    /\ main = "reused" => missed
    /\ main = "nilMap" => \E g \in Capnp : logQueue[g] = "closed"

\* None of these panics should happen, and all of them can: a signal right after
\* the start is enough for the first two, and a restart with the capnp_request
\* format of the README for the last.
NoServerIsMissed == main \notin {"noServer", "closedQueue"}
NoWaitGroupIsReused == main # "reused"
NoNilMapIsLogged == main # "nilMap"

\* After Stop none of the old servers takes requests, although ReusePort would
\* let it share the port with the new ones; with the same exception.
OldServersAreDown ==
    main \in {"closeLog", "closeQuit", "wait", "blocked", "woken", "config", "idle"} /\ ~late =>
        \A g \in Gens, n \in Sockets : server[g][n] = "serving" => g = s /\ main = "idle"

\* ShutDown does not return before the goroutines that were registered with the
\* wait group have ended.  (One that has not come to its Add is not waited for.)
ShutDownWaits ==
    [][main' \in {"config", "exit"} /\ main' # main =>
         /\ logger[h] \in {"ready", "ended"}
         /\ updater[h] = "ready" \/ subscriber[h] = "ended"]_vars

\* Stop returns: the log goroutine, which may wait on the nil channel h.quit was
\* when it came to its select, is woken by the closing of the queue.
StopReturns == main = "shutdown" ~> main \in {"config", "exit"} \cup Panics

\* No goroutine of a handler outlives it for ever, not even one that registers
\* after ShutDown has returned.
HandlerGoesAway ==
    \A g \in Gens : quit[g] = "closed" ~>
        \/ ~Alive
        \/ logger[g] = "ended" /\ updater[g] = "ended" /\ subscriber[g] = "ended"
=============================================================================
