-------------------------- MODULE LifecycleProofs --------------------------
(***************************************************************************)
(* Proofs about Lifecycle, for any number of restarts, servers, requests   *)
(* and any capacity of the log queue.                                      *)
(***************************************************************************)
EXTENDS Lifecycle, TLAPS

\* A leaf goes to Zenon unless it names SMT, for arithmetic and for records and
\* functions given by their values, or PTL, for the temporal steps.
USE ZenonT(60)

\* main with servers that may serve, and main with a handler of its own servers.
Serving == {"listen", "idle", "shutdown"}
Current == {"listen", "idle", "shutdown", "closeLog", "closeQuit", "wait", "blocked", "woken"}

\* The panics of a listener or a request that Stop did not know of.
LateEnds == {"noServer", "closedQueue"}

\* What the other goroutines do to main: nothing, or they end the process, or they
\* wake it from its Wait.
Nudged == main' = main \/ main' \in Panics \/ (main = "blocked" /\ main' = "woken")

\* The globals s and h, and the loop index.
Globals ==
    /\ s \in Nat /\ h \in Nat /\ h <= s /\ i \in Nat \ {0} /\ size \in Sizes \cup {0}
    /\ s # 0 => s \in Gens
    /\ s = 0 => size = 0
    /\ main \in Current => h = s /\ s # 0
    /\ main \in {"quit", "updater"} => s = h + 1
    /\ main = "config" => h = s /\ s + 1 \in Gens
    /\ main \in Current \ {"listen", "idle"} /\ restart => s + 1 \in Gens
    /\ main = "idle" => i = 1

ServerStates == {"new", "serving", "closing", "down"}
ListenerStates == {"none", "ready", "ran"}
Shapes ==
    /\ server \in [Gens -> [Sockets -> ServerStates]]
    /\ listener \in [Gens -> [Sockets -> ListenerStates]]
    /\ logQueue \in [Gens -> {"open", "closed"}]
    /\ quitWG \in [Gens -> Nat]
    /\ logger \in [Gens -> {"none", "ready", "deaf", "select", "ended"}]
    /\ updater \in [Gens -> {"none", "ready", "select", "ended"}]
    /\ subscriber \in [Gens -> {"none", "run", "told", "ended"}]
    /\ req \in [Reqs -> {"idle", "log"}]
    /\ at \in [Reqs -> (Gens \X Sockets) \cup {<<>>}] /\ by \in [Reqs -> Nat]
    /\ late \in BOOLEAN /\ missed \in BOOLEAN

\* A generation that is still to come is untouched.
Fresh ==
    \A g \in Gens : g > s =>
        /\ logQueue[g] = "open" /\ logger[g] = "none" /\ updater[g] = "none"
        /\ \A n \in Sockets : server[g][n] = "new" /\ listener[g][n] = "none"

\* The queue is closed by the ShutDown of its own handler only.
Queues == main \in Serving \cup {"quit", "updater", "closeLog"} => logQueue[s] = "open"

\* Unless a signal overtook a listener goroutine: a goroutine that is still to
\* serve finds its own server, unused; a server that serves, or still waits for
\* requests, is one of the present ones, and Shutdown has not passed it; and a
\* request that is being handled came in at such a server and holds its handler.
Within(n) ==
    /\ main \in Serving /\ n \in Ports
    /\ main = "listen" => n < i
    /\ main = "shutdown" => i <= n
Ready ==
    \A g \in Gens, n \in Sockets :
        listener[g][n] = "ready" => g = s /\ Within(n) /\ server[g][n] = "new"
Served ==
    \A g \in Gens, n \in Sockets :
        server[g][n] \in {"serving", "closing"} => g = s /\ Within(n)
Unopened ==
    \A n \in Sockets :
        main \in {"quit", "updater"} \/ (main = "listen" /\ i <= n) => server[s][n] = "new"
Handled ==
    \A r \in Reqs : req[r] = "log" =>
        /\ by[r] = s /\ s \in Gens
        /\ \E n \in Sockets : at[r] = <<s, n>> /\ server[s][n] \in {"serving", "closing"}
Orderly == Ready /\ Served /\ Unopened /\ Handled
InOrder == ~late => main \notin LateEnds /\ (Alive => Orderly)

\* The wait group counts the log goroutine and the updater's subscription.
One(b) == IF b THEN 1 ELSE 0
Counted ==
    \A g \in Gens :
        /\ quitWG[g] = One(logger[g] \in {"deaf", "select"})
                       + One(subscriber[g] \in {"run", "told"})
        /\ updater[g] \in {"none", "ready"} <=> subscriber[g] = "none"
        /\ updater[g] = "select" <=> subscriber[g] = "run"
        /\ g <= s => logger[g] # "none"
        /\ g <= h <=> updater[g] # "none"

\* Wait sleeps only while somebody is counted.  If everybody had come to its Add
\* when it began, nobody adds to the count any more.
Registered ==
    /\ main = "blocked" => quitWG[h] # 0
    /\ main \in {"blocked", "woken"} /\ ~missed => logger[h] # "ready" /\ updater[h] # "ready"
    /\ main = "woken" /\ ~missed => quitWG[h] = 0
    /\ main = "reused" => missed

\* Only a closed queue yields a nil map.
Emptied == main = "nilMap" => \E g \in Capnp : logQueue[g] = "closed"

IInv == Globals /\ Shapes /\ Fresh /\ Queues /\ InOrder /\ Counted /\ Registered /\ Emptied
-----------------------------------------------------------------------------
\* Writing one cell of the tables of servers and of listeners.
LEMMA ServerCell ==
    ASSUME Shapes, NEW a \in Gens, NEW b \in Sockets, NEW v \in ServerStates
    PROVE  /\ [server EXCEPT ![a][b] = v] \in [Gens -> [Sockets -> ServerStates]]
           /\ [server EXCEPT ![a][b] = v][a][b] = v
           /\ \A g \in Gens, n \in Sockets : g # a \/ n # b =>
                 [server EXCEPT ![a][b] = v][g][n] = server[g][n]
  BY DEF Shapes
LEMMA ListenerCell ==
    ASSUME Shapes, NEW a \in Gens, NEW b \in Sockets, NEW v \in ListenerStates
    PROVE  /\ [listener EXCEPT ![a][b] = v] \in [Gens -> [Sockets -> ListenerStates]]
           /\ [listener EXCEPT ![a][b] = v][a][b] = v
           /\ \A g \in Gens, n \in Sockets : g # a \/ n # b =>
                 [listener EXCEPT ![a][b] = v][g][n] = listener[g][n]
  BY DEF Shapes

\* The ports of a configuration are sockets of the model.
LEMMA PortsAreSockets ==
    Globals => Ports \subseteq Sockets /\ size \in Nat /\ (Ports # {} => s \in Gens)
  <1> SUFFICES ASSUME Globals
               PROVE  Ports \subseteq Sockets /\ size \in Nat /\ (Ports # {} => s \in Gens)
    OBVIOUS
  <1>1. size \in Sizes \cup {0} /\ Sizes \subseteq Nat
    BY StartsAssumption DEF Globals
  <1>2. Ports \subseteq Sockets
    <2>1. CASE size \in Sizes
      BY <2>1 DEF Ports, Sockets
    <2>2. CASE size = 0
      BY SMT, <2>2 DEF Ports
    <2> QED
      BY <1>1, <2>1, <2>2
  <1>3. size = 0 => Ports = {}
    BY SMT DEF Ports
  <1>4. s \in Gens \/ size = 0
    BY DEF Globals
  <1> QED
    BY SMT, <1>1, <1>2, <1>3, <1>4

\* The goroutines of a handler leave all else alone.
LEMMA InTheBackground ==
    ASSUME NEW g \in Gens, Log(g) \/ Update(g)
    PROVE  /\ UNCHANGED <<i, restart, s, h, size, listening, logQueue, requests, history>>
           /\ Alive
           /\ main' = main \/ main' = "nilMap" \/ (main = "blocked" /\ main' = "woken")
  BY DEF Log, LogAdd, LogData, LogQuit, Done, Update, UpdaterAdd, UpdaterQuit,
         SubscribeEventQuit, log, globals

\* s and h follow Start and Stop.
LEMMA StepGlobals ==
    ASSUME Globals, [Next]_vars
    PROVE  Globals'
  <1>0. Gens = 1 .. MaxStarts /\ MaxStarts \in Nat \ {0}
    BY StartsAssumption DEF Gens
  <1>1. CASE NewServer
    BY SMT, <1>0, <1>1 DEF NewServer, Go, Globals, Current
  <1>2. CASE MakeQuit
    BY <1>2 DEF MakeQuit, Go, Globals, Current
  <1>3. CASE NewHandler
    BY SMT, <1>0, <1>3 DEF NewHandler, Go, Globals, Current
  <1>4. CASE GoListeners
    BY SMT, <1>4 DEF GoListeners, Globals, Current
  <1>5. CASE Signal
    BY SMT, <1>0, <1>5 DEF Signal, Go, Globals, Current
  <1>6. CASE Shutdown
    BY SMT, <1>6 DEF Shutdown, StopServers, Globals, Current
  <1>7. CASE CloseLog
    BY <1>7 DEF CloseLog, Go, Globals, Current
  <1>8. CASE CloseQuit
    BY <1>8 DEF CloseQuit, Go, Globals, Current
  <1>9. CASE Wait \/ WaitReturns
    <2>1. UNCHANGED <<i, restart, s, h, size>> /\ main \in {"wait", "woken"}
      BY <1>9 DEF Wait, WaitReturns, Go
    <2>2. main' = "blocked" \/ main' = "reused" \/ main' = Returned
      BY <1>9 DEF Wait, WaitReturns, Go
    <2>3. main' \in {"blocked", "reused"} => Globals'
      BY <2>1 DEF Globals, Current
    <2>4. main' = Returned => Globals'
      <3>1. restart => s + 1 \in Gens
        BY <2>1 DEF Globals, Current
      <3> QED
        BY <2>1, <3>1 DEF Globals, Current, Returned
    <2> QED
      BY <2>2, <2>3, <2>4
  <1>10. ASSUME UNCHANGED <<i, restart, s, h, size>>, Nudged
         PROVE  Globals'
    BY <1>10 DEF Globals, Current, Nudged, Panics
  <1>11. ASSUME NEW g \in Gens, Log(g) \/ Update(g)
         PROVE  Globals'
    BY <1>10, <1>11, InTheBackground DEF Nudged, Panics
  <1>12. ASSUME NEW g \in Gens, NEW n \in Sockets, ListenAndServe(g, n)
         PROVE  Globals'
    BY <1>10, <1>12 DEF ListenAndServe, Nudged, Panics
  <1>13. ASSUME NEW r \in Reqs, LogRequest(r)
         PROVE  Globals'
    BY <1>10, <1>13 DEF LogRequest, Nudged, Panics
  <1>14. ASSUME NEW r \in Reqs, NEW g \in Gens, NEW n \in Sockets, handleRequest(r, g, n)
         PROVE  Globals'
    BY <1>10, <1>14 DEF handleRequest, globals, Nudged
  <1>15. CASE UNCHANGED vars
    BY <1>10, <1>15 DEF vars, globals, Nudged
  <1> QED
    BY <1>1, <1>2, <1>3, <1>4, <1>5, <1>6, <1>7, <1>8, <1>9, <1>11, <1>12, <1>13, <1>14, <1>15
       DEF Next, Start, Stop

\* What Shutdown does to the tables (StopServers).
LEMMA ShutdownCells ==
    ASSUME Globals, Shapes, Shutdown
    PROVE  /\ main = "shutdown" /\ s \in Gens
           /\ \/ /\ i \in Ports /\ server[s][i] = "new" /\ main' = main /\ i' = i + 1
                 /\ server' = server /\ late' = (late \/ listener[s][i] = "ready")
              \/ /\ i \in Ports /\ server[s][i] = "serving" /\ main' = main /\ i' = i
                 /\ server' = [server EXCEPT ![s][i] = "closing"] /\ late' = late
              \/ /\ i \in Ports /\ server[s][i] = "closing" /\ main' = main /\ i' = i + 1
                 /\ ~Busy /\ server' = [server EXCEPT ![s][i] = "down"] /\ late' = late
              \/ i \notin Ports /\ main' = "closeLog" /\ server' = server /\ late' = late
           /\ UNCHANGED <<restart, s, h, size, listener, log, closing, updating, requests, missed>>
  BY DEF Shutdown, StopServers, Globals, Current

\* The types of the tables.
LEMMA StepShapes ==
    ASSUME Globals, Shapes, [Next]_vars, Counted
    PROVE  Shapes'
  <1>0. /\ server \in [Gens -> [Sockets -> ServerStates]]
        /\ listener \in [Gens -> [Sockets -> ListenerStates]]
    BY DEF Shapes
  <1>1. CASE NewServer
    <2>1. s + 1 \in Gens /\ s' = s + 1
      BY <1>1 DEF NewServer, Go, Globals
    <2> QED
      BY <1>1, <2>1 DEF NewServer, Shapes, listening, closing, updating, requests, history
  <1>2. CASE MakeQuit
    BY <1>2 DEF MakeQuit, Shapes, listening, log, updating, requests, history
  <1>3. CASE NewHandler
    BY <1>3 DEF NewHandler, Shapes, listening, log, closing, requests, history
  <1>4. CASE GoListeners
    <2>1. s \in Gens /\ (i \in Ports => i \in Sockets)
      BY <1>4, PortsAreSockets DEF GoListeners, Globals, Current
    <2>2. listener' \in [Gens -> [Sockets -> ListenerStates]]
      <3>1. CASE i \in Ports
        <4>1. [listener EXCEPT ![s][i] = "ready"] \in [Gens -> [Sockets -> ListenerStates]]
          BY <2>1, <3>1, ListenerCell DEF ListenerStates
        <4> QED
          BY <1>4, <3>1, <4>1 DEF GoListeners
      <3>2. CASE i \notin Ports
        BY <1>0, <1>4, <3>2 DEF GoListeners
      <3> QED
        BY <3>1, <3>2
    <2> QED
      BY <1>4, <2>2 DEF GoListeners, Shapes, log, closing, updating, requests, history
  <1>5. CASE Signal \/ CloseQuit
    BY SMT, <1>5 DEF Signal, CloseQuit, Shapes, listening, log, closing, updating, requests, history
  <1>5a. CASE Wait \/ WaitReturns
    <2>1. missed' \in BOOLEAN
      BY <1>5a DEF Wait, WaitReturns
    <2> QED
      BY SMT, <1>5a, <2>1 DEF Wait, WaitReturns, Shapes, listening, log, closing, updating, requests
  <1>6. CASE Shutdown
    <2>1. server' \in [Gens -> [Sockets -> ServerStates]] /\ late' \in BOOLEAN
      <3>1. i \in Ports => i \in Sockets
        BY PortsAreSockets
      <3>2. late \in BOOLEAN
        BY DEF Shapes
      <3> QED
        <4>1. ASSUME i \in Ports, s \in Gens
              PROVE  /\ [server EXCEPT ![s][i] = "closing"] \in [Gens -> [Sockets -> ServerStates]]
                     /\ [server EXCEPT ![s][i] = "down"] \in [Gens -> [Sockets -> ServerStates]]
          BY <3>1, <4>1, ServerCell DEF ServerStates
        <4> QED
          BY <1>0, <1>6, <3>2, <4>1, ShutdownCells
    <2>2. UNCHANGED <<listener, log, closing, updating, requests, missed>>
      BY <1>6, ShutdownCells
    <2> QED
      BY <2>1, <2>2 DEF Shapes, log, closing, updating, requests
  <1>7. CASE CloseLog
    BY <1>7 DEF CloseLog, Shapes, listening, log, closing, updating, requests, history
  <1>8. ASSUME NEW g \in Gens, Log(g) \/ Update(g)
        PROVE  Shapes'
    <2>1. UNCHANGED <<listening, logQueue, requests, history>>
      BY <1>8, InTheBackground
    <2>2. /\ logger' \in [Gens -> {"none", "ready", "deaf", "select", "ended"}]
          /\ updater' \in [Gens -> {"none", "ready", "select", "ended"}]
          /\ subscriber' \in [Gens -> {"none", "run", "told", "ended"}]
      <3>1. CASE Log(g)
        <4>1. UNCHANGED <<updater, subscriber>>
          BY <3>1 DEF Log, LogAdd, LogData, LogQuit, updating
        <4>2. \E v \in {"deaf", "select", "ended"} : logger' = [logger EXCEPT ![g] = v]
          BY <3>1 DEF Log, LogAdd, LogData, LogQuit, Select
        <4> QED
          BY SMT, <4>1, <4>2 DEF Shapes
      <3>2. CASE Update(g)
        <4>1. UNCHANGED logger
          BY <3>2 DEF Update, UpdaterAdd, UpdaterQuit, SubscribeEventQuit, log
        <4>2. \/ updater' = updater
              \/ updater' = [updater EXCEPT ![g] = "select"]
              \/ updater' = [updater EXCEPT ![g] = "ended"]
          BY <3>2 DEF Update, UpdaterAdd, UpdaterQuit, SubscribeEventQuit
        <4>3. \/ subscriber' = [subscriber EXCEPT ![g] = "run"]
              \/ subscriber' = [subscriber EXCEPT ![g] = "told"]
              \/ subscriber' = [subscriber EXCEPT ![g] = "ended"]
          BY <3>2 DEF Update, UpdaterAdd, UpdaterQuit, SubscribeEventQuit
        <4> QED
          BY <4>1, <4>2, <4>3 DEF Shapes
      <3> QED
        BY <1>8, <3>1, <3>2
    <2>3. quitWG' \in [Gens -> Nat]
      <3>1. CASE LogQuit(g) \/ SubscribeEventQuit(g)
        <4>1. quitWG[g] \in Nat \ {0} /\ quitWG' = [quitWG EXCEPT ![g] = quitWG[g] - 1]
          BY SMT, <3>1 DEF LogQuit, SubscribeEventQuit, Done, Counted, One
        <4> QED
          BY SMT, <4>1 DEF Shapes
      <3>2. CASE LogAdd(g) \/ UpdaterAdd(g)
        <4>1. quitWG' = [quitWG EXCEPT ![g] = quitWG[g] + 1]
          BY <3>2 DEF LogAdd, UpdaterAdd
        <4> QED
          BY SMT, <4>1 DEF Shapes
      <3>3. CASE LogData(g) \/ UpdaterQuit(g)
        BY <3>3 DEF LogData, UpdaterQuit, closing, Shapes
      <3> QED
        BY <1>8, <3>1, <3>2, <3>3 DEF Log, Update
    <2> QED
      BY <2>1, <2>2, <2>3 DEF Shapes, listening, requests, history
  <1>9. ASSUME NEW g \in Gens, NEW n \in Sockets, ListenAndServe(g, n)
        PROVE  Shapes'
    <2>1. /\ server' \in [Gens -> [Sockets -> ServerStates]]
          /\ listener' \in [Gens -> [Sockets -> ListenerStates]]
      <3>1. CASE n \in Ports /\ s \in Gens
        <4>1. /\ [server EXCEPT ![s][n] = "serving"] \in [Gens -> [Sockets -> ServerStates]]
              /\ [listener EXCEPT ![g][n] = "ran"] \in [Gens -> [Sockets -> ListenerStates]]
          BY SMT, <3>1, ServerCell, ListenerCell DEF ServerStates, ListenerStates
        <4> QED
          BY <1>0, <1>9, <3>1, <4>1 DEF ListenAndServe
      <3>2. CASE n \notin Ports
        BY <1>0, <1>9, <3>2 DEF ListenAndServe, listening
      <3> QED
        BY <3>1, <3>2, PortsAreSockets
    <2> QED
      BY <1>9, <2>1 DEF ListenAndServe, Shapes, log, closing, updating, requests, history
  <1>10. ASSUME NEW r \in Reqs, LogRequest(r)
         PROVE  Shapes'
    <2>1. CASE logQueue[by[r]] = "closed"
      BY <1>10, <2>1 DEF LogRequest, Shapes, listening, closing, updating, requests, history
    <2>2. CASE logQueue[by[r]] # "closed"
      <3>1. /\ req' = [req EXCEPT ![r] = "idle"] /\ at' = [at EXCEPT ![r] = <<>>]
            /\ by' = [by EXCEPT ![r] = 0]
            /\ UNCHANGED <<listening, logQueue, logger, closing, updating, history>>
        BY <1>10, <2>2 DEF LogRequest
      <3>2. req' \in [Reqs -> {"idle", "log"}] /\ by' \in [Reqs -> Nat]
        BY <3>1 DEF Shapes
      <3>3. at' \in [Reqs -> (Gens \X Sockets) \cup {<<>>}]
        BY <3>1 DEF Shapes
      <3> QED
        BY <3>1, <3>2, <3>3 DEF Shapes, listening, closing, updating, history
    <2> QED
      BY <2>1, <2>2
  <1>11. ASSUME NEW r \in Reqs, NEW g \in Gens, NEW n \in Sockets, handleRequest(r, g, n)
         PROVE  Shapes'
    BY <1>11 DEF handleRequest, Globals, Shapes, listening, log, closing, updating, requests, history
  <1>12. CASE UNCHANGED vars
    BY <1>12 DEF vars, Shapes, listening, log, closing, updating, requests, history
  <1> QED
    BY <1>1, <1>2, <1>3, <1>4, <1>5, <1>5a, <1>6, <1>7, <1>8, <1>9, <1>10, <1>11, <1>12
       DEF Next, Start, Stop

\* Only Start goes on to a new generation, and only it touches one: every other
\* step writes at s, at h or at a generation with goroutines.
LEMMA StepFresh ==
    ASSUME Globals, Shapes, Fresh, [Next]_vars
    PROVE  Fresh'
  <1>0. s \in Nat /\ h \in Nat /\ h <= s /\ Gens \subseteq Nat
    BY SMT DEF Globals, Gens
  <1>1. ASSUME s' \in Nat, s <= s',
               \A g \in Gens : g > s' =>
                  /\ logQueue'[g] = logQueue[g] /\ logger'[g] = logger[g] /\ updater'[g] = updater[g]
                  /\ \A n \in Sockets : server'[g][n] = server[g][n] /\ listener'[g][n] = listener[g][n]
        PROVE  Fresh'
    <2>1. \A g \in Gens : g > s' => g > s
      BY SMT, <1>0, <1>1
    <2> QED
      BY SMT, <1>1, <2>1 DEF Fresh
  <1>2. CASE NewServer
    <2>1. /\ s' = s + 1 /\ logger' = [logger EXCEPT ![s'] = "ready"]
          /\ UNCHANGED <<server, listener, logQueue, updater>>
      BY <1>2 DEF NewServer, listening, updating
    <2>2. \A g \in Gens : g > s' => logger'[g] = logger[g]
      BY SMT, <1>0, <2>1 DEF Shapes
    <2> QED
      BY SMT, <1>0, <1>1, <2>1, <2>2
  <1>3. CASE MakeQuit \/ Signal \/ CloseQuit \/ Wait \/ WaitReturns
    BY SMT, <1>0, <1>1, <1>3 DEF MakeQuit, Signal, CloseQuit, Wait, WaitReturns, listening, log, updating
  <1>4. CASE NewHandler
    <2>1. /\ updater' = [updater EXCEPT ![s] = "ready"]
          /\ UNCHANGED <<s, server, listener, logQueue, logger>>
      BY <1>4 DEF NewHandler, listening, log
    <2>2. \A g \in Gens : g > s' => updater'[g] = updater[g]
      BY SMT, <1>0, <2>1 DEF Shapes
    <2> QED
      BY SMT, <1>0, <1>1, <2>1, <2>2
  <1>5. CASE GoListeners
    <2>1. /\ UNCHANGED <<s, server, logQueue, logger, updater>>
          /\ listener' = listener \/ (i \in Ports /\ listener' = [listener EXCEPT ![s][i] = "ready"])
      BY <1>5 DEF GoListeners, log, updating
    <2>2. \A g \in Gens : g > s' => \A n \in Sockets : listener'[g][n] = listener[g][n]
      BY SMT, <1>0, <2>1 DEF Shapes
    <2> QED
      BY SMT, <1>0, <1>1, <2>1, <2>2
  <1>6. CASE Shutdown
    <2>1. /\ UNCHANGED <<s, listener, logQueue, logger, updater>>
          /\ \/ server' = server
             \/ server' = [server EXCEPT ![s][i] = "closing"]
             \/ server' = [server EXCEPT ![s][i] = "down"]
      BY <1>6, ShutdownCells DEF log, updating
    <2>2. \A g \in Gens : g > s' => \A n \in Sockets : server'[g][n] = server[g][n]
      BY SMT, <1>0, <2>1 DEF Shapes
    <2> QED
      BY SMT, <1>0, <1>1, <2>1, <2>2
  <1>7. CASE CloseLog
    <2>1. /\ logQueue' = [logQueue EXCEPT ![h] = "closed"]
          /\ UNCHANGED <<s, server, listener, logger, updater>>
      BY <1>7 DEF CloseLog, listening, updating
    <2>2. \A g \in Gens : g > s' => logQueue'[g] = logQueue[g]
      BY SMT, <1>0, <2>1 DEF Shapes
    <2> QED
      BY SMT, <1>0, <1>1, <2>1, <2>2
  <1>8. ASSUME NEW a \in Gens, Log(a) \/ Update(a)
        PROVE  Fresh'
    <2>1. UNCHANGED <<s, server, listener, logQueue>>
      BY <1>8, InTheBackground DEF listening
    <2>2. \A g \in Gens : /\ g # a => logger'[g] = logger[g] /\ updater'[g] = updater[g]
                          /\ logger[g] = "none" => logger'[g] = "none"
                          /\ updater[g] = "none" => updater'[g] = "none"
      <3>1. CASE Log(a)
        <4>1. /\ updater' = updater /\ logger[a] # "none"
              /\ \E v : logger' = [logger EXCEPT ![a] = v]
          BY <3>1 DEF Log, LogAdd, LogData, LogQuit, updating
        <4> QED
          BY <4>1 DEF Shapes
      <3>2. CASE Update(a)
        <4>1. /\ logger' = logger
              /\ \/ updater' = updater
                 \/ updater[a] # "none" /\ \E v : updater' = [updater EXCEPT ![a] = v]
          BY <3>2 DEF Update, UpdaterAdd, UpdaterQuit, SubscribeEventQuit, log
        <4> QED
          BY <4>1 DEF Shapes
      <3> QED
        BY <1>8, <3>1, <3>2
    <2> QED
      BY SMT, <2>1, <2>2 DEF Fresh
  <1>9. ASSUME NEW a \in Gens, NEW n \in Sockets, ListenAndServe(a, n)
        PROVE  Fresh'
    <2>1. /\ UNCHANGED <<s, logQueue, logger, updater>> /\ listener[a][n] = "ready"
          /\ \/ server' = server
             \/ server' = [server EXCEPT ![s][n] = "serving"]
          /\ \/ listener' = listener
             \/ listener' = [listener EXCEPT ![a][n] = "ran"]
      BY <1>9 DEF ListenAndServe, listening, log, updating
    <2>2. ~(a > s)
      BY <2>1 DEF Fresh
    <2>3. \A g \in Gens : g > s => \A m \in Sockets : server'[g][m] = server[g][m]
      BY SMT, <1>0, <2>1 DEF Shapes
    <2>4. \A g \in Gens : g > s => \A m \in Sockets : listener'[g][m] = listener[g][m]
      BY <1>0, <2>1, <2>2 DEF Shapes
    <2> QED
      BY SMT, <1>0, <1>1, <2>1, <2>3, <2>4
  <1>10. ASSUME NEW r \in Reqs, LogRequest(r)
         PROVE  Fresh'
    BY SMT, <1>0, <1>1, <1>10 DEF LogRequest, listening, updating
  <1>11. ASSUME NEW r \in Reqs, NEW g \in Gens, NEW n \in Sockets, handleRequest(r, g, n)
         PROVE  Fresh'
    BY SMT, <1>0, <1>1, <1>11 DEF handleRequest, globals, listening, log, updating
  <1>12. CASE UNCHANGED vars
    BY SMT, <1>0, <1>1, <1>12 DEF vars, globals, listening, log, updating
  <1> QED
    BY <1>2, <1>3, <1>4, <1>5, <1>6, <1>7, <1>8, <1>9, <1>10, <1>11, <1>12
       DEF Next, Start, Stop

\* The log queue stays open until ShutDown closes it.
LEMMA StepQueues ==
    ASSUME Globals, Shapes, Fresh, Queues, [Next]_vars
    PROVE  Queues'
  <1>1. CASE NewServer
    <2>1. s' = s + 1 /\ s' \in Gens /\ s' > s /\ logQueue' = logQueue
      BY SMT, <1>1 DEF NewServer, Go, Globals
    <2> QED
      BY <2>1 DEF Fresh, Queues
  <1>3. CASE MakeQuit \/ NewHandler \/ GoListeners \/ Signal \/ Shutdown
    <2>1. main \in Serving \cup {"quit", "updater"} /\ UNCHANGED <<s, logQueue>>
      BY <1>3 DEF MakeQuit, NewHandler, GoListeners, Signal, Shutdown, StopServers, Go, Serving, log
    <2> QED
      BY <2>1 DEF Queues
  <1>4. CASE CloseLog \/ CloseQuit \/ Wait \/ WaitReturns
    BY <1>4 DEF CloseLog, CloseQuit, Wait, WaitReturns, Returned, Go, Queues, Serving
  <1>5. ASSUME UNCHANGED <<s, logQueue>>, Nudged
        PROVE  Queues'
    BY <1>5 DEF Queues, Serving, Nudged, Panics
  <1>6. ASSUME NEW g \in Gens, Log(g) \/ Update(g)
        PROVE  Queues'
    BY <1>5, <1>6, InTheBackground DEF Nudged, Panics
  <1>7. ASSUME NEW g \in Gens, NEW n \in Sockets, ListenAndServe(g, n)
        PROVE  Queues'
    BY <1>5, <1>7 DEF ListenAndServe, log, Nudged, Panics
  <1>8. ASSUME NEW r \in Reqs, LogRequest(r)
        PROVE  Queues'
    BY <1>5, <1>8 DEF LogRequest, Nudged, Panics
  <1>9. ASSUME NEW r \in Reqs, NEW g \in Gens, NEW n \in Sockets, handleRequest(r, g, n)
        PROVE  Queues'
    BY <1>5, <1>9 DEF handleRequest, globals, log, Nudged
  <1>10. CASE UNCHANGED vars
    BY <1>5, <1>10 DEF vars, globals, log, Nudged
  <1> QED
    BY <1>1, <1>3, <1>4, <1>6, <1>7, <1>8, <1>9, <1>10 DEF Next, Start, Stop

\* With no server serving there is nothing to serve.
LEMMA AllQuiet ==
    ASSUME Globals, Ready, Served, Handled, main \notin Serving
    PROVE  /\ \A g \in Gens, n \in Sockets : listener[g][n] # "ready"
           /\ \A g \in Gens, n \in Sockets : server[g][n] \notin {"serving", "closing"}
           /\ \A r \in Reqs : req[r] # "log"
  <1>1. \A g \in Gens, n \in Sockets : listener[g][n] # "ready"
    BY DEF Ready, Within
  <1>2. \A g \in Gens, n \in Sockets : server[g][n] \notin {"serving", "closing"}
    BY DEF Served, Within
  <1>3. \A r \in Reqs : req[r] # "log"
    <2> SUFFICES ASSUME NEW r \in Reqs, req[r] = "log" PROVE FALSE
      OBVIOUS
    <2>1. PICK n \in Sockets : server[s][n] \in {"serving", "closing"}
      BY DEF Handled
    <2>2. s \in Gens
      BY DEF Handled
    <2> QED
      BY <1>2, <2>1, <2>2
  <1> QED
    BY <1>1, <1>2, <1>3

\* Steps of the main goroutine before and after the servers serve.
LEMMA OrderlyOutside ==
    ASSUME Globals, Shapes, Fresh, Orderly, ~late,
           NewServer \/ MakeQuit \/ NewHandler \/ CloseLog \/ CloseQuit \/ Wait \/ WaitReturns
    PROVE  ~late' /\ main' \notin LateEnds /\ Orderly'
  <1>1. UNCHANGED <<server, listener, req, late>> /\ main' \notin LateEnds /\ main \notin Serving
    BY DEF NewServer, MakeQuit, NewHandler, CloseLog, CloseQuit, Wait, WaitReturns, Returned, Go,
           listening, requests, history, Serving, LateEnds
  <1>2. /\ \A g \in Gens, n \in Sockets : listener[g][n] # "ready"
        /\ \A g \in Gens, n \in Sockets : server[g][n] \notin {"serving", "closing"}
        /\ \A r \in Reqs : req[r] # "log"
    BY <1>1, AllQuiet DEF Orderly
  <1>3. Unopened'
    <2>1. CASE NewServer
      <3>1. s' \in Gens /\ s' > s
        BY SMT, <2>1 DEF NewServer, Go, Globals
      <3> QED
        BY <1>1, <3>1 DEF Fresh, Unopened
    <2>2. CASE MakeQuit \/ NewHandler
      <3>1. s' = s /\ main \in {"quit", "updater"}
        BY <2>2 DEF MakeQuit, NewHandler, Go
      <3> QED
        BY <1>1, <3>1 DEF Orderly, Unopened
    <2>3. CASE CloseLog \/ CloseQuit \/ Wait \/ WaitReturns
      <3>1. main' \notin {"quit", "updater", "listen"}
        BY <2>3 DEF CloseLog, CloseQuit, Wait, WaitReturns, Returned, Go
      <3> QED
        BY <3>1 DEF Unopened
    <2> QED
      BY <2>1, <2>2, <2>3
  <1> QED
    BY <1>1, <1>2, <1>3 DEF Orderly, Ready, Served, Handled

\* A listener goroutine is started at its own, unused server.
LEMMA OrderlyListen ==
    ASSUME Globals, Shapes, Orderly, ~late, GoListeners
    PROVE  ~late' /\ main' \notin LateEnds /\ Orderly'
  <1>1. /\ main = "listen" /\ UNCHANGED <<s, size, server, req, at, by, late>>
        /\ \/ /\ i \in Ports /\ listener' = [listener EXCEPT ![s][i] = "ready"]
              /\ i' = i + 1 /\ main' = main
           \/ i \notin Ports /\ main' = "idle" /\ listener' = listener
    BY DEF GoListeners, requests, history
  <1>2. s \in Gens /\ i \in Nat \ {0} /\ size \in Nat /\ Ports \subseteq Sockets /\ Ports' = Ports
    BY <1>1, PortsAreSockets DEF Globals, Current, Ports
  <1>3. Handled' /\ main' \notin LateEnds /\ ~late'
    BY <1>1 DEF Orderly, Handled, LateEnds
  <1>4. ASSUME NEW n, Within(n)
        PROVE  Within(n)'
    <2>1. n \in Ports /\ n < i
      BY <1>1, <1>4 DEF Within
    <2>2. n \in Nat
      BY SMT, <1>2, <2>1 DEF Ports
    <2>3. i' = i + 1 => n < i'
      BY SMT, <1>2, <2>1, <2>2
    <2> QED
      BY <1>1, <1>2, <2>1, <2>3 DEF Within, Serving
  <1>5. Served'
    BY <1>1, <1>4 DEF Orderly, Served
  <1>6. Unopened'
    <2>1. ASSUME NEW n \in Sockets, i' = i + 1, i' <= n
          PROVE  i <= n
      <3>1. Sockets \subseteq Nat
        BY SMT, StartsAssumption DEF Sockets
      <3> QED
        BY SMT, <1>2, <2>1, <3>1
    <2> QED
      BY <1>1, <2>1 DEF Orderly, Unopened
  <1>7. Ready'
    <2>1. CASE i \in Ports
      <3>1. /\ listener' = [listener EXCEPT ![s][i] = "ready"] /\ i \in Sockets
            /\ i' = i + 1 /\ main' = main
        BY <1>1, <1>2, <2>1
      <3>2. server[s][i] = "new"
        BY SMT, <1>1, <1>2, <3>1 DEF Orderly, Unopened
      <3>3. ASSUME NEW n, n = i
            PROVE  Within(n)'
        BY SMT, <1>1, <1>2, <2>1, <3>1, <3>3 DEF Within, Serving
      <3>4. ASSUME NEW g \in Gens, NEW n \in Sockets, g # s \/ n # i
            PROVE  listener'[g][n] = listener[g][n]
        BY SMT, <1>2, <3>1, <3>4, ListenerCell DEF ListenerStates
      <3>5. ASSUME NEW g \in Gens, NEW n \in Sockets, listener'[g][n] = "ready"
            PROVE  g = s /\ Within(n)' /\ server[g][n] = "new"
        <4>1. CASE g = s /\ n = i
          BY <3>2, <3>3, <4>1
        <4>2. CASE g # s \/ n # i
          <5>1. g = s /\ Within(n) /\ server[g][n] = "new"
            BY <3>4, <3>5, <4>2 DEF Orderly, Ready
          <5> QED
            BY <1>4, <5>1
        <4> QED
          BY <4>1, <4>2
      <3> QED
        BY <1>1, <3>5 DEF Ready
    <2>2. CASE i \notin Ports
      BY <1>1, <1>4, <2>2 DEF Orderly, Ready
    <2> QED
      BY <2>1, <2>2
  <1> QED
    BY <1>3, <1>5, <1>6, <1>7 DEF Orderly

\* A signal comes when all listener goroutines are started.
LEMMA OrderlySignal ==
    ASSUME Globals, Orderly, ~late, Signal
    PROVE  ~late' /\ main' \notin LateEnds /\ Orderly'
  <1>1. /\ main = "idle" /\ main' = "shutdown" /\ i = 1
        /\ UNCHANGED <<i, s, size, server, listener, req, at, by, late>>
    BY DEF Signal, Go, Globals, listening, requests, history
  <1>2. ASSUME NEW n, Within(n)
        PROVE  Within(n)'
    <2>1. n \in Ports /\ Ports' = Ports
      BY <1>1, <1>2 DEF Within, Ports
    <2>2. 1 <= n
      BY SMT, <2>1, PortsAreSockets DEF Ports
    <2> QED
      BY <1>1, <2>1, <2>2 DEF Within, Serving
  <1> QED
    BY <1>1, <1>2 DEF Orderly, Ready, Served, Unopened, Handled, LateEnds

\* Shutdown leaves a server behind only when it is down, or was never to serve.
LEMMA OrderlyShutdown ==
    ASSUME Globals, Shapes, Orderly, ~late, Shutdown, ~late'
    PROVE  main' \notin LateEnds /\ Orderly'
  <1>1. /\ main = "shutdown" /\ s \in Gens
        /\ UNCHANGED <<s, size, listener, req, at, by>>
    BY ShutdownCells DEF requests
  <1>2. i \in Nat \ {0} /\ size \in Nat /\ Ports \subseteq Sockets /\ Ports = 1 .. size /\ Ports' = Ports
    BY <1>1, PortsAreSockets DEF Globals, Ports
  <1>3. /\ \A g \in Gens, n \in Sockets : listener[g][n] = "ready" =>
              g = s /\ n \in Ports /\ i <= n /\ server[g][n] = "new"
        /\ \A g \in Gens, n \in Sockets : server[g][n] \in {"serving", "closing"} =>
              g = s /\ n \in Ports /\ i <= n
    BY <1>1 DEF Orderly, Ready, Served, Within
  <1>4. Handled
    BY DEF Orderly
  \* The tables after the step have what they need if they follow i.
  <1>5. ASSUME main' = "shutdown",
               \A g \in Gens, n \in Sockets : listener[g][n] = "ready" =>
                  g = s /\ n \in Ports /\ i' <= n /\ server'[g][n] = "new",
               \A g \in Gens, n \in Sockets : server'[g][n] \in {"serving", "closing"} =>
                  g = s /\ n \in Ports /\ i' <= n
        PROVE  main' \notin LateEnds /\ Ready' /\ Served' /\ Unopened'
    BY <1>1, <1>2, <1>5 DEF Ready, Served, Unopened, Within, Serving, LateEnds
  <1>6. CASE /\ i \in Ports /\ server[s][i] = "new" /\ main' = main /\ i' = i + 1
             /\ server' = server /\ late' = (late \/ listener[s][i] = "ready")
    <2>1. ASSUME NEW n \in Ports, i <= n, n # i
          PROVE  i' <= n
      BY SMT, <1>2, <1>6, <2>1
    <2>2. listener[s][i] # "ready"
      BY <1>6
    <2>3. Handled'
      BY <1>1, <1>4, <1>6 DEF Handled
    <2>4. /\ \A g \in Gens, n \in Sockets : listener[g][n] = "ready" =>
                g = s /\ n \in Ports /\ i' <= n /\ server'[g][n] = "new"
          /\ \A g \in Gens, n \in Sockets : server'[g][n] \in {"serving", "closing"} =>
                g = s /\ n \in Ports /\ i' <= n
      BY <1>3, <1>6, <2>1, <2>2
    <2> QED
      BY <1>1, <1>5, <1>6, <2>3, <2>4 DEF Orderly
  <1>7. CASE /\ i \in Ports /\ server[s][i] = "serving" /\ main' = main /\ i' = i
             /\ server' = [server EXCEPT ![s][i] = "closing"] /\ late' = late
    <2>1. /\ server'[s][i] = "closing"
          /\ \A g \in Gens, n \in Sockets : g # s \/ n # i => server'[g][n] = server[g][n]
      BY SMT, <1>1, <1>2, <1>7, ServerCell DEF ServerStates
    <2>2. Handled'
      <3> SUFFICES ASSUME NEW r \in Reqs, req[r] = "log"
                   PROVE  /\ by[r] = s /\ s \in Gens
                          /\ \E n \in Sockets : at[r] = <<s, n>> /\ server'[s][n] \in {"serving", "closing"}
        BY <1>1 DEF Handled
      <3>1. PICK n \in Sockets : at[r] = <<s, n>> /\ server[s][n] \in {"serving", "closing"}
        BY <1>4 DEF Handled
      <3>2. server'[s][n] \in {"serving", "closing"}
        BY <1>1, <2>1, <3>1
      <3> QED
        BY <1>4, <3>1, <3>2 DEF Handled
    <2>3. /\ \A g \in Gens, n \in Sockets : listener[g][n] = "ready" =>
                g = s /\ n \in Ports /\ i <= n /\ server'[g][n] = "new"
          /\ \A g \in Gens, n \in Sockets : server'[g][n] \in {"serving", "closing"} =>
                g = s /\ n \in Ports /\ i <= n
      <3>1. i <= i
        BY SMT, <1>2
      <3> QED
        BY SMT, <1>3, <1>7, <2>1, <3>1
    <2> QED
      BY <1>1, <1>5, <1>7, <2>2, <2>3 DEF Orderly
  <1>8. CASE /\ i \in Ports /\ server[s][i] = "closing" /\ main' = main /\ i' = i + 1
             /\ ~Busy /\ server' = [server EXCEPT ![s][i] = "down"] /\ late' = late
    <2>1. /\ server'[s][i] = "down"
          /\ \A g \in Gens, n \in Sockets : g # s \/ n # i => server'[g][n] = server[g][n]
      <3>1. s \in Gens /\ i \in Sockets
        BY <1>2, <1>8, PortsAreSockets
      <3> QED
        BY <1>8, <3>1 DEF Shapes
    <2>2. Handled'
      <3> SUFFICES ASSUME NEW r \in Reqs, req[r] = "log"
                   PROVE  /\ by[r] = s /\ s \in Gens
                          /\ \E n \in Sockets : at[r] = <<s, n>> /\ server'[s][n] \in {"serving", "closing"}
        BY <1>1 DEF Handled
      <3>1. PICK n \in Sockets : at[r] = <<s, n>> /\ server[s][n] \in {"serving", "closing"}
        BY <1>4 DEF Handled
      <3>2. n # i
        BY <1>8, <3>1 DEF Busy
      <3> QED
        BY <1>1, <1>4, <2>1, <3>1, <3>2 DEF Handled
    <2>3. ASSUME NEW n \in Ports, i <= n, n # i
          PROVE  i' <= n
      BY SMT, <1>2, <1>8, <2>3
    <2>4. /\ \A g \in Gens, n \in Sockets : listener[g][n] = "ready" =>
                g = s /\ n \in Ports /\ i' <= n /\ server'[g][n] = "new"
          /\ \A g \in Gens, n \in Sockets : server'[g][n] \in {"serving", "closing"} =>
                g = s /\ n \in Ports /\ i' <= n
      BY SMT, <1>3, <1>8, <2>1, <2>3
    <2> QED
      BY <1>1, <1>5, <1>8, <2>2, <2>4 DEF Orderly
  <1>9. CASE i \notin Ports /\ main' = "closeLog" /\ server' = server /\ late' = late
    <2>1. ASSUME NEW n \in Ports, i <= n
          PROVE  FALSE
      BY SMT, <1>2, <1>9, <2>1
    <2>2. /\ \A g \in Gens, n \in Sockets : listener[g][n] # "ready"
          /\ \A g \in Gens, n \in Sockets : server[g][n] \notin {"serving", "closing"}
      BY <1>3, <2>1
    <2>3. Handled'
      BY <1>1, <1>4, <1>9 DEF Handled
    <2> QED
      BY <1>1, <1>9, <2>2, <2>3 DEF Orderly, Ready, Served, Unopened, LateEnds
  <1> QED
    BY <1>6, <1>7, <1>8, <1>9, ShutdownCells

\* A listener goroutine finds its server, and makes it serve or cannot bind.
LEMMA OrderlyServe ==
    ASSUME Globals, Shapes, Orderly, ~late, NEW g \in Gens, NEW n \in Sockets, ListenAndServe(g, n)
    PROVE  ~late' /\ main' \notin LateEnds /\ Orderly'
  <1>1. listener[g][n] = "ready" /\ UNCHANGED <<i, s, size, req, at, by, late>>
    BY DEF ListenAndServe, requests, history
  <1>2. g = s /\ Within(n) /\ server[s][n] = "new" /\ n \in Ports /\ main \notin LateEnds
    BY <1>1 DEF Orderly, Ready, Within, Serving, LateEnds
  <1>3. /\ server' = server \/ server' = [server EXCEPT ![s][n] = "serving"]
        /\ listener' = [listener EXCEPT ![s][n] = "ran"] /\ main' = main
    BY <1>2 DEF ListenAndServe
  <1>4. /\ server'[s][n] \in {"new", "serving"} /\ listener'[s][n] = "ran"
        /\ \A a \in Gens, m \in Sockets : a # s \/ m # n =>
              server'[a][m] = server[a][m] /\ listener'[a][m] = listener[a][m]
    <2>1. /\ listener'[s][n] = "ran"
          /\ \A a \in Gens, m \in Sockets : a # s \/ m # n => listener'[a][m] = listener[a][m]
      BY SMT, <1>2, <1>3, ListenerCell DEF ListenerStates
    <2>2. /\ server'[s][n] \in {"new", "serving"}
          /\ \A a \in Gens, m \in Sockets : a # s \/ m # n => server'[a][m] = server[a][m]
      BY SMT, <1>2, <1>3, ServerCell DEF ServerStates
    <2> QED
      BY <2>1, <2>2
  <1>5. \A m \in Sockets : Within(m) => Within(m)'
    BY <1>1, <1>3 DEF Within, Ports
  <1>6. Ready'
    <2> SUFFICES ASSUME NEW a \in Gens, NEW m \in Sockets, listener'[a][m] = "ready"
                 PROVE  a = s /\ Within(m)' /\ server'[a][m] = "new"
      BY <1>1 DEF Ready
    <2>1. (a # s \/ m # n) /\ listener[a][m] = "ready" /\ server'[a][m] = server[a][m]
      BY <1>2, <1>4
    <2> QED
      BY <1>5, <2>1 DEF Orderly, Ready
  <1>7. Served'
    BY <1>1, <1>2, <1>4, <1>5 DEF Orderly, Served
  <1>8. Unopened'
    <2>1. main \notin {"quit", "updater"} /\ (main = "listen" => ~(i <= n))
      <3>1. n \in Nat /\ i \in Nat
        BY SMT, <1>2, PortsAreSockets DEF Globals, Ports
      <3> QED
        BY SMT, <1>2, <3>1 DEF Within, Serving
    <2> QED
      BY SMT, <1>1, <1>2, <1>3, <1>4, <2>1 DEF Orderly, Unopened
  <1>9. Handled'
    <2> SUFFICES ASSUME NEW r \in Reqs, req[r] = "log"
                 PROVE  /\ by[r] = s /\ s \in Gens
                        /\ \E m \in Sockets : at[r] = <<s, m>> /\ server'[s][m] \in {"serving", "closing"}
      BY <1>1 DEF Handled
    <2>1. PICK m \in Sockets : at[r] = <<s, m>> /\ server[s][m] \in {"serving", "closing"}
      BY DEF Orderly, Handled
    <2>2. m # n
      BY <1>2, <2>1
    <2>3. server'[s][m] = server[s][m]
      BY <1>2, <1>4, <2>2
    <2> QED
      BY <2>1, <2>3 DEF Orderly, Handled
  <1> QED
    BY <1>1, <1>2, <1>3, <1>6, <1>7, <1>8, <1>9 DEF Orderly

\* A request comes in at a present server, and its handler's queue is open.
LEMMA OrderlyRequests ==
    ASSUME Globals, Shapes, Queues, Orderly, ~late,
           NEW r \in Reqs, LogRequest(r) \/ \E g \in Gens, n \in Sockets : handleRequest(r, g, n)
    PROVE  ~late' /\ main' \notin LateEnds /\ Orderly'
  <1>1. UNCHANGED <<i, s, size, server, listener, late>>
    BY DEF LogRequest, handleRequest, globals, listening, history
  <1>2. main' = main /\ (LogRequest(r) => logQueue[by[r]] = "open")
    <2>1. CASE LogRequest(r)
      <3>1. req[r] = "log"
        BY <2>1 DEF LogRequest
      <3>2. by[r] = s /\ s \in Gens
        BY <3>1 DEF Orderly, Handled
      <3>3. main \in Serving
        BY <3>1, AllQuiet DEF Orderly
      <3>4. logQueue[by[r]] = "open"
        BY <3>2, <3>3 DEF Queues
      <3> QED
        BY <2>1, <3>4 DEF LogRequest, handleRequest
    <2>2. CASE \E g \in Gens, n \in Sockets : handleRequest(r, g, n)
      BY <2>2 DEF handleRequest, LogRequest, globals
    <2> QED
      BY <2>1, <2>2
  <1>3. Ready' /\ Served' /\ Unopened'
    BY <1>1, <1>2 DEF Orderly, Ready, Served, Unopened, Within, Ports
  <1>4. Handled'
    <2>1. CASE LogRequest(r)
      <3>1. req' \in {req, [req EXCEPT ![r] = "idle"]} /\ \A q \in Reqs \ {r} : at'[q] = at[q] /\ by'[q] = by[q]
        BY <2>1 DEF LogRequest, Shapes, requests
      <3>2. req'[r] # "log"
        <4>1. logQueue[by[r]] = "open"
          BY <1>2, <2>1
        <4>2. req' = [req EXCEPT ![r] = "idle"]
          BY <2>1, <4>1 DEF LogRequest
        <4> QED
          BY <4>2 DEF Shapes
      <3>3. \A q \in Reqs \ {r} : req'[q] = req[q]
        BY <3>1 DEF Shapes
      <3> QED
        BY <1>1, <3>1, <3>2, <3>3 DEF Orderly, Handled
    <2>2. ASSUME NEW g \in Gens, NEW n \in Sockets, handleRequest(r, g, n)
          PROVE  Handled'
      <3>1. g = s /\ s \in Gens /\ server[s][n] = "serving" /\ h = s
        <4>1. server[g][n] = "serving"
          BY <2>2 DEF handleRequest
        <4>2. g = s /\ main \in Serving
          BY <4>1 DEF Orderly, Served, Within
        <4> QED
          BY <4>1, <4>2 DEF Globals, Serving, Current
      <3>2. /\ at'[r] = <<s, n>> /\ by'[r] = s
            /\ \A q \in Reqs \ {r} : req'[q] = req[q] /\ at'[q] = at[q] /\ by'[q] = by[q]
        BY SMT, <2>2, <3>1 DEF handleRequest, Shapes
      <3> SUFFICES ASSUME NEW q \in Reqs, req'[q] = "log"
                   PROVE  /\ by'[q] = s /\ s \in Gens
                          /\ \E m \in Sockets : at'[q] = <<s, m>> /\ server[s][m] \in {"serving", "closing"}
        BY <1>1 DEF Handled
      <3>3. CASE q = r
        BY <3>1, <3>2, <3>3
      <3>4. CASE q # r
        <4>1. req[q] = "log" /\ at'[q] = at[q] /\ by'[q] = by[q]
          BY <3>2, <3>4
        <4> QED
          BY <4>1 DEF Orderly, Handled
      <3> QED
        BY <3>3, <3>4
    <2> QED
      BY <2>1, <2>2
  <1> QED
    <2>1. Alive
      BY DEF LogRequest, handleRequest
    <2> QED
      BY <1>1, <1>2, <1>3, <1>4, <2>1 DEF Orderly, Alive, Panics, LateEnds

\* Every step keeps the order of Start and Stop.
LEMMA StepOrderly ==
    ASSUME Globals, Shapes, Fresh, Queues, InOrder, [Next]_vars
    PROVE  InOrder'
  <1> SUFFICES ASSUME ~late'
               PROVE  main' \notin LateEnds /\ (Alive' => Orderly')
    BY DEF InOrder
  <1>1. ~late
    BY DEF Next, Start, Stop, NewServer, MakeQuit, NewHandler, GoListeners, Signal, Shutdown, StopServers,
           CloseLog, CloseQuit, Wait, WaitReturns, Log, LogAdd, LogData, LogQuit, Update, UpdaterAdd,
           UpdaterQuit, SubscribeEventQuit, ListenAndServe, handleRequest, LogRequest, vars, history
  <1>2. main \notin LateEnds /\ (Alive => Orderly)
    BY <1>1 DEF InOrder
  <1>3. CASE Start \/ Signal \/ Stop
    <2>1. Alive
      BY <1>3 DEF Start, Stop, NewServer, MakeQuit, NewHandler, GoListeners, Signal, Shutdown, StopServers,
                  CloseLog, CloseQuit, Wait, WaitReturns, Go, Alive, Panics
    <2> QED
      BY <1>1, <1>2, <1>3, <2>1, OrderlyOutside, OrderlyListen, OrderlySignal, OrderlyShutdown
         DEF Start, Stop
  <1>4. ASSUME NEW g \in Gens, Log(g) \/ Update(g)
        PROVE  main' \notin LateEnds /\ (Alive' => Orderly')
    <2>1. /\ UNCHANGED <<i, s, size, server, listener, req, at, by>> /\ Orderly
          /\ main' = main \/ main' = "nilMap" \/ (main = "blocked" /\ main' = "woken")
      BY <1>2, <1>4, InTheBackground DEF listening, requests
    <2>2. CASE main' = main
      BY <1>2, <2>1, <2>2 DEF Orderly, Ready, Served, Unopened, Handled, Within, Ports
    <2>3. CASE main' = "nilMap"
      BY <2>3 DEF LateEnds, Alive, Panics
    <2>4. CASE main = "blocked" /\ main' = "woken"
      BY <2>1, <2>4 DEF Orderly, Ready, Served, Unopened, Handled, Within, Ports, Serving, LateEnds
    <2> QED
      BY <2>1, <2>2, <2>3, <2>4
  <1>5. ASSUME NEW g \in Gens, NEW n \in Sockets, ListenAndServe(g, n)
        PROVE  main' \notin LateEnds /\ (Alive' => Orderly')
    <2>1. Alive
      BY <1>5 DEF ListenAndServe
    <2> QED
      BY <1>1, <1>2, <1>5, <2>1, OrderlyServe
  <1>6. ASSUME NEW r \in Reqs, LogRequest(r) \/ \E g \in Gens, n \in Sockets : handleRequest(r, g, n)
        PROVE  main' \notin LateEnds /\ (Alive' => Orderly')
    <2>1. Alive
      BY <1>6 DEF LogRequest, handleRequest
    <2> QED
      BY <1>1, <1>2, <1>6, <2>1, OrderlyRequests
  <1>7. CASE UNCHANGED vars
    <2>1. UNCHANGED <<main, i, s, size, server, listener, req, at, by, late>>
      BY <1>7 DEF vars, globals, listening, requests, history
    <2> QED
      BY <1>2, <2>1 DEF Alive, Orderly, Ready, Served, Unopened, Handled, Within, Ports
  <1> QED
    BY <1>3, <1>4, <1>5, <1>6, <1>7 DEF Next
-----------------------------------------------------------------------------
\* One cell of the wait group (LogAdd, LogQuit, UpdaterAdd, SubscribeEventQuit).
LEMMA StepCounted ==
    ASSUME Globals, Shapes, Fresh, Counted, [Next]_vars
    PROVE  Counted'
  <1>0. s \in Nat /\ h \in Nat /\ h <= s /\ Gens \subseteq Nat
    BY SMT DEF Globals, Gens
  <1>1. ASSUME UNCHANGED <<logger, updater, subscriber, quitWG, s, h>>
        PROVE  Counted'
    BY <1>1 DEF Counted
  <1>2. CASE NewServer
    <2>1. /\ s' = s + 1 /\ s' \in Gens /\ s' > s /\ logger' = [logger EXCEPT ![s'] = "ready"]
          /\ UNCHANGED <<updater, subscriber, quitWG, h>>
      BY SMT, <1>0, <1>2 DEF NewServer, Go, Globals, updating, closing
    <2>2. logger[s'] = "none" /\ logger'[s'] = "ready" /\ \A g \in Gens : g # s' => logger'[g] = logger[g]
      BY SMT, <2>1 DEF Fresh, Shapes
    <2>3. \A g \in Gens : g <= s' => g <= s \/ g = s'
      BY SMT, <1>0, <2>1
    <2>4. \A g \in Gens : logger'[g] \in {"deaf", "select"} <=> logger[g] \in {"deaf", "select"}
      BY <2>1, <2>2
    <2>5. \A g \in Gens : g <= s' => logger'[g] # "none"
      BY <2>2, <2>3 DEF Counted
    <2> QED
      BY <2>1, <2>4, <2>5 DEF Counted, One
  <1>3. CASE NewHandler
    <2>1. /\ h' = s /\ s' = s /\ s \in Gens /\ updater' = [updater EXCEPT ![s] = "ready"]
          /\ UNCHANGED <<logger, subscriber, quitWG>>
      BY SMT, <1>3 DEF NewHandler, Go, Globals, log, closing
    <2>2. s = h + 1 /\ updater[s] = "none"
      <3>1. s = h + 1
        BY <1>3 DEF NewHandler, Go, Globals
      <3> QED
        BY SMT, <1>0, <2>1, <3>1 DEF Counted
    <2>3. updater'[s] = "ready" /\ \A g \in Gens : g # s => updater'[g] = updater[g]
      BY <2>1 DEF Shapes
    <2>4. \A g \in Gens :
            /\ updater'[g] \in {"none", "ready"} <=> updater[g] \in {"none", "ready"}
            /\ updater'[g] = "select" <=> updater[g] = "select"
      BY <2>1, <2>2, <2>3
    <2>5. \A g \in Gens : g <= h' <=> updater'[g] # "none"
      <3>1. \A g \in Gens : g <= h' <=> g <= h \/ g = s
        BY SMT, <1>0, <2>1, <2>2
      <3> QED
        BY <2>3, <3>1 DEF Counted
    <2>6. \A g \in Gens :
            /\ updater'[g] \in {"none", "ready"} <=> subscriber'[g] = "none"
            /\ updater'[g] = "select" <=> subscriber'[g] = "run"
      BY <2>1, <2>4 DEF Counted
    <2> QED
      BY <2>1, <2>5, <2>6 DEF Counted
  <1>4. CASE \/ MakeQuit \/ GoListeners \/ Signal \/ Shutdown \/ CloseLog \/ CloseQuit \/ Wait \/ WaitReturns
    BY <1>1, <1>4 DEF MakeQuit, GoListeners, Signal, Shutdown, StopServers, CloseLog, CloseQuit, Wait,
                      WaitReturns, log, closing, updating
  \* A goroutine of generation a moves, and its part of the count with it.
  <1>5. ASSUME NEW a \in Gens, UNCHANGED <<s, h>>,
               \A g \in Gens \ {a} :
                 /\ logger'[g] = logger[g] /\ updater'[g] = updater[g]
                 /\ subscriber'[g] = subscriber[g] /\ quitWG'[g] = quitWG[g],
               quitWG'[a] = One(logger'[a] \in {"deaf", "select"})
                            + One(subscriber'[a] \in {"run", "told"}),
               updater'[a] \in {"none", "ready"} <=> subscriber'[a] = "none",
               updater'[a] = "select" <=> subscriber'[a] = "run",
               logger'[a] = "none" <=> logger[a] = "none",
               updater'[a] = "none" <=> updater[a] = "none"
        PROVE  Counted'
    <2>1. ASSUME NEW g \in Gens
          PROVE  /\ quitWG'[g] = One(logger'[g] \in {"deaf", "select"})
                                 + One(subscriber'[g] \in {"run", "told"})
                 /\ updater'[g] \in {"none", "ready"} <=> subscriber'[g] = "none"
                 /\ updater'[g] = "select" <=> subscriber'[g] = "run"
                 /\ g <= s' => logger'[g] # "none"
                 /\ g <= h' <=> updater'[g] # "none"
      <3>1. CASE g = a
        BY <1>5, <3>1 DEF Counted
      <3>2. CASE g # a
        BY <1>5, <3>2 DEF Counted
      <3> QED
        BY <3>1, <3>2
    <2> QED
      BY <2>1 DEF Counted
  <1>6. ASSUME NEW a \in Gens, Log(a)
        PROVE  Counted'
    <2>1. UNCHANGED <<s, h, updater, subscriber>>
      BY <1>6, InTheBackground DEF Log, LogAdd, LogData, LogQuit, updating
    <2>2. /\ quitWG[a] = One(logger[a] \in {"deaf", "select"})
                         + One(subscriber[a] \in {"run", "told"})
          /\ quitWG[a] \in Nat
          /\ updater[a] \in {"none", "ready"} <=> subscriber[a] = "none"
          /\ updater[a] = "select" <=> subscriber[a] = "run"
      BY DEF Counted, Shapes
    <2>3. CASE LogAdd(a)
      <3>1. /\ logger[a] = "ready" /\ quitWG' = [quitWG EXCEPT ![a] = quitWG[a] + 1]
            /\ \E v \in {"deaf", "select"} : logger' = [logger EXCEPT ![a] = v]
        BY <2>3 DEF LogAdd, Select
      <3>2. logger'[a] \in {"deaf", "select"} /\ quitWG'[a] = quitWG[a] + 1
        BY <3>1 DEF Shapes
      <3>3. quitWG'[a] = One(logger'[a] \in {"deaf", "select"}) + One(subscriber[a] \in {"run", "told"})
        BY SMT, <2>2, <3>1, <3>2 DEF One
      <3>4. \A g \in Gens \ {a} : logger'[g] = logger[g] /\ quitWG'[g] = quitWG[g]
        BY <3>1 DEF Shapes
      <3> QED
        BY SMT, <1>5, <2>1, <2>2, <3>1, <3>2, <3>3, <3>4
    <2>4. CASE LogData(a)
      <3>1. /\ logger[a] \in {"deaf", "select"} /\ quitWG' = quitWG
            /\ \E v \in {"deaf", "select"} : logger' = [logger EXCEPT ![a] = v]
        BY <2>4 DEF LogData, Select, closing
      <3>2. logger'[a] \in {"deaf", "select"}
        BY <3>1 DEF Shapes
      <3>3. quitWG'[a] = One(logger'[a] \in {"deaf", "select"}) + One(subscriber[a] \in {"run", "told"})
        BY <2>2, <3>1, <3>2
      <3>4. \A g \in Gens \ {a} : logger'[g] = logger[g] /\ quitWG'[g] = quitWG[g]
        BY <3>1 DEF Shapes
      <3> QED
        BY <1>5, <2>1, <2>2, <3>1, <3>2, <3>3, <3>4
    <2>5. CASE LogQuit(a)
      <3>1. /\ logger[a] = "select" /\ logger' = [logger EXCEPT ![a] = "ended"]
            /\ quitWG' = [quitWG EXCEPT ![a] = quitWG[a] - 1]
        BY <2>5 DEF LogQuit, Done
      <3>2. logger'[a] = "ended" /\ quitWG'[a] = quitWG[a] - 1
        BY <3>1 DEF Shapes
      <3>3. quitWG'[a] = One(logger'[a] \in {"deaf", "select"}) + One(subscriber[a] \in {"run", "told"})
        BY SMT, <2>2, <3>1, <3>2 DEF One
      <3>4. \A g \in Gens \ {a} : logger'[g] = logger[g] /\ quitWG'[g] = quitWG[g]
        BY <3>1 DEF Shapes
      <3> QED
        BY SMT, <1>5, <2>1, <2>2, <3>1, <3>2, <3>3, <3>4
    <2> QED
      BY <1>6, <2>3, <2>4, <2>5 DEF Log
  <1>7. ASSUME NEW a \in Gens, Update(a)
        PROVE  Counted'
    <2>1. UNCHANGED <<s, h, logger>>
      BY <1>7, InTheBackground DEF Update, UpdaterAdd, UpdaterQuit, SubscribeEventQuit, log
    <2>2. /\ quitWG[a] = One(logger[a] \in {"deaf", "select"})
                         + One(subscriber[a] \in {"run", "told"})
          /\ quitWG[a] \in Nat
          /\ updater[a] \in {"none", "ready"} <=> subscriber[a] = "none"
          /\ updater[a] = "select" <=> subscriber[a] = "run"
      BY DEF Counted, Shapes
    <2>3. CASE UpdaterAdd(a)
      <3>1. /\ updater[a] = "ready" /\ updater' = [updater EXCEPT ![a] = "select"]
            /\ subscriber' = [subscriber EXCEPT ![a] = "run"]
            /\ quitWG' = [quitWG EXCEPT ![a] = quitWG[a] + 1]
        BY <2>3 DEF UpdaterAdd
      <3>2. updater'[a] = "select" /\ subscriber'[a] = "run" /\ quitWG'[a] = quitWG[a] + 1
        BY <3>1 DEF Shapes
      <3>3. quitWG'[a] = One(logger[a] \in {"deaf", "select"}) + One(subscriber'[a] \in {"run", "told"})
        <4>1. One(subscriber[a] \in {"run", "told"}) = 0 /\ One(subscriber'[a] \in {"run", "told"}) = 1
          BY <2>2, <3>1, <3>2 DEF One
        <4>2. One(logger[a] \in {"deaf", "select"}) \in Nat
          BY DEF One
        <4> QED
          BY SMT, <2>2, <3>2, <4>1, <4>2
      <3> QED
        BY <1>5, <2>1, <3>1, <3>2, <3>3 DEF Shapes
    <2>4. CASE UpdaterQuit(a)
      <3>1. /\ updater[a] = "select" /\ updater' = [updater EXCEPT ![a] = "ended"]
            /\ subscriber' = [subscriber EXCEPT ![a] = "told"] /\ quitWG' = quitWG
        BY <2>4 DEF UpdaterQuit, closing
      <3>2. updater'[a] = "ended" /\ subscriber'[a] = "told"
        BY <3>1 DEF Shapes
      <3>3. quitWG'[a] = One(logger[a] \in {"deaf", "select"}) + One(subscriber'[a] \in {"run", "told"})
        BY <2>2, <3>1, <3>2 DEF One
      <3> QED
        BY <1>5, <2>1, <3>1, <3>2, <3>3 DEF Shapes
    <2>5. CASE SubscribeEventQuit(a)
      <3>1. /\ subscriber[a] = "told" /\ subscriber' = [subscriber EXCEPT ![a] = "ended"]
            /\ quitWG' = [quitWG EXCEPT ![a] = quitWG[a] - 1] /\ updater' = updater
        BY <2>5 DEF SubscribeEventQuit, Done
      <3>2. subscriber'[a] = "ended" /\ quitWG'[a] = quitWG[a] - 1
        BY <3>1 DEF Shapes
      <3>3. quitWG'[a] = One(logger[a] \in {"deaf", "select"}) + One(subscriber'[a] \in {"run", "told"})
        BY SMT, <2>2, <3>1, <3>2 DEF One
      <3> QED
        BY <1>5, <2>1, <2>2, <3>1, <3>2, <3>3 DEF Shapes
    <2> QED
      BY <1>7, <2>3, <2>4, <2>5 DEF Update
  <1>8. ASSUME NEW r \in Reqs, NEW g \in Gens, NEW n \in Sockets,
               ListenAndServe(g, n) \/ handleRequest(r, g, n)
        PROVE  Counted'
    BY <1>1, <1>8 DEF ListenAndServe, handleRequest, globals, log, closing, updating
  <1>9. ASSUME NEW r \in Reqs, LogRequest(r)
        PROVE  Counted'
    BY <1>1, <1>9 DEF LogRequest, closing, updating
  <1>10. CASE UNCHANGED vars
    BY <1>1, <1>10 DEF vars, globals, log, closing, updating
  <1>11. ASSUME NEW g \in Gens, NEW n \in Sockets, ListenAndServe(g, n)
         PROVE  Counted'
    BY <1>1, <1>11 DEF ListenAndServe, globals, log, closing, updating
  <1> QED
    BY <1>2, <1>3, <1>4, <1>6, <1>7, <1>8, <1>9, <1>10, <1>11 DEF Next, Start, Stop
-----------------------------------------------------------------------------
\* What a goroutine of generation a does to the wait group of h and to main: nothing
\* much, or it registers, or it is Done and may wake main.
LEMMA OfTheWaitGroup ==
    ASSUME Shapes, Counted, NEW a \in Gens, Log(a) \/ Update(a), h \in Gens
    PROVE  /\ logger'[h] = "ready" => logger[h] = "ready"
           /\ updater'[h] = "ready" => updater[h] = "ready"
           /\ \/ quitWG'[h] = quitWG[h] /\ main' \in {main, "nilMap"}
              \/ /\ quitWG'[h] = quitWG[h] + 1 /\ main' = main
                 /\ logger[h] = "ready" \/ updater[h] = "ready"
              \/ /\ quitWG'[h] = quitWG[h] - 1 /\ quitWG[h] # 0
                 /\ main' = IF main = "blocked" /\ quitWG[h] = 1 THEN "woken" ELSE main
  <1>1. CASE LogAdd(a)
    <2>1. /\ logger[a] = "ready" /\ quitWG' = [quitWG EXCEPT ![a] = quitWG[a] + 1]
          /\ \E v \in {"deaf", "select"} : logger' = [logger EXCEPT ![a] = v]
          /\ UNCHANGED <<main, updater>>
      BY <1>1 DEF LogAdd, Select, globals, updating
    <2> QED
      BY <2>1 DEF Shapes
  <1>2. CASE LogData(a)
    <2>1. /\ quitWG' = quitWG /\ main' \in {main, "nilMap"} /\ updater' = updater
          /\ \E v \in {"deaf", "select"} : logger' = [logger EXCEPT ![a] = v]
      BY <1>2 DEF LogData, Select, closing, updating
    <2> QED
      BY <2>1 DEF Shapes
  <1>3. CASE LogQuit(a)
    <2>1. /\ logger[a] = "select" /\ quitWG' = [quitWG EXCEPT ![a] = quitWG[a] - 1]
          /\ main' = (IF main = "blocked" /\ a = h /\ quitWG[a] = 1 THEN "woken" ELSE main)
          /\ logger' = [logger EXCEPT ![a] = "ended"] /\ updater' = updater
      BY <1>3 DEF LogQuit, Done, updating
    <2>2. quitWG[a] # 0
      BY SMT, <2>1 DEF Counted, One
    <2> QED
      BY <2>1, <2>2 DEF Shapes
  <1>4. CASE UpdaterAdd(a)
    <2>1. /\ updater[a] = "ready" /\ quitWG' = [quitWG EXCEPT ![a] = quitWG[a] + 1]
          /\ updater' = [updater EXCEPT ![a] = "select"]
          /\ UNCHANGED <<main, logger>>
      BY <1>4 DEF UpdaterAdd, globals, log
    <2> QED
      BY <2>1 DEF Shapes
  <1>5. CASE UpdaterQuit(a)
    <2>1. UNCHANGED <<main, logger, quitWG>> /\ updater' = [updater EXCEPT ![a] = "ended"]
      BY <1>5 DEF UpdaterQuit, globals, log, closing
    <2> QED
      BY <2>1 DEF Shapes
  <1>6. CASE SubscribeEventQuit(a)
    <2>1. /\ subscriber[a] = "told" /\ quitWG' = [quitWG EXCEPT ![a] = quitWG[a] - 1]
          /\ main' = (IF main = "blocked" /\ a = h /\ quitWG[a] = 1 THEN "woken" ELSE main)
          /\ UNCHANGED <<logger, updater>>
      BY <1>6 DEF SubscribeEventQuit, Done, log
    <2>2. quitWG[a] # 0
      BY SMT, <2>1 DEF Counted, One
    <2> QED
      BY <2>1, <2>2 DEF Shapes
  <1> QED
    BY <1>1, <1>2, <1>3, <1>4, <1>5, <1>6 DEF Log, Update

\* Wait wakes up to a count of zero, unless it had missed a goroutine.
LEMMA StepRegistered ==
    ASSUME Globals, Shapes, Counted, Registered, [Next]_vars
    PROVE  Registered'
  <1>1. ASSUME UNCHANGED <<main, h, quitWG, logger, updater, missed>>
        PROVE  Registered'
    BY <1>1 DEF Registered
  <1>2. ASSUME main' \notin {"blocked", "woken", "reused"}
        PROVE  Registered'
    BY <1>2 DEF Registered
  <1>3. CASE Start \/ Signal \/ Shutdown \/ CloseLog \/ CloseQuit
    BY <1>2, <1>3 DEF Start, NewServer, MakeQuit, NewHandler, GoListeners, Signal, Shutdown, StopServers,
                      CloseLog, CloseQuit, Go
  <1>4. CASE Wait
    BY <1>4 DEF Wait, Returned, Go, Registered, closing, log, updating
  <1>5. CASE WaitReturns
    BY <1>5 DEF WaitReturns, Returned, Go, Registered, closing, log, updating
  <1>6. ASSUME NEW a \in Gens, Log(a) \/ Update(a)
        PROVE  Registered'
    <2>1. CASE main \in {"blocked", "woken"}
      <3>1. h \in Gens /\ h' = h /\ missed' = missed
        BY <1>6, <2>1, InTheBackground DEF Globals, Current, history
      <3>2. quitWG[h] \in Nat
        BY <3>1 DEF Shapes
      <3>3. CASE quitWG'[h] = quitWG[h] /\ main' \in {main, "nilMap"}
        BY <1>6, <2>1, <3>1, <3>3, OfTheWaitGroup DEF Registered
      <3>4. CASE /\ quitWG'[h] = quitWG[h] + 1 /\ main' = main
                 /\ logger[h] = "ready" \/ updater[h] = "ready"
        <4>1. missed
          BY <2>1, <3>4 DEF Registered
        <4>2. quitWG'[h] # 0
          BY SMT, <3>2, <3>4
        <4> QED
          BY <2>1, <3>1, <3>4, <4>1, <4>2 DEF Registered
      <3>5. CASE /\ quitWG'[h] = quitWG[h] - 1 /\ quitWG[h] # 0
                 /\ main' = IF main = "blocked" /\ quitWG[h] = 1 THEN "woken" ELSE main
        <4>1. quitWG[h] = 1 => quitWG'[h] = 0
          BY SMT, <3>5
        <4>2. quitWG[h] # 1 => quitWG'[h] # 0
          BY SMT, <3>2, <3>5
        <4>3. /\ logger'[h] = "ready" => logger[h] = "ready"
              /\ updater'[h] = "ready" => updater[h] = "ready"
          BY <1>6, <3>1, OfTheWaitGroup
        <4>4. CASE main = "blocked"
          BY <3>1, <3>5, <4>1, <4>2, <4>3, <4>4 DEF Registered
        <4>5. CASE main = "woken"
          BY <3>1, <3>5, <4>5 DEF Registered
        <4> QED
          BY <2>1, <4>4, <4>5
      <3> QED
        BY <1>6, <3>1, <3>3, <3>4, <3>5, OfTheWaitGroup
    <2>2. CASE main \notin {"blocked", "woken"}
      BY <1>2, <1>6, <2>2, InTheBackground DEF Alive, Panics
    <2> QED
      BY <2>1, <2>2
  <1>7. ASSUME NEW g \in Gens, NEW n \in Sockets, ListenAndServe(g, n)
        PROVE  Registered'
    BY <1>1, <1>2, <1>7 DEF ListenAndServe, log, closing, updating, history
  <1>8. ASSUME NEW r \in Reqs, NEW g \in Gens, NEW n \in Sockets, handleRequest(r, g, n)
        PROVE  Registered'
    BY <1>1, <1>8 DEF handleRequest, globals, log, closing, updating, history
  <1>9. ASSUME NEW r \in Reqs, LogRequest(r)
        PROVE  Registered'
    BY <1>1, <1>2, <1>9 DEF LogRequest, closing, updating, history
  <1>10. CASE UNCHANGED vars
    BY <1>1, <1>10 DEF vars, globals, log, closing, updating, history
  <1> QED
    BY <1>3, <1>4, <1>5, <1>6, <1>7, <1>8, <1>9, <1>10 DEF Next, Stop

\* A nil map comes out of a closed queue.
LEMMA StepEmptied ==
    ASSUME Emptied, [Next]_vars
    PROVE  Emptied'
  <1>1. ASSUME NEW g \in Gens, LogData(g)
        PROVE  Emptied'
    BY <1>1 DEF LogData, Emptied, Alive, Panics
  <1>2. ASSUME NEW g \in Gens, LogAdd(g) \/ LogQuit(g) \/ Update(g)
        PROVE  main' # "nilMap"
    BY <1>2 DEF LogAdd, LogQuit, Done, Update, UpdaterAdd, UpdaterQuit, SubscribeEventQuit, globals,
                Alive, Panics
  <1>3. CASE Start \/ Signal \/ Stop
    BY <1>3 DEF Start, Stop, NewServer, MakeQuit, NewHandler, GoListeners, Signal, Shutdown, StopServers,
                CloseLog, CloseQuit, Wait, WaitReturns, Returned, Go, Emptied
  <1>4. ASSUME NEW g \in Gens, NEW n \in Sockets, ListenAndServe(g, n)
        PROVE  main' # "nilMap"
    BY <1>4 DEF ListenAndServe, Alive, Panics
  <1>5. ASSUME NEW r \in Reqs, LogRequest(r) \/ \E g \in Gens, n \in Sockets : handleRequest(r, g, n)
        PROVE  main' # "nilMap"
    BY <1>5 DEF LogRequest, handleRequest, globals, Alive, Panics
  <1>6. CASE UNCHANGED vars
    BY <1>6 DEF vars, globals, log, Emptied
  <1> QED
    BY <1>1, <1>2, <1>3, <1>4, <1>5, <1>6 DEF Next, Log, Emptied
-----------------------------------------------------------------------------
(* What is left of TypeOK: LogRequest never overfills the queue *)

Mains == {"config", "quit", "updater", "listen", "idle",
          "shutdown", "closeLog", "closeQuit", "wait", "blocked", "woken", "exit"} \cup Panics
Rest ==
    /\ main \in Mains /\ restart \in BOOLEAN
    /\ queued \in [Gens -> 0 .. Capacity]
    /\ quit \in [Gens -> {"nil", "open", "closed"}]
    /\ by \in [Reqs -> 0 .. MaxStarts]

LEMMA StepRest ==
    ASSUME Globals, Rest, [Next]_vars
    PROVE  Rest'
  <1>0. /\ Capacity \in Nat /\ MaxStarts \in Nat \ {0} /\ Gens = 1 .. MaxStarts
        /\ h \in 0 .. MaxStarts /\ 0 \in 0 .. MaxStarts
    BY SMT, StartsAssumption, CapacityAssumption DEF Gens, Globals
  <1>1. CASE Start
    BY <1>1 DEF Start, NewServer, MakeQuit, NewHandler, GoListeners, Go, closing, requests, log, Rest, Mains
  <1>2. CASE Signal
    BY <1>2 DEF Signal, Go, closing, requests, log, Rest, Mains
  <1>3. CASE Shutdown
    BY <1>3 DEF Shutdown, StopServers, closing, requests, log, Rest, Mains
  <1>4. CASE CloseLog \/ CloseQuit \/ Wait \/ WaitReturns
    BY <1>4 DEF CloseLog, CloseQuit, Wait, WaitReturns, Returned, Go, closing, requests, log, Rest,
                Mains, Panics
  <1>5. ASSUME NEW g \in Gens, LogData(g)
        PROVE  Rest'
    <2>1. UNCHANGED <<restart, quit, by>> /\ main' \in {main, "nilMap"}
      BY <1>5 DEF LogData, closing, requests
    <2>2. /\ queued[g] \in 0 .. Capacity
          /\ \/ queued' = queued
             \/ queued[g] > 0 /\ queued' = [queued EXCEPT ![g] = queued[g] - 1]
      BY <1>5 DEF LogData, Rest
    <2>3. queued[g] > 0 => queued[g] - 1 \in 0 .. Capacity
      BY SMT, <1>0, <2>2
    <2> QED
      BY <2>1, <2>2, <2>3 DEF Rest, Mains, Panics
  <1>6. ASSUME UNCHANGED <<queued, quit, by, restart>>, Nudged
        PROVE  Rest'
    BY <1>6 DEF Rest, Mains, Nudged
  <1>7. ASSUME NEW g \in Gens, LogAdd(g) \/ LogQuit(g) \/ Update(g)
        PROVE  Rest'
    <2>1. UNCHANGED <<queued, quit, by, restart>>
      BY <1>7 DEF LogAdd, LogQuit, Update, UpdaterAdd, UpdaterQuit, SubscribeEventQuit,
                  globals, closing, requests, log
    <2>2. Nudged
      BY <1>7, InTheBackground DEF Log, Nudged, Panics
    <2> QED
      BY <1>6, <2>1, <2>2
  <1>8. ASSUME NEW g \in Gens, NEW n \in Sockets, ListenAndServe(g, n)
        PROVE  Rest'
    BY <1>6, <1>8 DEF ListenAndServe, closing, requests, log, Nudged, Panics
  <1>9. ASSUME NEW r \in Reqs, NEW g \in Gens, NEW n \in Sockets, handleRequest(r, g, n)
        PROVE  Rest'
    <2>1. UNCHANGED <<main, restart, queued, quit>> /\ by' = [by EXCEPT ![r] = h]
      BY <1>9 DEF handleRequest, globals, log, closing
    <2> QED
      BY <1>0, <2>1 DEF Rest
  <1>10. ASSUME NEW r \in Reqs, LogRequest(r)
         PROVE  Rest'
    <2>1. UNCHANGED <<restart, quit>> /\ main' \in {main, "closedQueue"} /\ by' \in {by, [by EXCEPT ![r] = 0]}
      BY <1>10 DEF LogRequest, closing, requests
    <2>2. \/ queued' = queued
          \/ queued[by[r]] < Capacity /\ queued' = [queued EXCEPT ![by[r]] = queued[by[r]] + 1]
      BY <1>10 DEF LogRequest
    <2>3. queued' \in [Gens -> 0 .. Capacity]
      <3>1. CASE by[r] \in Gens
        <4>1. PICK g \in Gens : g = by[r]
          BY <3>1
        <4>2. queued[g] \in 0 .. Capacity
          BY <4>1 DEF Rest
        <4>3. queued[g] < Capacity => queued[g] + 1 \in 0 .. Capacity
          BY SMT, <1>0, <4>2
        <4> QED
          BY <2>2, <4>1, <4>3 DEF Rest
      <3>2. CASE by[r] \notin Gens
        BY <2>2, <3>2 DEF Rest
      <3> QED
        BY <3>1, <3>2
    <2> QED
      BY <1>0, <2>1, <2>3 DEF Rest, Mains, Panics
  <1>11. CASE UNCHANGED vars
    BY <1>6, <1>11 DEF vars, globals, log, closing, requests, Nudged
  <1> QED
    BY <1>1, <1>2, <1>3, <1>4, <1>5, <1>7, <1>8, <1>9, <1>10, <1>11 DEF Next, Stop, Log
-----------------------------------------------------------------------------
\* Before the first Start nothing runs.
LEMMA InitIInv == Init => IInv /\ Rest
  <1> SUFFICES ASSUME Init
               PROVE  IInv /\ Rest
    OBVIOUS
  <1>0. Gens = 1 .. MaxStarts /\ MaxStarts \in Nat \ {0} /\ Capacity \in Nat
    BY StartsAssumption, CapacityAssumption DEF Gens
  <1>1. Globals
    BY SMT, <1>0 DEF Init, Globals, Current
  <1>2. Shapes
    BY DEF Init, Shapes, ServerStates, ListenerStates
  <1>3. Fresh
    BY DEF Init, Fresh
  <1>4. Queues
    BY DEF Init, Queues, Serving
  <1>5. InOrder /\ Registered /\ Emptied
    BY DEF Init, InOrder, Orderly, Ready, Served, Unopened, Handled, LateEnds, Registered, Emptied
  <1>6. Counted
    BY SMT, <1>0 DEF Init, Counted, One
  <1>7. Rest
    <2>1. main \in Mains /\ restart \in BOOLEAN /\ quit \in [Gens -> {"nil", "open", "closed"}]
      BY DEF Init, Mains
    <2>2. queued \in [Gens -> 0 .. Capacity]
      BY SMT, <1>0 DEF Init
    <2>3. by \in [Reqs -> 0 .. MaxStarts]
      BY SMT, <1>0 DEF Init
    <2> QED
      BY <2>1, <2>2, <2>3 DEF Rest
  <1> QED
    BY <1>1, <1>2, <1>3, <1>4, <1>5, <1>6, <1>7 DEF IInv

\* The invariant is inductive.
LEMMA StepIInv ==
    ASSUME IInv, Rest, [Next]_vars
    PROVE  IInv' /\ Rest'
  BY StepGlobals, StepShapes, StepFresh, StepQueues, StepOrderly, StepCounted, StepRegistered, StepEmptied,
     StepRest DEF IInv

\* Every reachable state of Start, Stop, the servers and the requests satisfies
\* the invariant.
THEOREM Invariance == Spec => [](IInv /\ Rest)
  BY InitIInv, StepIInv, PTL DEF Spec

\* Types, and the log queue never holds more than its capacity (LogRequest).
THEOREM TypeCorrect == Spec => []TypeOK
  <1>1. IInv /\ Rest => TypeOK
    <2> SUFFICES ASSUME IInv, Rest
                 PROVE  TypeOK
      OBVIOUS
    <2>1. quitWG \in [Gens -> 0 .. 2]
      <3>1. \A g \in Gens : quitWG[g] \in 0 .. 2
        BY SMT DEF IInv, Counted, One
      <3> QED
        BY <3>1 DEF IInv, Shapes
    <2>2. s \in 0 .. MaxStarts /\ h \in 0 .. MaxStarts
      BY SMT, StartsAssumption DEF IInv, Globals, Gens
    <2>3. i \in Nat /\ size \in Sizes \cup {0}
      BY DEF IInv, Globals
    <2> QED
      BY <2>1, <2>2, <2>3 DEF IInv, Shapes, ServerStates, ListenerStates, Rest, Mains, TypeOK
  <1> QED
    BY <1>1, Invariance, PTL

\* No request sends on the closed log queue and no listener goroutine indexes s
\* beyond its end, unless a signal overtook a listener goroutine; the wait group is
\* not reused, unless Wait began before a goroutine had come to its Add; and a nil
\* map is only formatted after ShutDown (Start, Stop, ShutDown, LogRequest).
THEOREM PanicsHaveACause == Spec => []PanicHasACause
  <1>1. IInv => PanicHasACause
    BY DEF IInv, InOrder, LateEnds, Registered, Emptied, PanicHasACause
  <1> QED
    BY <1>1, Invariance, PTL

\* After Stop no server of an earlier Start takes requests (Stop, Shutdown).
THEOREM OldServersStop == Spec => []OldServersAreDown
  <1>1. IInv => OldServersAreDown
    BY DEF IInv, InOrder, Orderly, Served, Within, Serving, Alive, Panics, OldServersAreDown
  <1> QED
    BY <1>1, Invariance, PTL

\* ShutDown returns only when the goroutines of its wait group have ended.
THEOREM ShutDownIsComplete == Spec => ShutDownWaits
  <1>1. ASSUME IInv, [Next]_vars, main' \in {"config", "exit"}, main' # main
        PROVE  /\ logger[h] \in {"ready", "ended"}
               /\ updater[h] = "ready" \/ subscriber[h] = "ended"
    <2>1. Wait \/ WaitReturns
      BY <1>1, InTheBackground
         DEF Next, Start, Stop, NewServer, MakeQuit, NewHandler, GoListeners, Signal, Shutdown, StopServers,
             CloseLog, CloseQuit, Go, ListenAndServe, handleRequest, LogRequest, vars, globals
    <2>2. h \in Gens /\ h = s /\ h <= s /\ h <= h
      BY <1>1, <2>1 DEF IInv, Globals, Current, Wait, WaitReturns, Go
    <2>3. quitWG[h] = 0
      BY <1>1, <2>1 DEF Wait, WaitReturns, Go
    <2>4. logger[h] \notin {"deaf", "select"} /\ subscriber[h] \notin {"run", "told"}
      BY SMT, <1>1, <2>2, <2>3 DEF IInv, Counted, One
    <2>5. logger[h] # "none" /\ updater[h] # "none"
      BY <1>1, <2>2 DEF IInv, Counted
    <2>6. updater[h] \in {"none", "ready"} <=> subscriber[h] = "none"
      BY <1>1, <2>2 DEF IInv, Counted
    <2> QED
      BY <1>1, <2>2, <2>4, <2>5, <2>6 DEF IInv, Shapes
  <1>2. IInv /\ [Next]_vars =>
          [main' \in {"config", "exit"} /\ main' # main =>
             /\ logger[h] \in {"ready", "ended"}
             /\ updater[h] = "ready" \/ subscriber[h] = "ended"]_vars
    BY <1>1
  <1> QED
    BY <1>2, Invariance, PTL DEF Spec, ShutDownWaits
-----------------------------------------------------------------------------
\* ShutDown closes the log queue before it closes h.quit, and waits after both.
Closed ==
    /\ \A g \in Gens : quit[g] = "closed" => logQueue[g] = "closed"
    /\ main \in {"closeQuit", "wait", "blocked", "woken"} => logQueue[h] = "closed"
    /\ main \in {"wait", "blocked", "woken"} => quit[h] = "closed"

\* Nobody waits for an event that has gone by.  When h.quit is closed, the log
\* goroutine that took it for nil has the closed queue to wake it, and the
\* subscription has the updater to tell it; and while Stop waits for the wait
\* group, one of the goroutines counted there has something to do.
NobodyIsStranded ==
    /\ \A g \in Gens : quit[g] = "closed" =>
        /\ logger[g] = "deaf" => logQueue[g] = "closed"
        /\ subscriber[g] = "run" => updater[g] = "select"
    /\ main = "blocked" =>
        /\ quit[h] = "closed" /\ logQueue[h] = "closed"
        /\ \/ logger[h] \in {"deaf", "select"}
           \/ updater[h] = "select" \/ subscriber[h] = "told"

\* Closed is inductive relative to the invariant.
LEMMA StepClosed ==
    ASSUME IInv, Rest, Closed, [Next]_vars
    PROVE  Closed'
  <1>0. /\ logQueue \in [Gens -> {"open", "closed"}] /\ quit \in [Gens -> {"nil", "open", "closed"}]
        /\ main \in Current => h = s /\ h \in Gens
    BY DEF IInv, Shapes, Rest, Globals
  <1>a. ASSUME UNCHANGED <<quit, logQueue>>, main' \notin {"closeQuit", "wait", "blocked", "woken"}
        PROVE  Closed'
    BY <1>a DEF Closed
  <1>b. ASSUME UNCHANGED <<quit, logQueue, h>>, Nudged
        PROVE  Closed'
    BY <1>b DEF Closed, Nudged, Panics
  <1>1. CASE NewServer \/ NewHandler \/ GoListeners \/ Signal \/ Shutdown \/ WaitReturns
    BY <1>1, <1>a DEF NewServer, NewHandler, GoListeners, Signal, Shutdown, StopServers, WaitReturns,
                      Returned, Go, log, closing
  <1>1a. CASE Wait
    BY <1>1a DEF Wait, Returned, Go, log, closing, Closed
  <1>2. CASE MakeQuit
    BY <1>2, <1>0 DEF MakeQuit, Go, Closed, log
  <1>3. CASE CloseLog
    <2>1. /\ main = "closeLog" /\ main' = "closeQuit" /\ h' = h /\ quit' = quit
          /\ logQueue' = [logQueue EXCEPT ![h] = "closed"]
      BY <1>3 DEF CloseLog, Go, closing
    <2>2. logQueue'[h] = "closed" /\ \A g \in Gens : logQueue[g] = "closed" => logQueue'[g] = "closed"
      BY <1>0, <2>1 DEF Current
    <2> QED
      BY <2>1, <2>2 DEF Closed
  <1>4. CASE CloseQuit
    <2>1. /\ main = "closeQuit" /\ main' = "wait" /\ h' = h /\ logQueue' = logQueue
          /\ quit' = [quit EXCEPT ![h] = "closed"]
      BY <1>4 DEF CloseQuit, Go, log
    <2>2. quit'[h] = "closed" /\ \A g \in Gens : g # h => quit'[g] = quit[g]
      BY <1>0, <2>1 DEF Current
    <2> QED
      BY <2>1, <2>2 DEF Closed
  <1>5. ASSUME NEW g \in Gens, Log(g) \/ Update(g)
        PROVE  Closed'
    <2>1. quit' = quit
      BY <1>5 DEF Log, LogAdd, LogData, LogQuit, Update, UpdaterAdd, UpdaterQuit,
                  SubscribeEventQuit, closing
    <2> QED
      BY <1>5, <1>b, <2>1, InTheBackground DEF Nudged, Panics
  <1>6. ASSUME NEW g \in Gens, NEW n \in Sockets, ListenAndServe(g, n)
        PROVE  Closed'
    BY <1>6, <1>b DEF ListenAndServe, log, closing, Nudged, Panics
  <1>7. ASSUME NEW r \in Reqs, NEW g \in Gens, NEW n \in Sockets, handleRequest(r, g, n)
        PROVE  Closed'
    BY <1>7, <1>b DEF handleRequest, globals, log, closing, Nudged
  <1>8. ASSUME NEW r \in Reqs, LogRequest(r)
        PROVE  Closed'
    BY <1>8, <1>b DEF LogRequest, closing, Nudged, Panics
  <1>9. CASE UNCHANGED vars
    BY <1>9, <1>b DEF vars, globals, log, closing, Nudged
  <1> QED
    BY <1>1, <1>1a, <1>2, <1>3, <1>4, <1>5, <1>6, <1>7, <1>8, <1>9 DEF Next, Start, Stop

\* Stop is never left waiting for a goroutine that nothing will wake, whatever
\* h.quit was when the log goroutine came to its select (ShutDown, NewHandler).
THEOREM NobodyIsStrandedHolds == Spec => []NobodyIsStranded
  <1>1. Init => Closed
    BY DEF Init, Closed
  <1>2. IInv /\ Rest /\ Closed => NobodyIsStranded
    <2> SUFFICES ASSUME IInv, Rest, Closed
                 PROVE  NobodyIsStranded
      OBVIOUS
    <2>1. \A g \in Gens : updater[g] = "select" <=> subscriber[g] = "run"
      BY DEF IInv, Counted
    <2>2. ASSUME main = "blocked"
          PROVE  \/ logger[h] \in {"deaf", "select"}
                 \/ updater[h] = "select" \/ subscriber[h] = "told"
      <3>1. h \in Gens
        BY <2>2 DEF IInv, Globals, Current
      <3>2. logger[h] \in {"deaf", "select"} \/ subscriber[h] \in {"run", "told"}
        BY SMT, <2>2, <3>1 DEF IInv, Counted, One, Registered
      <3> QED
        BY <2>1, <3>1, <3>2
    <2> QED
      BY <2>1, <2>2 DEF Closed, NobodyIsStranded
  <1> QED
    BY <1>1, <1>2, Invariance, StepClosed, PTL DEF Spec
=============================================================================
