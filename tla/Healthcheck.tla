---------------------------- MODULE Healthcheck ----------------------------
(***************************************************************************)
(* The health checker (src/handler/healthcheck.go) for one host:ip key:    *)
(* Transfer copies the health_check configuration of the record into an    *)
(* item of the status redis, Start queues the item when a check is due,    *)
(* the workers check and store it, and getStatus serves requests from a    *)
(* cache.  Each of them reads an item, keeps its own copy, and writes the  *)
(* whole item back later; nothing orders them.                             *)
(*                                                                         *)
(* A configuration is [up, down, uri], uri standing for the uri, port,     *)
(* protocol and timeout too; an item is [conf, status, due], due meaning   *)
(* that LastCheck is older than the check interval.                        *)
(***************************************************************************)
EXTENDS Integers, Sequences

CONSTANTS
    Workers,       \* max_requests of them
    Configs,       \* the configurations the record may have
    Outcomes,      \* results a check may have: a subset of BOOLEAN, TRUE for err = nil
    MaxPending,    \* max_pending_requests
    MaxWrites,     \* bound on changes of the record
    MaxStreak,     \* the history variable streak counts up to here
    Readers,       \* goroutines that serve requests
    Late,          \* may Transfer take longer than update_interval to come round?
    Overlap,       \* may a check still be outstanding when the next one is due?
    Fails,         \* may redis fail?
    Stops,         \* is ShutDown called?
    Nil,
    Off,           \* the record exists, its health check is disabled
    NoRecord       \* redis holds no location at all

Abs(n) == IF n < 0 THEN -n ELSE n
Config == [up: Nat, down: Int, uri: BOOLEAN]

ASSUME ConfigAssumption == Configs \subseteq Config
ASSUME SwitchAssumption == /\ {Late, Overlap, Fails, Stops} \subseteq BOOLEAN
                           /\ Outcomes \subseteq BOOLEAN
ASSUME BoundAssumption == MaxPending \in Nat /\ MaxWrites \in Nat /\ MaxStreak \in Nat
ASSUME NilAssumption == /\ Nil \notin [conf: Config, status: Int, due: BOOLEAN] \cup Int
                        /\ {Nil, Off, NoRecord} \cap Config = {}

VARIABLES
    record,        \* health_check of the location in the config redis
    writes,        \* number of its changes
    item, ttl,     \* the key in the status redis; does it expire?
    tpc, newConf, oldItem,         \* Transfer
    spc, listed,                   \* Start and its itemKeys
    queue, job,                    \* the dispatcher and its workers
    cached,                        \* the status in cachedItems
    fetched,                       \* what getStatus has loaded and not yet cached
    quit,
    streak         \* history: length of the current run of equal stored results, < 0 for failures

redis    == <<item, ttl>>
transfer == <<tpc, newConf, oldItem>>
start    == <<spc, listed>>
pool     == <<queue, job>>
requests == <<cached, fetched>>
vars == <<record, writes, redis, transfer, start, pool, requests, quit, streak>>

\* An item's status stays between its configured counts, down_count taken as
\* negative; only the first result after a change of sign may exceed a count of 0.
Item == {i \in [conf: Config, status: Int, due: BOOLEAN] :
            /\ -Abs(i.conf.down) <= i.status \/ i.status = -1
            /\ i.status <= i.conf.up \/ i.status = 1}

\* Types; in particular no copy of an item, in redis, in the queue or with a
\* worker, has a status beyond its own up_count and down_count (statusUp, statusDown).
TypeOK ==
    /\ record \in Configs \cup {Off, NoRecord} /\ writes \in 0 .. MaxWrites
    /\ item \in Item \cup {Nil} /\ ttl \in BOOLEAN
    /\ tpc \in {"record", "load", "store", "expire", "done"}
    /\ newConf \in Configs \cup {Nil} /\ oldItem \in Item \cup {Nil}
    /\ spc \in {"keys", "wait", "done"} /\ listed \in BOOLEAN
    /\ queue \in Seq(Item) /\ Len(queue) <= MaxPending
    /\ job \in [Workers -> Item \cup {Nil}]
    /\ cached \in Int \cup {Nil} /\ fetched \in [Readers -> Int \cup {Nil}]
    /\ quit \in BOOLEAN
    /\ streak \in -MaxStreak .. MaxStreak

-----------------------------------------------------------------------------
\* loadItem: down_count is made negative.  A missing key and an error are both nil.
loadItem == IF item = Nil THEN Nil ELSE [item EXCEPT !.conf.down = -Abs(@)]

statusUp(i) ==
    [i EXCEPT !.status = IF @ < 0 THEN 1 ELSE IF @ < i.conf.up THEN @ + 1 ELSE i.conf.up]
statusDown(i) ==
    [i EXCEPT !.status = IF @ > 0 THEN -1 ELSE IF @ > i.conf.down THEN @ - 1 ELSE i.conf.down]

\* storeItem: a SET, which also takes away the key's expiry.
storeItem(i) == item' = i /\ ttl' = FALSE

-----------------------------------------------------------------------------
\* The owner of the zone edits the record.
WriteRecord ==
    /\ writes < MaxWrites /\ writes' = writes + 1
    /\ record' \in (Configs \cup {Off}) \ {record}
    /\ UNCHANGED <<redis, transfer, start, pool, requests, quit, streak>>

\* Transfer reaches the location: the select is the only place where it looks
\* at quit, and it is reached only if there is a location.
TransferQuit ==
    /\ tpc = "record" /\ record # NoRecord /\ quit
    /\ tpc' = "done"
    /\ UNCHANGED <<record, writes, redis, newConf, oldItem, start, pool, requests, quit, streak>>

\* HGet and parse the record; one that is disabled or does not load is skipped.
TransferRecord ==
    /\ tpc = "record" /\ record \in Configs
    /\ tpc' = "load" /\ newConf' = record
    /\ UNCHANGED <<record, writes, redis, oldItem, start, pool, requests, quit, streak>>

TransferLoad ==
    /\ tpc = "load" /\ tpc' = "store"
    /\ oldItem' = loadItem \/ (Fails /\ oldItem' = Nil)
    /\ UNCHANGED <<record, writes, redis, newConf, start, pool, requests, quit, streak>>

\* Store a new item over one with another configuration, if the SET succeeds.
TransferStoreIf(itemsEqual) ==
    /\ tpc = "store" /\ tpc' = "expire"
    /\ \/ ~itemsEqual /\ storeItem([conf |-> newConf, status |-> 0, due |-> TRUE])
       \/ (itemsEqual \/ Fails) /\ UNCHANGED redis
    /\ oldItem' = Nil
    /\ UNCHANGED <<record, writes, newConf, start, pool, requests, quit, streak>>

\* Faulty variants of TransferStore: an item that exists is taken to be up to
\* date; every item is taken to be out of date.
TransferStoreExisting == TransferStoreIf(oldItem # Nil)
TransferStoreAlways == TransferStoreIf(FALSE)

TransferStore == TransferStoreIf(oldItem # Nil /\ oldItem.conf = newConf)

TransferExpire ==
    /\ tpc = "expire" /\ tpc' = "record" /\ newConf' = Nil
    /\ ttl' = (ttl \/ item # Nil) \/ (Fails /\ ttl' = ttl)
    /\ UNCHANGED <<record, writes, item, oldItem, start, pool, requests, quit, streak>>

\* The key expires, unless the item's record is enabled and Transfer, on time,
\* has renewed the expiry.
KeyExpires ==
    /\ item # Nil /\ ttl
    /\ Late \/ tpc = "done" \/ (record \notin Configs /\ tpc = "record")
    /\ item' = Nil /\ ttl' = FALSE
    /\ UNCHANGED <<record, writes, transfer, start, pool, requests, quit, streak>>

-----------------------------------------------------------------------------
Outstanding == queue # <<>> \/ \E w \in Workers : job[w] # Nil

\* Start lists the keys, then waits for the ticker or for quit.
StartKeys ==
    /\ spc = "keys" /\ spc' = "wait"
    /\ listed' = (item # Nil) \/ (Fails /\ listed' = FALSE)
    /\ UNCHANGED <<record, writes, redis, transfer, pool, requests, quit, streak>>

StartQuit ==
    /\ spc = "wait" /\ quit
    /\ spc' = "done"
    /\ UNCHANGED <<record, writes, redis, transfer, listed, pool, requests, quit, streak>>

\* A tick: load the item if it was listed, and queue it if a check is due.  Queue
\* waits for room in the dispatcher.
StartTick ==
    /\ spc = "wait" /\ spc' = "keys" /\ listed' = FALSE
    /\ LET due == listed /\ item # Nil /\ item.due
       IN  \/ /\ due
              /\ Len(queue) < MaxPending
              /\ Overlap \/ ~Outstanding
              /\ queue' = Append(queue, loadItem)
           \/ /\ ~due \/ Fails
              /\ UNCHANGED queue
    /\ UNCHANGED <<record, writes, redis, transfer, job, requests, quit, streak>>

\* The check interval has passed since the last check.
CheckIsDue ==
    /\ item # Nil /\ ~item.due
    /\ item' = [item EXCEPT !.due = TRUE]
    /\ UNCHANGED <<record, writes, ttl, transfer, start, pool, requests, quit, streak>>

\* The dispatcher hands a job to a worker, until ShutDown stops it.
Take(w) ==
    /\ ~quit /\ job[w] = Nil /\ queue # <<>>
    /\ job' = [job EXCEPT ![w] = Head(queue)] /\ queue' = Tail(queue)
    /\ UNCHANGED <<record, writes, redis, transfer, start, requests, quit, streak>>

Extended(ok) == IF ok THEN (IF streak < 0 THEN 1 ELSE IF streak < MaxStreak THEN streak + 1 ELSE streak)
                ELSE (IF streak > 0 THEN -1 ELSE IF streak > -MaxStreak THEN streak - 1 ELSE streak)

\* HandleHealthCheck: check the worker's copy, count the result, store the copy.
CheckWith(w, ok, i) ==
    /\ job[w] # Nil
    /\ job' = [job EXCEPT ![w] = Nil]
    /\ \/ storeItem([i EXCEPT !.due = FALSE]) /\ streak' = Extended(ok)
       \/ Fails /\ UNCHANGED <<redis, streak>>
    /\ UNCHANGED <<record, writes, transfer, start, queue, requests, quit>>

\* Faulty variant of HandleHealthCheck: a failure from a positive status is
\* counted as a success.
HandleHealthCheckSwapped(w, ok) ==
    CheckWith(w, ok, IF ok \/ job[w].status > 0 THEN statusUp(job[w]) ELSE statusDown(job[w]))

HandleHealthCheck(w, ok) ==
    CheckWith(w, ok, IF ok THEN statusUp(job[w]) ELSE statusDown(job[w]))

-----------------------------------------------------------------------------
\* getStatus answers a hit from the cache.  A miss loads the item, and caches
\* its status later, 0 for nothing.
GetStatusMiss(r) ==
    /\ cached = Nil /\ fetched[r] = Nil
    /\ \E n \in {IF item = Nil THEN 0 ELSE item.status} \cup {m \in {0} : Fails} :
            fetched' = [fetched EXCEPT ![r] = n]
    /\ UNCHANGED <<record, writes, redis, transfer, start, pool, cached, quit, streak>>

\* Faulty variant of GetStatusSet: the status that was loaded is cached again and
\* again.
GetStatusSetAgain(r) ==
    /\ fetched[r] # Nil
    /\ cached' = fetched[r]
    /\ UNCHANGED <<record, writes, redis, transfer, start, pool, fetched, quit, streak>>

GetStatusSet(r) ==
    /\ fetched[r] # Nil
    /\ cached' = fetched[r] /\ fetched' = [fetched EXCEPT ![r] = Nil]
    /\ UNCHANGED <<record, writes, redis, transfer, start, pool, quit, streak>>

\* The cached entry expires update_interval after it was set.
CacheExpires ==
    /\ cached # Nil
    /\ cached' = Nil
    /\ UNCHANGED <<record, writes, redis, transfer, start, pool, fetched, quit, streak>>

ShutDown ==
    /\ Stops /\ ~quit
    /\ quit' = TRUE
    /\ UNCHANGED <<record, writes, redis, transfer, start, pool, requests, streak>>

Transfer == TransferRecord \/ TransferLoad \/ TransferStore \/ TransferExpire
Start == StartKeys \/ StartTick
Check(w) == Take(w) \/ \E ok \in Outcomes : HandleHealthCheck(w, ok)

Init ==
    /\ record \in Configs \cup {Off, NoRecord} /\ writes = 0
    /\ item = Nil /\ ttl = FALSE
    /\ tpc = "record" /\ newConf = Nil /\ oldItem = Nil
    /\ spc = "keys" /\ listed = FALSE
    /\ queue = <<>> /\ job = [w \in Workers |-> Nil]
    /\ cached = Nil /\ fetched = [r \in Readers |-> Nil] /\ quit = FALSE /\ streak = 0

Next == \/ WriteRecord \/ KeyExpires \/ CheckIsDue
        \/ Transfer \/ TransferQuit
        \/ Start \/ StartQuit
        \/ \E w \in Workers : Check(w)
        \/ \E r \in Readers : GetStatusMiss(r) \/ GetStatusSet(r)
        \/ CacheExpires
        \/ ShutDown

Spec == Init /\ [][Next]_vars

\* Time passes and every goroutine runs; a select that is ready again and again
\* for quit, and for a timer too, takes quit in the end (Go picks at random).
FairSpec ==
    /\ Spec
    /\ WF_vars(KeyExpires) /\ WF_vars(CheckIsDue) /\ WF_vars(CacheExpires)
    /\ \A r \in Readers : WF_vars(GetStatusSet(r))
    /\ WF_vars(Transfer) /\ WF_vars(Start)
    /\ SF_vars(TransferQuit) /\ SF_vars(StartQuit)
    /\ \A w \in Workers : WF_vars(Check(w))

-----------------------------------------------------------------------------
\* The status is earned: an item's status n > 0 (n < 0) means that the last |n|
\* stored results were successes (failures), whatever Transfer, an expiry or a
\* failing redis does to the item in between, as long as a check is over before
\* the next one is due (HandleHealthCheck counts on from the copy Start took).
StatusIsEarned ==
    item # Nil => /\ item.status > 0 => streak >= item.status
                  /\ item.status < 0 => streak <= item.status

\* A new configuration reaches the workers: whatever stale copies they write
\* back, an enabled record that stays as it is gets its item (Transfer).
RecordIsTransferred ==
    \A c \in Configs :
        record = c ~> (record # c \/ (item # Nil /\ item.conf = c))

\* An address that fails every check is marked down in the end, also if Transfer
\* rewrites its item now and then: the failures are not forgotten.  down_count is
\* "number of unsuccessful healthcheck requests to consider an ip invalid".
DownIsNoticed ==
    <>[](record \in Configs) =>
        <>(item # Nil /\ item.status = -Abs(item.conf.down))

\* Requests stop seeing an old status: when the status in redis stays n, there
\* comes a time after which getStatus never answers anything else, although a
\* status loaded before is cached, by a request that was slow, after a newer one.
StatusIsServed ==
    \A n \in -MaxStreak .. MaxStreak :
        <>[](item # Nil /\ item.status = n) => <>[](cached \in {n, Nil})

\* What TestExpire says: the item of a record whose check was disabled goes away.
DisabledIsForgotten == <>[](record = Off) => <>[](item = Nil)

\* What the comment in ShutDown says: both goroutines sign off.
ShutDownReturns == quit ~> (tpc = "done" /\ spc = "done")
=============================================================================
