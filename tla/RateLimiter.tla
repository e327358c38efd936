---------------------------- MODULE RateLimiter ----------------------------
(***************************************************************************)
(* CanHandle (handler/limiter.go), called by the goroutines that serve     *)
(* requests.  The lookup in the cache is not covered by the Limiter's      *)
(* mutex: it is a step of its own, and so is what follows it.              *)
(*                                                                         *)
(* One unit of time stands for a millisecond; Minute is 60000 of them in   *)
(* the code.  A Limiter is an identifier of a heap cell, and a cell that   *)
(* neither the cache nor a goroutine refers to may be allocated again.     *)
(***************************************************************************)
EXTENDS Integers

CONSTANTS
    Threads,            \* goroutines that serve requests
    Keys,               \* client addresses
    Patient,            \* clients that wait for an answer before they ask again
    WhiteList, BlackList,
    Limiters,           \* heap cells for Limiter objects
    Enable, Rate, Burst,    \* configuration
    Minute,             \* time.Minute, the expiration of cached Limiters
    MaxClock,           \* bound: the clock stops here
    Nil

ASSUME PatientAssumption == Patient \subseteq Keys
ASSUME ListAssumption == WhiteList \subseteq Keys /\ BlackList \subseteq Keys
ASSUME EnableAssumption == Enable \in BOOLEAN
ASSUME RateAssumption == Rate \in Nat \ {0} /\ Burst \in Nat /\ Minute \in Nat
ASSUME ClockAssumption == MaxClock \in Nat
ASSUME NilAssumption == Nil \notin Limiters

\* NewRateLimiter
TimeStep == Minute \div Rate
MaxTime == TimeStep * Burst

VARIABLES
    now,        \* the clock
    cache,      \* rl.Limiters: key -> Limiter or Nil
    expires,    \* key -> when the cache entry expires
    size,       \* Limiter -> Size
    last,       \* Limiter -> LastUpdate
    pc, key,    \* where each goroutine is, and for which client
    l,          \* the Limiter a goroutine got from the cache
    answer,     \* what became of the latest request of each client
    ideal       \* history: the leaky bucket that all admitted requests of a
                \* key together fill

vars == <<now, cache, expires, size, last, pc, key, l, answer, ideal>>

\* The clients whose answer does not depend on their rate.
Always == IF Enable THEN WhiteList \ BlackList ELSE Keys
Never == IF Enable THEN BlackList ELSE {}

TypeOK ==
    /\ now \in Nat
    /\ cache \in [Keys -> Limiters \cup {Nil}]
    /\ expires \in [Keys -> Nat]
    /\ size \in [Limiters -> Nat]
    /\ last \in [Limiters -> Nat]
    /\ pc \in [Threads -> {"idle", "get", "lock", "create"}]
    /\ key \in [Threads -> Keys]
    /\ l \in [Threads -> Limiters \cup {Nil}]
    /\ answer \in [Keys -> {"none", "asked", "yes", "no"}]
    /\ ideal \in [Keys -> Nat]

Init ==
    /\ now = 0
    /\ cache = [k \in Keys |-> Nil]
    /\ expires = [k \in Keys |-> 0]
    /\ size = [i \in Limiters |-> 0]
    /\ last = [i \in Limiters |-> 0]
    /\ pc = [t \in Threads |-> "idle"]
    /\ key \in [Threads -> Keys]
    /\ l = [t \in Threads |-> Nil]
    /\ answer = [k \in Keys |-> "none"]
    /\ ideal = [k \in Keys |-> 0]

Leak(n, d) == IF n > d THEN n - d ELSE 0

Tick ==
    /\ now < MaxClock
    /\ now' = now + 1
    /\ ideal' = [k \in Keys |-> Leak(ideal[k], 1)]
    /\ UNCHANGED <<cache, expires, size, last, pc, key, l, answer>>

\* A request calls CanHandle.
CanHandle(t, k) ==
    /\ pc[t] = "idle"
    /\ k \in Patient => \A u \in Threads : pc[u] # "idle" => key[u] # k
    /\ key' = [key EXCEPT ![t] = k]
    /\ answer' = [answer EXCEPT ![k] = "asked"]
    /\ pc' = [pc EXCEPT ![t] = "get"]
    /\ UNCHANGED <<now, cache, expires, size, last, l, ideal>>

\* Faulty variant of Listed: the white list wins.
ListedWhiteFirst(t) ==
    /\ pc[t] = "get"
    /\ key[t] \in Always \cup Never
    /\ answer' = [answer EXCEPT ![key[t]] = IF key[t] \in WhiteList THEN "yes" ELSE "no"]
    /\ pc' = [pc EXCEPT ![t] = "idle"]
    /\ UNCHANGED <<now, cache, expires, size, last, key, l, ideal>>

\* The limiter is off, or the client is on a list: the black list wins.
Listed(t) ==
    /\ pc[t] = "get"
    /\ \/ key[t] \in Never /\ answer' = [answer EXCEPT ![key[t]] = "no"]
       \/ key[t] \in Always /\ answer' = [answer EXCEPT ![key[t]] = "yes"]
    /\ pc' = [pc EXCEPT ![t] = "idle"]
    /\ UNCHANGED <<now, cache, expires, size, last, key, l, ideal>>

\* rl.Limiters.Get: an expired entry is not found.
Get(t) ==
    /\ pc[t] = "get"
    /\ key[t] \notin Always \cup Never
    /\ IF cache[key[t]] # Nil /\ now <= expires[key[t]]
       THEN /\ l' = [l EXCEPT ![t] = cache[key[t]]]
            /\ pc' = [pc EXCEPT ![t] = "lock"]
       ELSE pc' = [pc EXCEPT ![t] = "create"] /\ UNCHANGED l
    /\ UNCHANGED <<now, cache, expires, size, last, key, answer, ideal>>

\* rl.Limiters.Set(key, x, time.Minute)
Set(k, x) ==
    /\ cache' = [cache EXCEPT ![k] = x]
    /\ expires' = [expires EXCEPT ![k] = now + Minute]

\* The goroutine's request is admitted.
Admit(t) ==
    /\ answer' = [answer EXCEPT ![key[t]] = "yes"]
    /\ ideal' = [ideal EXCEPT ![key[t]] = @ + TimeStep]

\* Faulty variants of Locked: left is what remains in the bucket, full is
\* whether that is too much.
LockedWith(t, left, full) ==
    /\ pc[t] = "lock"
    /\ last' = [last EXCEPT ![l[t]] = now]
    /\ \/ /\ full
          /\ size' = [size EXCEPT ![l[t]] = left]
          /\ answer' = [answer EXCEPT ![key[t]] = "no"]
          /\ UNCHANGED ideal
       \/ /\ ~full
          /\ size' = [size EXCEPT ![l[t]] = left + TimeStep]
          /\ Admit(t)
    /\ Set(key[t], l[t])
    /\ pc' = [pc EXCEPT ![t] = "idle"]
    /\ l' = [l EXCEPT ![t] = Nil]
    /\ UNCHANGED <<now, key>>

\* The request being considered is left out of the comparison.
LockedLate(t) ==
    LET left == Leak(size[l[t]], now - last[l[t]])
    IN  LockedWith(t, left, left > MaxTime + TimeStep)

\* The comparison is off by one.
LockedEarly(t) ==
    LET left == Leak(size[l[t]], now - last[l[t]]) IN LockedWith(t, left, left >= MaxTime)

\* The part under the mutex: the bucket leaks, the request is refused or added,
\* and the Limiter is cached again.
Locked(t) ==
    LET x == l[t]
        left == Leak(size[x], now - last[x])
    IN  /\ pc[t] = "lock"
        /\ last' = [last EXCEPT ![x] = now]
        /\ \/ /\ left > MaxTime
              /\ size' = [size EXCEPT ![x] = left]
              /\ answer' = [answer EXCEPT ![key[t]] = "no"]
              /\ UNCHANGED ideal
           \/ /\ left <= MaxTime
              /\ size' = [size EXCEPT ![x] = left + TimeStep]
              /\ Admit(t)
        /\ Set(key[t], x)
        /\ pc' = [pc EXCEPT ![t] = "idle"]
        /\ l' = [l EXCEPT ![t] = Nil]
        /\ UNCHANGED <<now, key>>

\* Faulty variant of Create: the new Limiter does not hold the request.
CreateEmpty(t) ==
    /\ pc[t] = "create"
    /\ \E x \in Limiters :
            /\ \A k \in Keys : cache[k] # x
            /\ size' = [size EXCEPT ![x] = 0]
            /\ last' = [last EXCEPT ![x] = now]
            /\ Set(key[t], x)
    /\ Admit(t)
    /\ pc' = [pc EXCEPT ![t] = "idle"]
    /\ UNCHANGED <<now, key, l>>

\* A new Limiter that holds this request is cached.
Create(t) ==
    /\ pc[t] = "create"
    /\ \E x \in Limiters :
            /\ \A k \in Keys : cache[k] # x
            /\ \A u \in Threads : l[u] # x
            /\ size' = [size EXCEPT ![x] = TimeStep]
            /\ last' = [last EXCEPT ![x] = now]
            /\ Set(key[t], x)
    /\ Admit(t)
    /\ pc' = [pc EXCEPT ![t] = "idle"]
    /\ UNCHANGED <<now, key, l>>

Next ==
    \/ Tick
    \/ \E t \in Threads, k \in Keys : CanHandle(t, k)
    \/ \E t \in Threads : Listed(t) \/ Get(t) \/ Locked(t) \/ Create(t)

Spec == Init /\ [][Next]_vars
-----------------------------------------------------------------------------
\* No Limiter object ever holds more than the burst and one request, however
\* its users interleave.
LimiterIsBounded == \A x \in Limiters : size[x] <= MaxTime + TimeStep

\* A request is refused only if the requests admitted before it really fill the
\* client's bucket: losing a Limiter to a race or to the cache's expiration can
\* make the limit laxer, never stricter.
RefusalIsJustified ==
    [][\A t \in Threads :
        pc[t] = "lock" /\ pc'[t] = "idle" /\ answer'[key[t]] = "no" => ideal[key[t]] > MaxTime]_vars

\* The limit that rate and burst promise: the admitted requests of a client never
\* fill its bucket beyond the burst and one request, if the client is patient.
LimitIsEnforced == \A k \in Patient : ideal[k] <= MaxTime + TimeStep

\* The same of every client (TestLimiter); two first requests at a time break it.
EveryLimitIsEnforced == \A k \in Keys : ideal[k] <= MaxTime + TimeStep

\* The mapping to the leaky buckets of the patient clients.
Bucket == INSTANCE LeakyBucket WITH
            Clients <- Patient, WhiteList <- Always, BlackList <- Never,
            Cost <- TimeStep, Depth <- MaxTime,
            level <- [k \in Patient |-> ideal[k]], answer <- [k \in Patient |-> answer[k]]

\* To a patient client, whatever goroutines serve it and whatever others ask,
\* CanHandle behaves as the leaky bucket that the README describes: the Limiter,
\* its lazy leak and its cache entry do not show.
ImplementsBucket == Bucket!Spec
=============================================================================
