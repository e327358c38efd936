------------------------- MODULE RateLimiterProofs -------------------------
(***************************************************************************)
(* Proofs about RateLimiter, for every rate, burst, set of clients, of     *)
(* goroutines and of Limiter objects.                                      *)
(***************************************************************************)
EXTENDS RateLimiter, TLAPS

\* A leaf goes to Zenon unless it names SMT, for arithmetic and for records and
\* functions given by their values, or PTL, for the temporal steps.
USE ZenonT(60)

\* What is left in Limiter x at this moment.
Level(x) == Leak(size[x], now - last[x])

\* Clocks and references make sense.
References ==
    /\ \A x \in Limiters : last[x] <= now
    /\ \A t \in Threads : l[t] # Nil <=> pc[t] = "lock"

\* Every referenced Limiter serves one key.
OneKey ==
    /\ \A j, k \in Keys : cache[j] = cache[k] /\ cache[j] # Nil => j = k
    /\ \A t \in Threads, k \in Keys : l[t] = cache[k] /\ l[t] # Nil => key[t] = k
    /\ \A t, u \in Threads : l[t] = l[u] /\ l[t] # Nil => key[t] = key[u]

\* A Limiter never holds more than all admitted requests of its key do.
Undercounts ==
    /\ \A k \in Keys : cache[k] # Nil => Level(cache[k]) <= ideal[k]
    /\ \A t \in Threads : l[t] # Nil => Level(l[t]) <= ideal[key[t]]

LimiterInv == TypeOK /\ References /\ OneKey /\ LimiterIsBounded /\ Undercounts

\* The configuration gives natural numbers.
LEMMA ConfigFacts ==
    TimeStep \in Nat /\ MaxTime \in Nat /\ TimeStep <= Minute
  <1>1. TimeStep \in Nat /\ TimeStep <= Minute
    BY SMT, RateAssumption DEF TimeStep
  <1>2. \A a, b \in Nat : a * b \in Nat
    BY SMT
  <1> QED BY <1>1, <1>2, RateAssumption DEF MaxTime

\* What a bucket of n holds d units of time later.
LEMMA LeakFacts ==
    ASSUME NEW n \in Nat, NEW d \in Nat
    PROVE  /\ Leak(n, d) \in Nat
           /\ Leak(n, d) <= n
           /\ Leak(n, d + 1) = Leak(Leak(n, d), 1)
           /\ Leak(n, 0) = n
           /\ \A m \in Nat : m <= n => Leak(m, d) <= Leak(n, d)
  BY SMT DEF Leak

\* At first no Limiter is in use and every bucket is empty.
LEMMA LimiterInvInit == Init => LimiterInv
  <1> SUFFICES ASSUME Init PROVE LimiterInv
    OBVIOUS
  <1>1. TypeOK
    BY NilAssumption DEF Init, TypeOK
  <1>2. References /\ OneKey
    BY SMT DEF Init, References, OneKey
  <1>3. LimiterIsBounded
    BY SMT, ConfigFacts DEF Init, LimiterIsBounded
  <1>4. Undercounts
    BY DEF Init, Undercounts
  <1> QED BY <1>1, <1>2, <1>3, <1>4 DEF LimiterInv

\* Time passes: every Limiter leaks as much as the bucket of its key.
LEMMA TickPreserves == LimiterInv /\ Tick => LimiterInv'
  <1> SUFFICES ASSUME LimiterInv, Tick PROVE LimiterInv'
    OBVIOUS
  <1> USE DEF LimiterInv
  <1>1. TypeOK'
    BY SMT DEF TypeOK, Tick, Leak
  <1>2. References' /\ OneKey' /\ LimiterIsBounded'
    BY SMT DEF TypeOK, Tick, References, OneKey, LimiterIsBounded
  <1>3. \A x \in Limiters :
            /\ Level(x) \in Nat
            /\ Leak(size'[x], now' - last'[x]) = Leak(Level(x), 1)
    <2> TAKE x \in Limiters
    <2>1. size[x] \in Nat /\ now - last[x] \in Nat
      BY SMT DEF TypeOK, References
    <2>2. now' - last'[x] = (now - last[x]) + 1 /\ size'[x] = size[x]
      BY SMT DEF TypeOK, Tick
    <2>3. /\ Leak(size[x], now - last[x]) \in Nat
          /\ Leak(size[x], (now - last[x]) + 1) = Leak(Leak(size[x], now - last[x]), 1)
      BY <2>1, LeakFacts
    <2> QED BY <2>2, <2>3 DEF Level
  <1>4. \A k \in Keys : ideal[k] \in Nat /\ ideal'[k] = Leak(ideal[k], 1)
    BY DEF TypeOK, Tick
  <1>5. \A m, n \in Nat : m <= n => Leak(m, 1) <= Leak(n, 1)
    BY SMT DEF Leak
  <1>6. UNCHANGED <<cache, l, key>>
    BY DEF Tick
  <1>7. \A x \in Limiters, k \in Keys : Level(x) <= ideal[k] =>
            Leak(size'[x], now' - last'[x]) <= ideal'[k]
    BY <1>3, <1>4, <1>5
  <1>9. Undercounts'
    BY <1>6, <1>7 DEF TypeOK, Undercounts, Level
  <1> QED BY <1>1, <1>2, <1>9

\* A call that looks at the lists or gets a Limiter from the cache.
LEMMA GetPreserves ==
    ASSUME NEW t \in Threads, NEW k \in Keys,
           CanHandle(t, k) \/ Listed(t) \/ Get(t), LimiterInv
    PROVE  LimiterInv'
  <1> USE NilAssumption DEF LimiterInv
  <1>1. TypeOK'
    BY SMT DEF TypeOK, CanHandle, Listed, Get
  <1>2. UNCHANGED <<now, cache, expires, size, last, ideal>>
    BY DEF CanHandle, Listed, Get
  <1>3. References' /\ LimiterIsBounded'
    BY SMT, <1>2 DEF TypeOK, CanHandle, Listed, Get, References, LimiterIsBounded
  <1>4. \A u \in Threads : l'[u] # Nil =>
            \/ l'[u] = l[u] /\ key'[u] = key[u]
            \/ l'[u] = cache[key[u]] /\ key'[u] = key[u]
    BY SMT DEF TypeOK, CanHandle, Listed, Get, References
  <1>5. OneKey'
    BY SMT, <1>2, <1>4 DEF TypeOK, OneKey
  <1>6. \A x \in Limiters : Level(x)' = Level(x)
    BY <1>2 DEF Level
  <1>7. Undercounts'
    BY SMT, <1>2, <1>4, <1>6 DEF TypeOK, Undercounts
  <1> QED BY <1>1, <1>3, <1>5, <1>7

\* What the part under the mutex does: the Limiter keeps counting no more than
\* the bucket of its key, and a refusal means that the bucket is full.
LEMMA LockedFacts ==
    ASSUME NEW t \in Threads, Locked(t), LimiterInv
    PROVE  /\ l[t] \in Limiters /\ key[t] \in Keys
           /\ Level(l[t]) \in Nat /\ Level(l[t]) <= ideal[key[t]]
           /\ \/ /\ Level(l[t]) > MaxTime
                 /\ size' = [size EXCEPT ![l[t]] = Level(l[t])]
                 /\ ideal' = ideal
                 /\ answer' = [answer EXCEPT ![key[t]] = "no"]
              \/ /\ Level(l[t]) <= MaxTime
                 /\ size' = [size EXCEPT ![l[t]] = Level(l[t]) + TimeStep]
                 /\ ideal' = [ideal EXCEPT ![key[t]] = @ + TimeStep]
                 /\ answer' = [answer EXCEPT ![key[t]] = "yes"]
           /\ last' = [last EXCEPT ![l[t]] = now]
           /\ cache' = [cache EXCEPT ![key[t]] = l[t]]
           /\ expires' = [expires EXCEPT ![key[t]] = now + Minute]
           /\ pc' = [pc EXCEPT ![t] = "idle"]
           /\ l' = [l EXCEPT ![t] = Nil]
           /\ UNCHANGED <<now, key>>
  <1>1. l[t] \in Limiters /\ key[t] \in Keys /\ l[t] # Nil
    BY DEF LimiterInv, TypeOK, References, Locked
  <1>2. size[l[t]] \in Nat /\ now - last[l[t]] \in Nat
    BY SMT, <1>1 DEF LimiterInv, TypeOK, References
  <1>3. Level(l[t]) \in Nat
    BY <1>2, LeakFacts DEF Level
  <1>4. Level(l[t]) <= ideal[key[t]]
    BY <1>1 DEF LimiterInv, Undercounts
  <1> QED BY <1>1, <1>3, <1>4 DEF Locked, Level, Admit, Set

\* The part of CanHandle under the mutex keeps the invariant.
LEMMA LockedPreserves ==
    ASSUME NEW t \in Threads, Locked(t), LimiterInv
    PROVE  LimiterInv'
  <1> DEFINE x == l[t]
             k == key[t]
  <1> USE LockedFacts, ConfigFacts, NilAssumption
  <1>1. TypeOK /\ References /\ OneKey /\ LimiterIsBounded /\ Undercounts
    BY DEF LimiterInv
  <1>2. TypeOK'
    <2>1. /\ now + Minute \in Nat /\ Level(x) + TimeStep \in Nat
          /\ ideal[k] \in Nat /\ ideal[k] + TimeStep \in Nat
      BY SMT, <1>1, RateAssumption DEF TypeOK
    <2>2. size' \in [Limiters -> Nat] /\ ideal' \in [Keys -> Nat]
      BY SMT, <1>1, <2>1 DEF TypeOK
    <2>3. answer' \in [Keys -> {"none", "asked", "yes", "no"}]
      BY <1>1 DEF TypeOK
    <2>4. /\ cache' \in [Keys -> Limiters \cup {Nil}] /\ expires' \in [Keys -> Nat]
          /\ last' \in [Limiters -> Nat] /\ l' \in [Threads -> Limiters \cup {Nil}]
          /\ pc' \in [Threads -> {"idle", "get", "lock", "create"}]
      <3>1. /\ x \in Limiters /\ k \in Keys
            /\ cache' = [cache EXCEPT ![k] = x] /\ expires' = [expires EXCEPT ![k] = now + Minute]
            /\ last' = [last EXCEPT ![x] = now]
            /\ l' = [l EXCEPT ![t] = Nil] /\ pc' = [pc EXCEPT ![t] = "idle"]
        BY <1>1
      <3> HIDE LockedFacts, ConfigFacts
      <3> QED BY <1>1, <2>1, <3>1 DEF TypeOK
    <2> QED BY <1>1, <2>2, <2>3, <2>4 DEF TypeOK
  <1>3. References'
    <2>1. \A y \in Limiters : last'[y] \in {last[y], now}
      BY <1>1 DEF TypeOK
    <2>2. \A y \in Limiters : last'[y] <= now'
      BY SMT, <1>1, <2>1 DEF TypeOK, References
    <2>3. \A u \in Threads : l'[u] # Nil <=> pc'[u] = "lock"
      BY <1>1 DEF TypeOK, References
    <2> QED BY <2>2, <2>3 DEF References
  <1>4. LimiterIsBounded'
    <2>1. size'[x] <= MaxTime + TimeStep
      <3>1. Level(x) <= size[x]
        <4>1. size[x] \in Nat /\ now - last[x] \in Nat
          BY SMT, <1>1 DEF TypeOK, References
        <4> QED BY <4>1, LeakFacts DEF Level
      <3>2. size[x] <= MaxTime + TimeStep /\ size[x] \in Nat
        BY <1>1 DEF TypeOK, LimiterIsBounded
      <3> QED BY SMT, <1>1, <3>1, <3>2 DEF TypeOK
    <2>2. \A y \in Limiters \ {x} : size'[y] = size[y]
      BY SMT, <1>1 DEF TypeOK
    <2> QED BY <1>1, <2>1, <2>2 DEF LimiterIsBounded
  <1>5. OneKey'
    <2>1. /\ x \in Limiters /\ x # Nil /\ k \in Keys
          /\ \A j \in Keys : cache'[j] = IF j = k THEN x ELSE cache[j]
          /\ \A u \in Threads : l'[u] = IF u = t THEN Nil ELSE l[u]
          /\ key' = key
      BY SMT, <1>1 DEF TypeOK
    <2>2. \A j \in Keys : cache[j] = x => j = k
      BY <1>1, <2>1 DEF OneKey
    <2>3. \A u \in Threads : l[u] = x => key[u] = k
      BY <1>1, <2>1 DEF OneKey
    <2> HIDE LockedFacts DEF x, k
    <2>4. \A i, j \in Keys : cache'[i] = cache'[j] /\ cache'[i] # Nil => i = j
      BY SMT, <1>1, <2>1, <2>2 DEF OneKey
    <2>5. \A u \in Threads, j \in Keys : l'[u] = cache'[j] /\ l'[u] # Nil => key'[u] = j
      BY SMT, <1>1, <2>1, <2>2, <2>3 DEF OneKey
    <2>6. \A u, v \in Threads : l'[u] = l'[v] /\ l'[u] # Nil => key'[u] = key'[v]
      BY SMT, <1>1, <2>1 DEF OneKey
    <2> QED BY <2>4, <2>5, <2>6 DEF OneKey
  <1>6. \A y \in Limiters : Leak(size'[y], now' - last'[y]) =
                                IF y = x THEN size'[x] ELSE Level(y)
    <2>1. now - now = 0 /\ size'[x] \in Nat
      BY SMT, <1>1, <1>2 DEF TypeOK
    <2>2. Leak(size'[x], 0) = size'[x]
      BY <2>1, LeakFacts
    <2> QED BY SMT, <1>1, <2>1, <2>2 DEF TypeOK, Level
  <1>7. size'[x] <= ideal'[k] /\ \A j \in Keys : ideal[j] <= ideal'[j]
    BY SMT, <1>1 DEF TypeOK
  <1>8. \A y \in Limiters : Level(y) \in Nat
    <2> TAKE y \in Limiters
    <2>1. size[y] \in Nat /\ now - last[y] \in Nat
      BY SMT, <1>1 DEF TypeOK, References
    <2> QED BY <2>1, LeakFacts DEF Level
  <1>9. Undercounts'
    <2>1. ASSUME NEW j \in Keys, cache'[j] # Nil
          PROVE  Leak(size'[cache'[j]], now' - last'[cache'[j]]) <= ideal'[j]
      <3>1. CASE j = k
        BY SMT, <1>1, <1>6, <1>7, <3>1 DEF TypeOK
      <3>2. CASE j # k
        <4>1. cache'[j] = cache[j] /\ cache[j] \in Limiters /\ cache[j] # x
          BY SMT, <1>1, <2>1, <3>2 DEF TypeOK, OneKey
        <4>2. Level(cache[j]) <= ideal[j] /\ ideal[j] \in Nat /\ ideal'[j] \in Nat
          BY <1>1, <1>2, <2>1, <4>1 DEF TypeOK, Undercounts
        <4> QED BY SMT, <1>6, <1>7, <1>8, <4>1, <4>2
      <3> QED BY <3>1, <3>2
    <2>2. ASSUME NEW u \in Threads, l'[u] # Nil
          PROVE  Leak(size'[l'[u]], now' - last'[l'[u]]) <= ideal'[key'[u]]
      <3>1. l'[u] = l[u] /\ l[u] \in Limiters /\ key'[u] = key[u] /\ key[u] \in Keys
        BY <1>1, <2>2 DEF TypeOK
      <3>2. CASE l[u] = x
        BY SMT, <1>1, <1>6, <1>7, <2>2, <3>1, <3>2 DEF OneKey
      <3>3. CASE l[u] # x
        <4>1. /\ Level(l[u]) <= ideal[key[u]]
              /\ ideal[key[u]] \in Nat /\ ideal'[key[u]] \in Nat
          BY <1>1, <1>2, <2>2, <3>1 DEF TypeOK, Undercounts
        <4> QED BY SMT, <1>6, <1>7, <1>8, <3>1, <3>3, <4>1
      <3> QED BY <3>2, <3>3
    <2> QED BY <2>1, <2>2 DEF Undercounts, Level
  <1> QED BY <1>2, <1>3, <1>4, <1>5, <1>9 DEF LimiterInv

\* A new Limiter starts with the request that made it.
LEMMA CreatePreserves ==
    ASSUME NEW t \in Threads, Create(t), LimiterInv
    PROVE  LimiterInv'
  <1> DEFINE k == key[t]
  <1> USE ConfigFacts, NilAssumption
  <1>1. TypeOK /\ References /\ OneKey /\ LimiterIsBounded /\ Undercounts
    BY DEF LimiterInv
  <1>2. PICK x \in Limiters :
            /\ \A j \in Keys : cache[j] # x
            /\ \A u \in Threads : l[u] # x
            /\ size' = [size EXCEPT ![x] = TimeStep]
            /\ last' = [last EXCEPT ![x] = now]
            /\ cache' = [cache EXCEPT ![k] = x]
            /\ expires' = [expires EXCEPT ![k] = now + Minute]
    BY DEF Create, Set
  <1>3. /\ ideal' = [ideal EXCEPT ![k] = @ + TimeStep]
        /\ answer' = [answer EXCEPT ![key[t]] = "yes"]
        /\ pc' = [pc EXCEPT ![t] = "idle"]
        /\ pc[t] = "create"
        /\ UNCHANGED <<now, key, l>>
    BY DEF Create, Admit
  <1>4. TypeOK'
    BY SMT, <1>1, <1>2, <1>3, RateAssumption DEF TypeOK
  <1>5. References'
    BY SMT, <1>1, <1>2, <1>3 DEF TypeOK, References
  <1>6. LimiterIsBounded'
    BY SMT, <1>1, <1>2 DEF TypeOK, LimiterIsBounded
  <1>7. /\ k \in Keys
        /\ \A j \in Keys : cache'[j] = IF j = k THEN x ELSE cache[j]
    BY <1>1, <1>2 DEF TypeOK
  <1>8. OneKey'
    <2>1. \A i, j \in Keys : cache'[i] = cache'[j] /\ cache'[i] # Nil => i = j
      BY SMT, <1>1, <1>2, <1>7 DEF OneKey
    <2>2. \A u \in Threads, j \in Keys : l'[u] = cache'[j] /\ l'[u] # Nil => key'[u] = j
      BY SMT, <1>1, <1>2, <1>3, <1>7 DEF OneKey
    <2>3. \A u, v \in Threads : l'[u] = l'[v] /\ l'[u] # Nil => key'[u] = key'[v]
      BY <1>1, <1>3 DEF OneKey
    <2> QED BY <2>1, <2>2, <2>3 DEF OneKey
  <1>9. \A y \in Limiters : Leak(size'[y], now' - last'[y]) =
                                IF y = x THEN TimeStep ELSE Level(y)
    <2>1. now - now = 0
      BY SMT, <1>1 DEF TypeOK
    <2>2. Leak(TimeStep, 0) = TimeStep
      BY LeakFacts
    <2> QED BY <1>1, <1>2, <1>3, <2>1, <2>2 DEF TypeOK, Level
  <1>10. /\ TimeStep <= ideal'[k]
         /\ \A j \in Keys : ideal[j] <= ideal'[j] /\ ideal[j] \in Nat /\ ideal'[j] \in Nat
    BY SMT, <1>1, <1>3 DEF TypeOK
  <1>11. \A y \in Limiters : Level(y) \in Nat
    <2> TAKE y \in Limiters
    <2>1. size[y] \in Nat /\ now - last[y] \in Nat
      BY SMT, <1>1 DEF TypeOK, References
    <2> QED BY <2>1, LeakFacts DEF Level
  <1>12. Undercounts'
    <2>1. ASSUME NEW j \in Keys, cache'[j] # Nil
          PROVE  Leak(size'[cache'[j]], now' - last'[cache'[j]]) <= ideal'[j]
      <3>1. CASE j = k
        BY <1>7, <1>9, <1>10, <3>1
      <3>2. CASE j # k
        <4>1. cache'[j] = cache[j] /\ cache[j] \in Limiters \ {x}
          BY SMT, <1>1, <1>2, <1>7, <2>1, <3>2 DEF TypeOK
        <4>2. Level(cache[j]) <= ideal[j]
          BY <1>1, <2>1, <4>1 DEF Undercounts
        <4> QED BY SMT, <1>9, <1>10, <1>11, <4>1, <4>2
      <3> QED BY <3>1, <3>2
    <2>2. ASSUME NEW u \in Threads, l'[u] # Nil
          PROVE  Leak(size'[l'[u]], now' - last'[l'[u]]) <= ideal'[key'[u]]
      <3>1. l'[u] = l[u] /\ l[u] \in Limiters \ {x} /\ key'[u] = key[u] /\ key[u] \in Keys
        BY <1>1, <1>2, <1>3, <2>2 DEF TypeOK
      <3>2. Level(l[u]) <= ideal[key[u]]
        BY <1>1, <2>2, <3>1 DEF Undercounts
      <3> QED BY SMT, <1>9, <1>10, <1>11, <3>1, <3>2
    <2> QED BY <2>1, <2>2 DEF Undercounts, Level
  <1> QED BY <1>4, <1>5, <1>6, <1>8, <1>12 DEF LimiterInv

\* LimiterInv is an invariant.
LEMMA LimiterInvariant == Spec => []LimiterInv
  <1>1. LimiterInv /\ [Next]_vars => LimiterInv'
    <2> SUFFICES ASSUME LimiterInv, [Next]_vars PROVE LimiterInv'
      OBVIOUS
    <2>1. CASE UNCHANGED vars
      BY <2>1 DEF vars, LimiterInv, TypeOK, References, OneKey, LimiterIsBounded,
                  Undercounts, Level
    <2>2. CASE Tick
      BY <2>2, TickPreserves
    <2>3. ASSUME NEW t \in Threads, NEW k \in Keys, CanHandle(t, k) PROVE LimiterInv'
      BY <2>3, GetPreserves
    <2>4. ASSUME NEW t \in Threads, Listed(t) \/ Get(t) PROVE LimiterInv'
      <3>1. key[t] \in Keys
        BY DEF LimiterInv, TypeOK
      <3> QED BY <2>4, <3>1, GetPreserves
    <2>5. ASSUME NEW t \in Threads, Locked(t) PROVE LimiterInv'
      BY <2>5, LockedPreserves
    <2>6. ASSUME NEW t \in Threads, Create(t) PROVE LimiterInv'
      BY <2>6, CreatePreserves
    <2> QED BY <2>1, <2>2, <2>3, <2>4, <2>5, <2>6 DEF Next
  <1> QED BY LimiterInvInit, <1>1, PTL DEF Spec

\* Types of the Limiters, the cache and the goroutines in CanHandle: in particular
\* no Limiter's size is ever negative.
THEOREM TypeCorrect == Spec => []TypeOK
  <1>1. LimiterInv => TypeOK
    BY DEF LimiterInv
  <1> QED BY LimiterInvariant, <1>1, PTL

\* No interleaving of calls fills a Limiter beyond the burst and one request.
THEOREM LimiterIsBoundedHolds == Spec => []LimiterIsBounded
  <1>1. LimiterInv => LimiterIsBounded
    BY DEF LimiterInv
  <1> QED BY LimiterInvariant, <1>1, PTL

\* CanHandle refuses a client only when the requests it admitted fill the
\* client's bucket, whatever races and expirations did to its Limiters.
THEOREM RefusalIsJustifiedHolds == Spec => RefusalIsJustified
  <1>1. ASSUME LimiterInv, Next, NEW t \in Threads,
               pc[t] = "lock", pc'[t] = "idle", answer'[key[t]] = "no"
        PROVE  ideal[key[t]] > MaxTime
    <2>1. TypeOK
      BY <1>1 DEF LimiterInv
    <2>2. Locked(t)
      <3>1. pc \in [Threads -> {"idle", "get", "lock", "create"}]
        BY <2>1 DEF TypeOK
      <3>2. PICK u \in Threads : \/ \E k \in Keys : CanHandle(u, k)
                                \/ Listed(u) \/ Get(u) \/ Locked(u) \/ Create(u)
        BY <1>1 DEF Next, Tick
      <3>3. \E v : pc' = [pc EXCEPT ![u] = v]
        BY <3>2 DEF CanHandle, Listed, Get, Locked, Create
      <3>4. u = t
        BY <1>1, <3>1, <3>3
      <3> QED BY <1>1, <3>2, <3>4 DEF CanHandle, Listed, Get, Create
    <2> QED BY SMT, <1>1, <2>1, <2>2, LockedFacts, ConfigFacts DEF TypeOK
  <1>2. LimiterInv /\ [Next]_vars =>
            [\A t \in Threads :
                pc[t] = "lock" /\ pc'[t] = "idle" /\ answer'[key[t]] = "no" => ideal[key[t]] > MaxTime]_vars
    BY <1>1
  <1> QED BY LimiterInvariant, <1>2, PTL DEF Spec, RefusalIsJustified
-----------------------------------------------------------------------------
(* Patient clients, and a burst that leaks away within a minute *)

SmallBurst == MaxTime + TimeStep <= Minute

\* A patient client is served by one goroutine at a time.
OneAtATime ==
    /\ \A t, u \in Threads :
            pc[t] # "idle" /\ pc[u] # "idle" /\ key[t] = key[u] /\ key[t] \in Patient => t = u
    /\ \A k \in Patient :
            answer[k] = "asked" <=> \E t \in Threads : pc[t] # "idle" /\ key[t] = k

\* Nothing is lost: the cached Limiter of a patient client is its bucket.
Exact ==
    /\ \A k \in Patient : cache[k] = Nil => ideal[k] = 0
    /\ \A k \in Patient : cache[k] # Nil =>
            ideal[k] = Level(cache[k]) /\ expires[k] = last[cache[k]] + Minute
    /\ \A t \in Threads : pc[t] = "lock" /\ key[t] \in Patient => l[t] = cache[key[t]]
    /\ \A t \in Threads : pc[t] = "create" /\ key[t] \in Patient => ideal[key[t]] = 0
    /\ \A t \in Threads : pc[t] \in {"lock", "create"} => key[t] \notin Always \cup Never

\* A patient client that has an answer has no other request under way.
LEMMA StepOneAtATime ==
    ASSUME TypeOK, OneAtATime, [Next]_vars
    PROVE  OneAtATime'
  <1>1. CASE UNCHANGED vars \/ Tick
    <2>1. UNCHANGED <<pc, key, answer>>
      BY <1>1 DEF vars, Tick
    <2> QED BY <2>1 DEF OneAtATime
  <1>2. ASSUME NEW t \in Threads, NEW k \in Keys, CanHandle(t, k)
        PROVE  OneAtATime'
    <2>1. /\ pc[t] = "idle" /\ pc'[t] = "get" /\ key'[t] = k /\ answer'[k] = "asked"
          /\ \A u \in Threads \ {t} : pc'[u] = pc[u] /\ key'[u] = key[u]
          /\ \A j \in Keys \ {k} : answer'[j] = answer[j]
          /\ k \in Patient => \A u \in Threads : pc[u] # "idle" => key[u] # k
      BY <1>2 DEF CanHandle, TypeOK
    <2>2. ASSUME NEW j \in Patient
          PROVE  answer'[j] = "asked" <=> \E u \in Threads : pc'[u] # "idle" /\ key'[u] = j
      <3>1. CASE j = k
        BY <2>1, <3>1
      <3>2. CASE j # k
        <4>1. answer'[j] = answer[j]
          BY <2>1, <3>2, PatientAssumption
        <4>2. \A u \in Threads : pc'[u] # "idle" /\ key'[u] = j <=> pc[u] # "idle" /\ key[u] = j
          BY <2>1, <3>2
        <4> QED BY <4>1, <4>2 DEF OneAtATime
      <3> QED BY <3>1, <3>2
    <2>3. \A u, v \in Threads :
            pc'[u] # "idle" /\ pc'[v] # "idle" /\ key'[u] = key'[v] /\ key'[u] \in Patient => u = v
      BY SMT, <2>1 DEF OneAtATime
    <2> QED BY <2>2, <2>3 DEF OneAtATime
  <1>3. ASSUME NEW t \in Threads, Get(t)
        PROVE  OneAtATime'
    <2>1. UNCHANGED <<key, answer>> /\ \A u \in Threads : pc'[u] # "idle" <=> pc[u] # "idle"
      BY <1>3 DEF Get, TypeOK
    <2> QED BY <2>1 DEF OneAtATime
  <1>4. ASSUME NEW t \in Threads, Listed(t) \/ Locked(t) \/ Create(t)
        PROVE  OneAtATime'
    <2>1. /\ pc[t] # "idle" /\ pc'[t] = "idle" /\ key' = key /\ key[t] \in Keys
          /\ \A u \in Threads \ {t} : pc'[u] = pc[u]
          /\ answer'[key[t]] \in {"yes", "no"} /\ \A j \in Keys \ {key[t]} : answer'[j] = answer[j]
      BY SMT, <1>4 DEF Listed, Locked, Create, Admit, TypeOK
    <2>2. ASSUME NEW j \in Patient
          PROVE  answer'[j] = "asked" <=> \E u \in Threads : pc'[u] # "idle" /\ key'[u] = j
      <3>1. CASE j = key[t]
        BY SMT, <2>1, <3>1 DEF OneAtATime
      <3>2. CASE j # key[t]
        <4>1. answer'[j] = answer[j]
          BY <2>1, <3>2, PatientAssumption
        <4>2. \A u \in Threads : pc'[u] # "idle" /\ key'[u] = j <=> pc[u] # "idle" /\ key[u] = j
          BY <2>1, <3>2
        <4> QED BY <4>1, <4>2 DEF OneAtATime
      <3> QED BY <3>1, <3>2
    <2>3. \A u, v \in Threads :
            pc'[u] # "idle" /\ pc'[v] # "idle" /\ key'[u] = key'[v] /\ key'[u] \in Patient => u = v
      BY SMT, <2>1 DEF OneAtATime
    <2> QED BY <2>2, <2>3 DEF OneAtATime
  <1> QED BY <1>1, <1>2, <1>3, <1>4 DEF Next

\* Time passes: the Limiters leak exactly as the buckets.
LEMMA TickExact == LimiterInv /\ Exact /\ Tick => Exact'
  <1> SUFFICES ASSUME LimiterInv, Exact, Tick PROVE Exact'
    OBVIOUS
  <1>1. TypeOK /\ References
    BY DEF LimiterInv
  <1>2. \A x \in Limiters : Leak(size'[x], now' - last'[x]) = Leak(Level(x), 1)
    <2> TAKE x \in Limiters
    <2>1. size[x] \in Nat /\ now - last[x] \in Nat
      BY SMT, <1>1 DEF TypeOK, References
    <2>2. now' - last'[x] = (now - last[x]) + 1 /\ size'[x] = size[x]
      BY SMT, <1>1 DEF TypeOK, Tick
    <2>3. Leak(size[x], (now - last[x]) + 1) = Leak(Leak(size[x], now - last[x]), 1)
      BY <2>1, LeakFacts
    <2> QED BY <2>2, <2>3 DEF Level
  <1>3. /\ \A k \in Keys : ideal'[k] = Leak(ideal[k], 1)
        /\ Leak(0, 1) = 0
        /\ UNCHANGED <<cache, expires, last, pc, key, l>>
    BY SMT DEF Tick, Leak
  <1>4. \A k \in Patient : k \in Keys /\ (cache[k] # Nil => cache[k] \in Limiters)
    BY <1>1, PatientAssumption DEF TypeOK
  <1>5. \A k \in Patient : cache[k] # Nil =>
            ideal'[k] = Leak(size'[cache[k]], now' - last'[cache[k]])
    BY SMT, <1>2, <1>3, <1>4 DEF Exact
  <1>6. \A k \in Patient : ideal[k] = 0 => ideal'[k] = 0
    BY <1>3, <1>4
  <1> QED BY <1>3, <1>5, <1>6 DEF Exact, Level, Always, Never

\* An entry that is missing or expired stands for an empty bucket.
LEMMA MissingIsEmpty ==
    ASSUME SmallBurst, LimiterInv, Exact, NEW k \in Patient,
           ~(cache[k] # Nil /\ now <= expires[k])
    PROVE  ideal[k] = 0
  <1>1. CASE cache[k] = Nil
    BY <1>1 DEF Exact
  <1>2. CASE cache[k] # Nil
    <2> DEFINE x == cache[k]
    <2>1. x \in Limiters /\ now \in Nat /\ last[x] \in Nat /\ size[x] \in Nat
      BY <1>2, PatientAssumption DEF LimiterInv, TypeOK
    <2>2. now > last[x] + Minute
      BY SMT, <1>2, <2>1, RateAssumption DEF Exact
    <2>3. size[x] <= Minute
      BY SMT, <2>1, ConfigFacts, RateAssumption DEF LimiterInv, LimiterIsBounded, SmallBurst
    <2>4. Leak(size[x], now - last[x]) = 0
      BY SMT, <2>1, <2>2, <2>3, RateAssumption DEF Leak
    <2> QED BY <1>2, <2>4 DEF Exact, Level
  <1> QED BY <1>1, <1>2

\* Every step keeps the Limiters of patient clients exact.
LEMMA ExactNext ==
    ASSUME SmallBurst, LimiterInv, OneAtATime, Exact, [Next]_vars
    PROVE  Exact'
  <1>0. TypeOK /\ OneKey /\ \A k \in Patient : k \in Keys
    BY PatientAssumption DEF LimiterInv
  <1>1. CASE UNCHANGED vars
    BY <1>1 DEF vars, Exact, Level, Always, Never
  <1>2. CASE Tick
    BY <1>2, TickExact
  <1>3. ASSUME NEW t \in Threads, NEW k \in Keys, CanHandle(t, k) \/ Listed(t) \/ Get(t)
        PROVE  Exact'
    <2>1. UNCHANGED <<now, cache, expires, size, last, ideal>>
      BY <1>3 DEF CanHandle, Listed, Get
    <2>2. pc'[t] = "lock" => l'[t] = cache[key'[t]] /\ key'[t] \notin Always \cup Never
      BY SMT, <1>0, <1>3 DEF TypeOK, CanHandle, Listed, Get
    <2>3. pc'[t] = "create" => /\ ~(cache[key'[t]] # Nil /\ now <= expires[key'[t]])
                               /\ key'[t] \notin Always \cup Never
      BY <1>0, <1>3 DEF TypeOK, CanHandle, Listed, Get
    <2>4. pc'[t] = "create" /\ key'[t] \in Patient => ideal[key'[t]] = 0
      BY <2>3, MissingIsEmpty
    <2>5. \A u \in Threads \ {t} : pc'[u] = pc[u] /\ key'[u] = key[u] /\ l'[u] = l[u]
      BY <1>0, <1>3 DEF TypeOK, CanHandle, Listed, Get
    <2>6. \A j \in Patient : cache[j] # Nil => ideal[j] = Leak(size[cache[j]], now - last[cache[j]])
      BY DEF Exact, Level
    <2> QED BY SMT, <2>1, <2>2, <2>3, <2>4, <2>5, <2>6 DEF Exact, Level, Always, Never
  <1>4. ASSUME NEW t \in Threads, NEW k \in Keys, k = key[t], pc[t] \in {"lock", "create"},
               NEW x \in Limiters, \A j \in Keys \ {k} : cache[j] # x,
               cache' = [cache EXCEPT ![k] = x], expires' = [expires EXCEPT ![k] = now + Minute],
               \A y \in Limiters \ {x} : last'[y] = last[y] /\ size'[y] = size[y],
               last'[x] = now, size'[x] \in Nat, k \in Patient => ideal'[k] = size'[x],
               \A j \in Keys \ {k} : ideal'[j] = ideal[j],
               pc' = [pc EXCEPT ![t] = "idle"], UNCHANGED <<now, key>>,
               \A u \in Threads \ {t} : l'[u] = l[u]
        PROVE  Exact'
    <2>1. /\ cache'[k] = x /\ expires'[k] = now + Minute /\ x # Nil /\ now' = now
          /\ \A j \in Keys \ {k} : cache'[j] = cache[j] /\ expires'[j] = expires[j]
      BY <1>0, <1>4, NilAssumption DEF TypeOK
    <2>2. Leak(size'[x], now' - last'[x]) = size'[x]
      <3>1. now' - last'[x] = 0
        BY SMT, <1>0, <1>4 DEF TypeOK
      <3> QED BY <1>4, <3>1, LeakFacts
    <2>3. ASSUME NEW j \in Patient, cache'[j] # Nil
          PROVE  /\ ideal'[j] = Leak(size'[cache'[j]], now' - last'[cache'[j]])
                 /\ expires'[j] = last'[cache'[j]] + Minute
      <3>1. CASE j = k
        BY <1>4, <2>1, <2>2, <3>1
      <3>2. CASE j # k
        <4>1. j \in Keys \ {k} /\ cache'[j] = cache[j] /\ cache[j] \in Limiters \ {x}
          BY SMT, <1>0, <1>4, <2>1, <2>3, <3>2 DEF TypeOK
        <4>2. ideal[j] = Leak(size[cache[j]], now - last[cache[j]]) /\ expires[j] = last[cache[j]] + Minute
          BY <2>3, <4>1 DEF Exact, Level
        <4> QED BY <1>4, <2>1, <4>1, <4>2
      <3> QED BY <3>1, <3>2
    <2>4. ASSUME NEW j \in Patient, cache'[j] = Nil
          PROVE  ideal'[j] = 0
      <3>1. j # k
        BY <2>1, <2>4
      <3>2. j \in Keys \ {k} /\ cache[j] = Nil
        BY <1>0, <2>1, <2>4, <3>1
      <3> QED BY <1>4, <3>2 DEF Exact
    <2>5. pc'[t] = "idle" /\ \A u \in Threads \ {t} : pc'[u] = pc[u] /\ key'[u] = key[u]
      BY <1>0, <1>4 DEF TypeOK
    <2>6. ASSUME NEW u \in Threads, pc'[u] \in {"lock", "create"}, key'[u] \in Patient
          PROVE  /\ pc'[u] = "lock" => l'[u] = cache'[key'[u]]
                 /\ pc'[u] = "create" => ideal'[key'[u]] = 0
      <3>1. u # t /\ pc[u] = pc'[u] /\ key'[u] = key[u] /\ l'[u] = l[u]
        BY <1>4, <2>5, <2>6
      <3>2. key[u] \in Keys \ {k}
        BY <1>0, <1>4, <2>6, <3>1 DEF OneAtATime
      <3> QED BY SMT, <1>4, <2>1, <2>6, <3>1, <3>2 DEF Exact
    <2>7. \A u \in Threads : pc'[u] \in {"lock", "create"} => key'[u] \notin Always \cup Never
      BY <2>5 DEF Exact
    <2> QED BY <2>3, <2>4, <2>6, <2>7 DEF Exact, Level, Always, Never
  <1>5. ASSUME NEW t \in Threads, Locked(t) PROVE Exact'
    <2>1. PICK x \in Limiters, k \in Keys : x = l[t] /\ k = key[t] /\ x # Nil
      BY <1>5, LockedFacts, NilAssumption
    <2>2. \A j \in Keys \ {k} : cache[j] # x
      BY <1>0, <2>1 DEF OneKey
    <2>3. k \in Patient => ideal[k] = Level(x)
      BY <1>5, <2>1 DEF Exact, Locked
    <2>4. /\ cache' = [cache EXCEPT ![k] = x] /\ expires' = [expires EXCEPT ![k] = now + Minute]
          /\ pc' = [pc EXCEPT ![t] = "idle"] /\ UNCHANGED <<now, key>> /\ pc[t] = "lock"
          /\ l' = [l EXCEPT ![t] = Nil]
      BY <1>5, <2>1, LockedFacts DEF Locked
    <2>5. /\ \A y \in Limiters \ {x} : last'[y] = last[y] /\ size'[y] = size[y]
          /\ last'[x] = now /\ \A j \in Keys \ {k} : ideal'[j] = ideal[j]
      BY SMT, <1>0, <1>5, <2>1, LockedFacts DEF TypeOK
    <2>6. size'[x] \in Nat /\ (k \in Patient => ideal'[k] = size'[x])
      BY SMT, <1>0, <1>5, <2>1, <2>3, LockedFacts, ConfigFacts DEF TypeOK
    <2>7. \A u \in Threads \ {t} : l'[u] = l[u]
      BY <1>0, <2>4 DEF TypeOK
    <2> QED BY <1>4, <2>1, <2>2, <2>4, <2>5, <2>6, <2>7
  <1>6. ASSUME NEW t \in Threads, Create(t) PROVE Exact'
    <2>1. PICK k \in Keys : k = key[t]
      BY <1>0 DEF TypeOK
    <2>2. PICK x \in Limiters :
              /\ \A j \in Keys : cache[j] # x
              /\ size' = [size EXCEPT ![x] = TimeStep]
              /\ last' = [last EXCEPT ![x] = now]
              /\ cache' = [cache EXCEPT ![k] = x]
              /\ expires' = [expires EXCEPT ![k] = now + Minute]
      BY <1>6, <2>1 DEF Create, Set
    <2>3. /\ pc' = [pc EXCEPT ![t] = "idle"] /\ UNCHANGED <<now, key, l>> /\ pc[t] = "create"
          /\ ideal' = [ideal EXCEPT ![k] = ideal[k] + TimeStep]
      BY <1>6, <2>1 DEF Create, Admit
    <2>4. k \in Patient => ideal[k] = 0
      BY <2>1, <2>3 DEF Exact
    <2>5. /\ \A y \in Limiters \ {x} : last'[y] = last[y] /\ size'[y] = size[y]
          /\ last'[x] = now /\ size'[x] = TimeStep
      BY <1>0, <2>2 DEF TypeOK
    <2>6. \A j \in Keys \ {k} : ideal'[j] = ideal[j]
      BY <1>0, <2>3 DEF TypeOK
    <2>7. size'[x] \in Nat /\ (k \in Patient => ideal'[k] = size'[x])
      BY SMT, <1>0, <2>3, <2>4, <2>5, ConfigFacts DEF TypeOK
    <2> QED BY <1>4, <2>1, <2>2, <2>3, <2>5, <2>6, <2>7
  <1>7. \A t \in Threads : key[t] \in Keys
    BY <1>0 DEF TypeOK
  <1> QED BY <1>1, <1>2, <1>3, <1>5, <1>6, <1>7 DEF Next

\* The Limiters of patient clients are exact, and each is asked for by one goroutine.
LEMMA ExactInvariant ==
    ASSUME SmallBurst
    PROVE  Spec => [](LimiterInv /\ OneAtATime /\ Exact)
  <1>1. Init => OneAtATime /\ Exact
    BY SMT, PatientAssumption DEF Init, OneAtATime, Exact
  <1>2. LimiterInv /\ OneAtATime /\ Exact /\ [Next]_vars => OneAtATime' /\ Exact'
    BY ExactNext, StepOneAtATime DEF LimiterInv
  <1> QED BY <1>1, <1>2, LimiterInvariant, PTL DEF Spec

\* With a burst that leaks away before a cache entry expires, the admitted requests
\* of a patient client never exceed the burst and one request, whatever goroutines
\* serve it and whatever races other clients cause in CanHandle.
THEOREM LimitIsEnforcedHolds ==
    ASSUME SmallBurst
    PROVE  Spec => []LimitIsEnforced
  <1>1. LimiterInv /\ Exact => LimitIsEnforced
    <2> SUFFICES ASSUME LimiterInv, Exact, NEW k \in Patient
                 PROVE  ideal[k] <= MaxTime + TimeStep
      BY DEF LimitIsEnforced
    <2>1. CASE cache[k] = Nil
      BY SMT, <2>1, ConfigFacts DEF Exact
    <2>2. CASE cache[k] # Nil
      <3>1. /\ cache[k] \in Limiters /\ ideal[k] = Level(cache[k])
            /\ size[cache[k]] \in Nat /\ now - last[cache[k]] \in Nat
            /\ size[cache[k]] <= MaxTime + TimeStep
        BY SMT, <2>2, PatientAssumption DEF Exact, LimiterInv, TypeOK, References, LimiterIsBounded
      <3>2. Level(cache[k]) <= size[cache[k]] /\ Level(cache[k]) \in Nat
        BY <3>1, LeakFacts DEF Level
      <3> QED BY SMT, <3>1, <3>2, ConfigFacts
    <2> QED BY <2>1, <2>2
  <1> QED BY <1>1, ExactInvariant, PTL

\* With the same burst, CanHandle is to a patient client the leaky bucket that the
\* README's rate and burst describe.
THEOREM CanHandleImplementsBucket ==
    ASSUME SmallBurst
    PROVE  Spec => ImplementsBucket
  <1> DEFINE lev == [k \in Patient |-> ideal[k]]
             ans == [k \in Patient |-> answer[k]]
  <1>1. Init => Bucket!Init
    BY PatientAssumption DEF Init, Bucket!Init
  <1>2. ASSUME LimiterInv, OneAtATime, Exact, [Next]_vars
        PROVE  [Bucket!Next]_<<lev, ans>>
    <2>1. TypeOK /\ \A k \in Patient : k \in Keys
      BY <1>2, PatientAssumption DEF LimiterInv
    <2>2. CASE UNCHANGED vars
      BY <2>2 DEF vars
    <2>3. CASE Tick
      <3>1. UNCHANGED ans
        BY <2>3 DEF Tick
      <3>2. lev' = [c \in Patient |-> Bucket!Leak(lev[c])]
        BY SMT, <2>1, <2>3 DEF TypeOK, Tick, Leak, Bucket!Leak
      <3>3. Bucket!Tick
        BY <3>1, <3>2 DEF Bucket!Tick
      <3> QED BY <3>3 DEF Bucket!Next
    <2>4. ASSUME NEW t \in Threads, NEW k \in Keys, CanHandle(t, k)
          PROVE  [Bucket!Next]_<<lev, ans>>
      <3>1. lev' = lev /\ answer' = [answer EXCEPT ![k] = "asked"]
        BY <2>4 DEF CanHandle
      <3>2. CASE k \in Patient
        <4>1. ans[k] # "asked" /\ ans' = [ans EXCEPT ![k] = "asked"]
          BY <1>2, <2>1, <2>4, <3>1, <3>2 DEF TypeOK, OneAtATime, CanHandle
        <4>2. Bucket!Ask(k)
          BY <3>1, <4>1 DEF Bucket!Ask
        <4> QED BY <3>2, <4>2 DEF Bucket!Next
      <3>3. CASE k \notin Patient
        BY <2>1, <3>1, <3>3 DEF TypeOK
      <3> QED BY <3>2, <3>3
    <2>5. ASSUME NEW t \in Threads, Get(t)
          PROVE  [Bucket!Next]_<<lev, ans>>
      BY <2>5 DEF Get
    \* The answer to a client that is not patient does not show, nor does its bucket.
    <2>6. ASSUME NEW t \in Threads, Listed(t) \/ Locked(t) \/ Create(t), key[t] \notin Patient
          PROVE  [Bucket!Next]_<<lev, ans>>
      <3>1. \A j \in Patient : j # key[t] /\ ideal'[j] = ideal[j] /\ answer'[j] = answer[j]
        BY <2>1, <2>6 DEF TypeOK, Listed, Locked, Create, Admit
      <3> QED BY <3>1
    <2>7. ASSUME NEW t \in Threads, pc[t] # "idle", NEW k \in Patient, k = key[t],
                 NEW r \in {"yes", "no"}, answer' = [answer EXCEPT ![key[t]] = r]
          PROVE  Bucket!Reply(k, r)
      <3>1. ans[k] = "asked"
        BY <1>2, <2>7 DEF OneAtATime
      <3>2. ans' = [ans EXCEPT ![k] = r]
        BY <2>1, <2>7 DEF TypeOK
      <3> QED BY <3>1, <3>2 DEF Bucket!Reply
    <2>8. ASSUME NEW t \in Threads, Listed(t), NEW k \in Patient, k = key[t]
          PROVE  [Bucket!Next]_<<lev, ans>>
      <3>1. /\ \/ k \in Never /\ answer' = [answer EXCEPT ![key[t]] = "no"]
               \/ k \in Always \ Never /\ answer' = [answer EXCEPT ![key[t]] = "yes"]
            /\ lev' = lev /\ pc[t] # "idle"
        BY <2>8 DEF Listed, Always, Never
      <3>2. \/ k \in Never /\ Bucket!Reply(k, "no")
            \/ k \in Always \ Never /\ Bucket!Reply(k, "yes")
        BY <2>7, <2>8, <3>1
      <3>3. Bucket!Listed(k)
        BY <3>1, <3>2 DEF Bucket!Listed
      <3> QED BY <3>3 DEF Bucket!Next
    <2>9. ASSUME NEW k \in Patient, ideal' = [ideal EXCEPT ![k] = ideal[k] + TimeStep]
          PROVE  lev' = [lev EXCEPT ![k] = lev[k] + TimeStep]
      BY <2>1, <2>9 DEF TypeOK
    <2>10. ASSUME NEW t \in Threads, Locked(t), NEW k \in Patient, k = key[t]
           PROVE  [Bucket!Next]_<<lev, ans>>
      <3>1. k \notin Always \cup Never /\ l[t] = cache[k] /\ l[t] # Nil /\ pc[t] = "lock"
        BY <1>2, <2>1, <2>10 DEF LimiterInv, References, Exact, Locked
      <3>2. ideal[k] = Level(l[t])
        BY <1>2, <3>1 DEF Exact
      <3>3. \/ ideal[k] > MaxTime /\ answer' = [answer EXCEPT ![key[t]] = "no"] /\ ideal' = ideal
            \/ /\ ideal[k] <= MaxTime /\ answer' = [answer EXCEPT ![key[t]] = "yes"]
               /\ ideal' = [ideal EXCEPT ![k] = ideal[k] + TimeStep]
        BY <1>2, <2>10, <3>2, LockedFacts
      <3>4. \/ lev[k] > MaxTime /\ Bucket!Reply(k, "no") /\ lev' = lev
            \/ /\ lev[k] <= MaxTime /\ Bucket!Reply(k, "yes")
               /\ lev' = [lev EXCEPT ![k] = lev[k] + TimeStep]
        BY <2>7, <2>9, <2>10, <3>1, <3>3
      <3>5. Bucket!Admit(k) \/ Bucket!Refuse(k)
        BY <3>1, <3>4 DEF Bucket!Admit, Bucket!Refuse
      <3> QED BY <3>5 DEF Bucket!Next
    <2>11. ASSUME NEW t \in Threads, Create(t), NEW k \in Patient, k = key[t]
           PROVE  [Bucket!Next]_<<lev, ans>>
      <3>1. k \notin Always \cup Never /\ ideal[k] = 0 /\ pc[t] = "create"
        BY <1>2, <2>11 DEF Exact, Create
      <3>2. /\ answer' = [answer EXCEPT ![key[t]] = "yes"]
            /\ ideal' = [ideal EXCEPT ![k] = ideal[k] + TimeStep]
        BY <2>11 DEF Create, Admit
      <3>3. /\ lev[k] <= MaxTime /\ Bucket!Reply(k, "yes")
            /\ lev' = [lev EXCEPT ![k] = lev[k] + TimeStep]
        <4>1. lev[k] <= MaxTime
          BY SMT, <3>1, ConfigFacts
        <4>2. Bucket!Reply(k, "yes")
          BY <2>7, <2>11, <3>1, <3>2
        <4>3. lev' = [lev EXCEPT ![k] = lev[k] + TimeStep]
          BY <2>9, <3>2
        <4> QED BY <4>1, <4>2, <4>3
      <3>4. Bucket!Admit(k)
        BY <3>1, <3>3 DEF Bucket!Admit
      <3> QED BY <3>4 DEF Bucket!Next
    <2> QED BY <1>2, <2>2, <2>3, <2>4, <2>5, <2>6, <2>8, <2>10, <2>11 DEF Next
  <1> QED BY <1>1, <1>2, ExactInvariant, PTL DEF Spec, ImplementsBucket, Bucket!Spec
=============================================================================
