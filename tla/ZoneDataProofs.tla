-------------------------- MODULE ZoneDataProofs --------------------------
(***************************************************************************)
(* Proofs about ZoneData, for any set of goroutines and labels and any     *)
(* number of writes.                                                       *)
(***************************************************************************)
EXTENDS ZoneData, TLAPS

\* A leaf goes to Zenon unless it names SMT, for arithmetic and for records and
\* functions given by their values, or PTL, for the temporal steps.
USE ZenonT(60)

\* A flight leader that has read redis holds what it read.
Built ==
    \A r \in Reqs :
        /\ pc[r] \in {"config", "zoneSet"} => newZone[r] # Nil
        /\ pc[r] = "recordSet" => newRecord[r] # Nil

\* Whoever loads is the one registered with the singleflight group.
Registered ==
    \A r \in Reqs :
        /\ pc[r] \in LoadingZone => zoneInflight = r
        /\ pc[r] \in LoadingRecord => recordInflight[label[r]] = r

TypeInv == TypeOK /\ Built

\* A goroutine holds a record only from the record cache on.
Holding ==
    \A r \in Reqs : record[r] # Nil =>
        pc[r] \in {"recordDo", "recordWait", "hget", "recordSet", "reply"}

\* Redis only moves forward.
RedisOrder == \A l \in Labels : 1 <= hash[l].stamp /\ hash[l].stamp <= stamp

\* What was served is no newer than what is cached, that no newer than what a
\* flight is about to cache, and that no newer than redis.  Every goroutine
\* between the cache and its reply holds something in the same range.
ServedOrder ==
    \A l \in Labels :
        /\ served[l] <= hash[l].stamp
        /\ FromRedis(l, recordCache[l]) =>
                served[l] <= recordCache[l] /\ recordCache[l] <= hash[l].stamp

HeldOrder ==
    \A r \in Reqs :
        /\ floor[r] <= served[label[r]]
        /\ FromRedis(label[r], record[r]) =>
            /\ floor[r] <= record[r]
            /\ record[r] <= hash[label[r]].stamp
            /\ FromRedis(label[r], recordCache[label[r]]) => record[r] <= recordCache[label[r]]

FlightOrder ==
    \A r \in Reqs : pc[r] = "recordSet" =>
        /\ served[label[r]] <= newRecord[r]
        /\ newRecord[r] <= hash[label[r]].stamp
        /\ FromRedis(label[r], recordCache[label[r]]) => recordCache[label[r]] <= newRecord[r]
        /\ \A q \in Reqs : label[q] = label[r] /\ FromRedis(label[q], record[q])
                            => record[q] <= newRecord[r]

RecordInv ==
    /\ TypeInv /\ Registered /\ Holding
    /\ RedisOrder /\ ServedOrder /\ HeldOrder /\ FlightOrder

\* The same for the zone: what is cached was read before what is being loaded.
ZoneOrder ==
    /\ zoneCache # Nil => zoneCache.at <= stamp
    /\ \A r \in Reqs : pc[r] \in {"config", "zoneSet"} =>
            /\ newZone[r].at <= stamp
            /\ zoneCache # Nil => zoneCache.at <= newZone[r].at

\* Nil is not a stamp, and stamps are numbers.
LEMMA StampFacts == Nil \notin Stamp /\ Stamp \subseteq Nat /\ 0 \in Stamp /\ 1 \in Stamp
  BY SMT, NilAssumption, MaxStampAssumption DEF Stamp

\* The initial states have the right types.
LEMMA TypeInit == Init => TypeInv
  <1> SUFFICES ASSUME Init PROVE TypeInv
    OBVIOUS
  <1>1. [stamp : {1}, state : {"json", "absent"}] \subseteq Value
    BY StampFacts DEF Value
  <1>2. hash \in [Labels -> Value]
    BY <1>1 DEF Init
  <1>3. TypeOK
    BY <1>2, StampFacts, ApexAssumption, NilAssumption DEF Init, TypeOK, PC
  <1>4. Built
    BY DEF Init, Built
  <1> QED BY <1>3, <1>4 DEF TypeInv

\* What the end of a zone flight does to the types.
LEMMA ZoneReturnType ==
    ASSUME TypeOK, NEW r \in Reqs, NEW answer \in Zone \cup {Nil}, ZoneReturn(r, answer)
    PROVE  /\ zoneInflight' \in Reqs \cup {Nil}
           /\ pc' \in [Reqs -> PC]
           /\ zone' \in [Reqs -> Zone \cup {Nil}]
           /\ newZone' \in [Reqs -> Zone \cup {Nil}]
           /\ \A q \in Reqs : \/ pc'[q] = "locate"
                              \/ q # r /\ pc'[q] = pc[q] /\ newZone'[q] = newZone[q]
  BY DEF TypeOK, ZoneReturn, PC

\* What the end of a record flight does to the types.
LEMMA RecordReturnType ==
    ASSUME TypeOK, NEW r \in Reqs, NEW answer \in Stamp \cup {Nil}, RecordReturn(r, answer)
    PROVE  /\ recordInflight' \in [Labels -> Reqs \cup {Nil}]
           /\ pc' \in [Reqs -> PC]
           /\ record' \in [Reqs -> Stamp \cup {Nil}]
           /\ newRecord' \in [Reqs -> Stamp \cup {Nil}]
           /\ \A q \in Reqs : \/ pc'[q] = "reply"
                              \/ q # r /\ pc'[q] = pc[q] /\ newRecord'[q] = newRecord[q]
  BY DEF TypeOK, RecordReturn, PC

\* LoadZoneKeys keeps a zone a zone.
LEMMA LoadZoneKeysType ==
    ASSUME NEW z \in Zone, NEW k \in LoadZoneKeys(z)
    PROVE  k \in Zone /\ k # Nil /\ k.at = z.at /\ k.config = z.config
  <1>1. PICK s \in BOOLEAN : k = [z EXCEPT !.signed = s]
    BY DnsSecAssumption DEF LoadZoneKeys
  <1>2. k \in Zone /\ k.at = z.at /\ k.config = z.config
    BY <1>1 DEF Zone
  <1>3. k # Nil
    BY <1>2, NilAssumption
  <1> QED BY <1>2, <1>3

\* Every step preserves the types.
LEMMA TypeNext == TypeInv /\ [Next]_vars => TypeInv'
  <1> SUFFICES ASSUME TypeInv, [Next]_vars PROVE TypeInv'
    OBVIOUS
  <1> USE StampFacts, ApexAssumption, NilAssumption, MaxStampAssumption
      DEF TypeInv, TypeOK, Built, PC, LoadingZone, LoadingRecord
  <1>1. ASSUME NEW l \in Labels, NEW state \in {"json", "malformed", "absent"},
               WriteLocation(l, state)
        PROVE  TypeInv'
    BY SMT, <1>1 DEF WriteLocation, cacheVars, flightVars, historyVars, localVars, Stamp, Value
  <1>2. CASE ExpireZone
    BY <1>2 DEF ExpireZone, redisVars, flightVars, historyVars, localVars
  <1>3. ASSUME NEW l \in Labels, ExpireRecord(l) PROVE TypeInv'
    BY <1>3 DEF ExpireRecord, redisVars, flightVars, historyVars, localVars
  <1>4. CASE EvictZone
    BY <1>4 DEF EvictZone, redisVars, flightVars, historyVars, localVars
  <1>5. ASSUME NEW l \in Labels, EvictRecord(l) PROVE TypeInv'
    BY <1>5 DEF EvictRecord, redisVars, flightVars, historyVars, localVars
  <1>6. ASSUME NEW r \in Reqs, NEW l \in Labels, Request(r, l) PROVE TypeInv'
    BY <1>6 DEF Request, redisVars, cacheVars, flightVars
  <1>7. ASSUME NEW r \in Reqs, ZoneDo(r) PROVE TypeInv'
    BY SMT, <1>7 DEF ZoneDo, redisVars, cacheVars, historyVars, localVars
  <1>8. ASSUME NEW r \in Reqs, GetHKeys(r) PROVE TypeInv'
    <2>1. CASE ZoneReturn(r, Nil)
      <3> HIDE DEF PC
      <3> QED
        BY <1>8, <2>1, ZoneReturnType DEF GetHKeys, redisVars, cacheVars, historyVars
    <2>2. CASE ~ZoneReturn(r, Nil)
      <3> DEFINE z == [locations |-> {l \in Labels : hash[l].state # "absent"},
                       at |-> stamp, config |-> "default", signed |-> FALSE]
      <3>1. z \in Zone
        BY DEF Zone
      <3>2. newZone' = [newZone EXCEPT ![r] = z]
        BY <1>8, <2>2 DEF GetHKeys
      <3> HIDE DEF z
      <3> QED
        BY SMT, <1>8, <2>2, <3>1, <3>2 DEF GetHKeys, redisVars, cacheVars, historyVars
    <2> QED BY <2>1, <2>2
  <1>9. ASSUME NEW r \in Reqs, GetConfig(r) PROVE TypeInv'
    BY SMTT(30), <1>9 DEF GetConfig, redisVars, cacheVars, flightVars, historyVars, Zone
  <1>10. ASSUME NEW r \in Reqs, ZoneSet(r) PROVE TypeInv'
    <2>1. newZone[r] \in Zone
      BY <1>10 DEF ZoneSet
    <2>2. PICK z \in LoadZoneKeys(newZone[r]) :
                /\ \/ zoneCache' = z /\ zoneFresh' = TRUE
                   \/ zoneCache = Nil /\ UNCHANGED <<zoneCache, zoneFresh>>
                /\ ZoneReturn(r, z)
      BY <1>10 DEF ZoneSet
    <2>3. z \in Zone
      BY <2>1, LoadZoneKeysType
    <2> HIDE DEF PC
    <2> QED
      BY <1>10, <2>2, <2>3, ZoneReturnType DEF ZoneSet, redisVars, historyVars
  <1>11. ASSUME NEW r \in Reqs, Locate(r) PROVE TypeInv'
    BY SMT, <1>11 DEF Locate, redisVars, cacheVars, flightVars, historyVars
  <1>12. ASSUME NEW r \in Reqs, RecordDo(r) PROVE TypeInv'
    BY SMT, <1>12 DEF RecordDo, redisVars, cacheVars, historyVars, localVars
  <1>13. ASSUME NEW r \in Reqs, ImplicitRoot(r) PROVE TypeInv'
    <2>1. RecordReturn(r, 0) \/ RecordReturn(r, Nil)
      BY <1>13 DEF ImplicitRoot
    <2>2. /\ recordCache' \in [Labels -> Stamp \cup {Nil}]
          /\ recordFresh' \in [Labels -> BOOLEAN]
      <3>1. \/ UNCHANGED <<recordCache, recordFresh>>
            \/ /\ recordCache' = [recordCache EXCEPT ![Apex] = 0]
               /\ recordFresh' = [recordFresh EXCEPT ![Apex] = FALSE]
        BY <1>13 DEF ImplicitRoot
      <3>2. recordCache' \in [Labels -> Stamp \cup {Nil}]
        BY SMT, <3>1
      <3>3. recordFresh' \in [Labels -> BOOLEAN]
        BY <3>1
      <3> QED BY <3>2, <3>3
    <2> HIDE DEF PC
    <2> QED
      BY <1>13, <2>1, <2>2, RecordReturnType DEF ImplicitRoot, redisVars, historyVars
  <1>14. ASSUME NEW r \in Reqs, HGet(r) PROVE TypeInv'
    <2>1. CASE RecordReturn(r, Nil)
      <3> HIDE DEF PC
      <3> QED
        BY <1>14, <2>1, RecordReturnType DEF HGet, redisVars, cacheVars, historyVars
    <2>2. CASE ~RecordReturn(r, Nil)
      <3>1. hash[label[r]].stamp \in Stamp
        BY DEF Value
      <3> QED
        BY SMT, <1>14, <2>2, <3>1 DEF HGet, redisVars, cacheVars, historyVars
    <2> QED BY <2>1, <2>2
  <1>15. ASSUME NEW r \in Reqs, RecordSet(r) PROVE TypeInv'
    BY <1>15 DEF RecordSet, RecordReturn, redisVars, historyVars
  <1>16. ASSUME NEW r \in Reqs, Reply(r) PROVE TypeInv'
    BY <1>16 DEF Reply, redisVars, cacheVars, flightVars
  <1>17. CASE UNCHANGED vars
    BY <1>17 DEF vars, redisVars, cacheVars, flightVars, historyVars, localVars
  <1> HIDE DEF TypeInv
  <1> QED
    BY <1>1, <1>2, <1>3, <1>4, <1>5, <1>6, <1>7, <1>8, <1>9, <1>10, <1>11, <1>12,
       <1>13, <1>14, <1>15, <1>16, <1>17 DEF Next, Environment, Load

\* Type correctness of LoadZone and LoadLocation.
THEOREM TypeCorrect == Spec => []TypeOK
  <1>1. Spec => []TypeInv
    BY TypeInit, TypeNext, PTL DEF Spec
  <1> QED BY <1>1, PTL DEF TypeInv

\* Registered and Holding are inductive relative to the types.
LEMMA RegisteredNext ==
    TypeInv /\ Registered /\ Holding /\ [Next]_vars => Registered' /\ Holding'
  <1> SUFFICES ASSUME TypeInv, Registered, Holding, [Next]_vars
               PROVE  Registered' /\ Holding'
    OBVIOUS
  <1> USE StampFacts, NilAssumption
      DEF TypeInv, TypeOK, Registered, Holding, LoadingZone, LoadingRecord
  <1>1. CASE Environment
    BY <1>1 DEF Environment, WriteLocation, ExpireZone, ExpireRecord, EvictZone,
                EvictRecord, flightVars, localVars
  <1>2. ASSUME NEW r \in Reqs, NEW l \in Labels, Request(r, l)
        PROVE  Registered' /\ Holding'
    BY <1>2 DEF Request, flightVars
  <1>3. ASSUME NEW r \in Reqs, ZoneDo(r) PROVE Registered' /\ Holding'
    BY SMT, <1>3 DEF ZoneDo, localVars
  <1>4. ASSUME NEW r \in Reqs, GetHKeys(r) PROVE Registered' /\ Holding'
    BY SMT, <1>4 DEF GetHKeys, ZoneReturn
  <1>5. ASSUME NEW r \in Reqs, GetConfig(r) PROVE Registered' /\ Holding'
    BY <1>5 DEF GetConfig, flightVars
  <1>6. ASSUME NEW r \in Reqs, ZoneSet(r) PROVE Registered' /\ Holding'
    BY SMT, <1>6 DEF ZoneSet, ZoneReturn
  <1>7. ASSUME NEW r \in Reqs, Locate(r) PROVE Registered' /\ Holding'
    BY SMT, <1>7 DEF Locate, flightVars
  <1>8. ASSUME NEW r \in Reqs, RecordDo(r) PROVE Registered' /\ Holding'
    BY SMT, <1>8 DEF RecordDo, localVars
  <1>9. ASSUME NEW r \in Reqs, ImplicitRoot(r) PROVE Registered' /\ Holding'
    BY SMT, <1>9 DEF ImplicitRoot, RecordReturn
  <1>10. ASSUME NEW r \in Reqs, HGet(r) PROVE Registered' /\ Holding'
    BY SMT, <1>10 DEF HGet, RecordReturn
  <1>11. ASSUME NEW r \in Reqs, RecordSet(r) PROVE Registered' /\ Holding'
    BY <1>11 DEF RecordSet, RecordReturn
  <1>12. ASSUME NEW r \in Reqs, Reply(r) PROVE Registered' /\ Holding'
    BY <1>12 DEF Reply, flightVars
  <1>13. CASE UNCHANGED vars
    BY <1>13 DEF vars, flightVars, localVars
  <1> HIDE DEF Registered, Holding
  <1> QED
    BY <1>1, <1>2, <1>3, <1>4, <1>5, <1>6, <1>7, <1>8, <1>9, <1>10, <1>11, <1>12,
       <1>13 DEF Next, Load

\* At most one goroutine loads the zone and one each location.
LEMMA RegisteredIsOneLoader == TypeInv /\ Registered => OneLoader
  BY DEF TypeInv, TypeOK, Registered, OneLoader

OrderInv == RedisOrder /\ ServedOrder /\ HeldOrder /\ FlightOrder

\* The numbers among the state: the arithmetic of the order needs no more types.
Numbers ==
    /\ stamp \in Nat
    /\ \A l \in Labels :
        /\ hash[l].stamp \in Nat /\ served[l] \in Nat
        /\ recordCache[l] # Nil => recordCache[l] \in Nat
    /\ \A r \in Reqs :
        /\ label[r] \in Labels /\ floor[r] \in Nat
        /\ record[r] # Nil => record[r] \in Nat
        /\ newRecord[r] # Nil => newRecord[r] \in Nat
        /\ pc[r] = "recordSet" => newRecord[r] # Nil

\* The types say which stamps are numbers that can be compared.
LEMMA TypesGiveNumbers == TypeInv => Numbers
  BY StampFacts DEF TypeInv, TypeOK, Built, Numbers, Value

\* Each step keeps what is served, cached, loaded and stored in order.
LEMMA OrderNext == RecordInv /\ [Next]_vars => OrderInv'
  <1>0. SUFFICES ASSUME RecordInv, [Next]_vars PROVE OrderInv'
    OBVIOUS
  <1>a. TypeOK /\ Numbers
    BY <1>0, TypesGiveNumbers DEF RecordInv, TypeInv
  <1>b. RedisOrder /\ ServedOrder /\ HeldOrder /\ FlightOrder
    BY <1>0 DEF RecordInv
  <1>c. ASSUME UNCHANGED <<stamp, hash, recordCache, served, floor, label, record>>,
               \A q \in Reqs : pc'[q] = "recordSet" =>
                    pc[q] = "recordSet" /\ newRecord'[q] = newRecord[q]
        PROVE  OrderInv'
    BY <1>b, <1>c DEF OrderInv, RedisOrder, ServedOrder, HeldOrder, FlightOrder
  <1>1. ASSUME NEW l \in Labels, NEW state \in {"json", "malformed", "absent"},
               WriteLocation(l, state)
        PROVE  OrderInv'
    <2>1. /\ stamp' = stamp + 1
          /\ \A k \in Labels : hash'[k] = IF k = l THEN [stamp |-> stamp + 1, state |-> state]
                                           ELSE hash[k]
          /\ UNCHANGED <<recordCache, served, floor, label, record, newRecord, pc>>
      BY <1>1, <1>a DEF WriteLocation, TypeOK, cacheVars, historyVars, localVars
    <2>2. \A k \in Labels : hash'[k].stamp = IF k = l THEN stamp + 1 ELSE hash[k].stamp
      BY SMT, <2>1
    <2>3. RedisOrder'
      BY SMT, <1>a, <1>b, <2>1, <2>2 DEF Numbers, RedisOrder
    <2>4. \A k \in Labels : /\ hash[k].stamp \in Nat /\ hash'[k].stamp \in Nat
                            /\ hash[k].stamp <= hash'[k].stamp
      BY SMT, <1>a, <1>b, <2>2 DEF Numbers, RedisOrder
    <2>5. ServedOrder'
      BY SMT, <1>a, <1>b, <2>1, <2>4 DEF Numbers, ServedOrder, FromRedis
    <2>6. HeldOrder'
      BY SMT, <1>a, <1>b, <2>1, <2>4 DEF Numbers, HeldOrder, FromRedis
    <2>7. FlightOrder'
      BY SMT, <1>a, <1>b, <2>1, <2>4 DEF Numbers, FlightOrder, FromRedis
    <2> QED BY <2>3, <2>5, <2>6, <2>7 DEF OrderInv
  <1>2. CASE ExpireZone
    BY <1>2, <1>c DEF ExpireZone, redisVars, historyVars, localVars
  <1>3. ASSUME NEW l \in Labels, ExpireRecord(l) PROVE OrderInv'
    BY <1>3, <1>c DEF ExpireRecord, redisVars, historyVars, localVars
  <1>4. CASE EvictZone
    BY <1>4, <1>c DEF EvictZone, redisVars, historyVars, localVars
  <1>5. ASSUME NEW l \in Labels, EvictRecord(l) PROVE OrderInv'
    <2>1. /\ UNCHANGED <<stamp, hash, served, floor, label, record, newRecord, pc>>
          /\ \A k \in Labels : recordCache'[k] \in {recordCache[k], Nil}
      BY <1>5, <1>a DEF EvictRecord, TypeOK, redisVars, historyVars, localVars
    <2>2. RedisOrder' /\ ServedOrder'
      BY <1>b, <2>1 DEF RedisOrder, ServedOrder, FromRedis
    <2>3. HeldOrder'
      BY <1>a, <1>b, <2>1 DEF Numbers, HeldOrder, FromRedis
    <2>4. FlightOrder'
      BY <1>a, <1>b, <2>1 DEF Numbers, FlightOrder, FromRedis
    <2> QED BY <2>2, <2>3, <2>4 DEF OrderInv
  <1>6. ASSUME NEW r \in Reqs, NEW l \in Labels, Request(r, l) PROVE OrderInv'
    <2>1. /\ UNCHANGED <<stamp, hash, recordCache, served, record, newRecord>>
          /\ \A q \in Reqs \ {r} : pc'[q] = pc[q] /\ label'[q] = label[q] /\ floor'[q] = floor[q]
          /\ pc'[r] # "recordSet" /\ label'[r] = l /\ floor'[r] = served[l]
      BY <1>6, <1>a DEF Request, TypeOK, redisVars, cacheVars
    <2>2. record[r] = Nil
      BY <1>6, <1>0 DEF Request, RecordInv, Holding
    <2>3. RedisOrder' /\ ServedOrder'
      BY <1>b, <2>1 DEF RedisOrder, ServedOrder
    <2>4. HeldOrder'
      BY SMT, <1>a, <1>b, <2>1, <2>2 DEF Numbers, HeldOrder, FromRedis
    <2>5. FlightOrder'
      BY <1>b, <2>1, <2>2 DEF FlightOrder, FromRedis
    <2> QED BY <2>3, <2>4, <2>5 DEF OrderInv
  <1>7. ASSUME NEW r \in Reqs, ZoneDo(r) PROVE OrderInv'
    <2>1. \A q \in Reqs : pc'[q] = "recordSet" => pc[q] = "recordSet"
      BY <1>7, <1>a DEF ZoneDo, TypeOK
    <2> QED BY <1>7, <1>c, <2>1 DEF ZoneDo, redisVars, cacheVars, historyVars, localVars
  <1>8. ASSUME NEW r \in Reqs, GetHKeys(r) PROVE OrderInv'
    <2>1. \A q \in Reqs : pc'[q] = "recordSet" => pc[q] = "recordSet"
      BY <1>8, <1>a DEF GetHKeys, ZoneReturn, TypeOK
    <2> QED BY <1>8, <1>c, <2>1 DEF GetHKeys, redisVars, cacheVars, historyVars
  <1>9. ASSUME NEW r \in Reqs, GetConfig(r) PROVE OrderInv'
    <2>1. \A q \in Reqs : pc'[q] = "recordSet" => pc[q] = "recordSet"
      BY <1>9, <1>a DEF GetConfig, TypeOK
    <2> QED BY <1>9, <1>c, <2>1 DEF GetConfig, redisVars, cacheVars, historyVars
  <1>10. ASSUME NEW r \in Reqs, ZoneSet(r) PROVE OrderInv'
    <2>1. \A q \in Reqs : pc'[q] = "recordSet" => pc[q] = "recordSet"
      BY <1>10, <1>a DEF ZoneSet, ZoneReturn, TypeOK
    <2> QED BY <1>10, <1>c, <2>1 DEF ZoneSet, redisVars, historyVars
  <1>11. ASSUME NEW r \in Reqs, Locate(r) PROVE OrderInv'
    <2>1. /\ UNCHANGED <<stamp, hash, recordCache, served, floor, label, newRecord>>
          /\ \A q \in Reqs \ {r} : pc'[q] = pc[q] /\ record'[q] = record[q]
          /\ pc'[r] # "recordSet" /\ record'[r] \in {record[r], recordCache[label[r]]}
      BY <1>11, <1>a DEF Locate, TypeOK, redisVars, cacheVars, historyVars
    <2>2. RedisOrder' /\ ServedOrder'
      BY <1>b, <2>1 DEF RedisOrder, ServedOrder
    <2>3. HeldOrder'
      <3>1. ASSUME FromRedis(label[r], recordCache[label[r]])
            PROVE  /\ floor[r] <= recordCache[label[r]]
                   /\ recordCache[label[r]] <= hash[label[r]].stamp
        BY SMT, <1>a, <1>b, <3>1 DEF Numbers, HeldOrder, ServedOrder, FromRedis
      <3> QED BY SMT, <1>a, <1>b, <2>1, <3>1 DEF Numbers, HeldOrder, FromRedis
    <2>4. FlightOrder'
      BY SMT, <1>a, <1>b, <2>1 DEF Numbers, FlightOrder, FromRedis
    <2> QED BY <2>2, <2>3, <2>4 DEF OrderInv
  <1>12. ASSUME NEW r \in Reqs, RecordDo(r) PROVE OrderInv'
    <2>1. \A q \in Reqs : pc'[q] = "recordSet" => pc[q] = "recordSet"
      BY <1>12, <1>a DEF RecordDo, TypeOK
    <2> QED BY <1>12, <1>c, <2>1 DEF RecordDo, redisVars, cacheVars, historyVars, localVars
  <1>13. ASSUME NEW r \in Reqs, ImplicitRoot(r) PROVE OrderInv'
    <2>1. UNCHANGED <<stamp, hash, served, floor, label>>
      BY <1>13 DEF ImplicitRoot, redisVars, historyVars
    <2>2. \A l \in Labels :
            recordCache'[l] = recordCache[l] \/ ~FromRedis(l, recordCache'[l])
      BY <1>13, <1>a DEF ImplicitRoot, TypeOK, FromRedis
    <2>3. \A q \in Reqs : record'[q] = record[q] \/ ~FromRedis(label[q], record'[q])
      BY SMT, <1>13, <1>a DEF ImplicitRoot, RecordReturn, TypeOK, FromRedis
    <2>4. \A q \in Reqs : pc'[q] = "recordSet" =>
                pc[q] = "recordSet" /\ newRecord'[q] = newRecord[q]
      BY SMT, <1>13, <1>a DEF ImplicitRoot, RecordReturn, TypeOK
    <2>5. RedisOrder' /\ ServedOrder'
      BY <1>b, <2>1, <2>2 DEF RedisOrder, ServedOrder
    <2>6. HeldOrder'
      BY <1>a, <1>b, <2>1, <2>2, <2>3 DEF Numbers, HeldOrder
    <2>7. FlightOrder'
      BY <1>a, <1>b, <2>1, <2>2, <2>3, <2>4 DEF Numbers, FlightOrder
    <2> QED BY <2>5, <2>6, <2>7 DEF OrderInv
  <1>14. ASSUME NEW r \in Reqs, HGet(r) PROVE OrderInv'
    <2>1. UNCHANGED <<stamp, hash, recordCache, served, floor, label>>
      BY <1>14 DEF HGet, redisVars, cacheVars, historyVars
    <2>2. \A q \in Reqs : record'[q] = record[q]
      BY <1>14, <1>a DEF HGet, RecordReturn, TypeOK
    <2>3. \A q \in Reqs : pc'[q] = "recordSet" =>
                \/ pc[q] = "recordSet" /\ newRecord'[q] = newRecord[q]
                \/ newRecord'[q] = hash[label[q]].stamp
      BY SMT, <1>14, <1>a DEF HGet, RecordReturn, TypeOK
    <2>4. RedisOrder' /\ ServedOrder'
      BY <1>b, <2>1 DEF RedisOrder, ServedOrder
    <2>5. HeldOrder'
      BY <1>b, <2>1, <2>2 DEF HeldOrder
    <2>6. FlightOrder'
      <3> SUFFICES ASSUME NEW p \in Reqs, pc'[p] = "recordSet"
                   PROVE  /\ served[label[p]] <= newRecord'[p]
                          /\ newRecord'[p] <= hash[label[p]].stamp
                          /\ FromRedis(label[p], recordCache[label[p]])
                                => recordCache[label[p]] <= newRecord'[p]
                          /\ \A q \in Reqs : label[q] = label[p] /\ FromRedis(label[q], record[q])
                                => record[q] <= newRecord'[p]
        BY <2>1, <2>2 DEF FlightOrder
      <3>1. CASE pc[p] = "recordSet" /\ newRecord'[p] = newRecord[p]
        BY <1>b, <3>1 DEF FlightOrder
      <3>2. CASE newRecord'[p] = hash[label[p]].stamp
        BY SMT, <1>a, <1>b, <3>2 DEF Numbers, ServedOrder, HeldOrder
      <3> QED BY <2>3, <3>1, <3>2
    <2> QED BY <2>4, <2>5, <2>6 DEF OrderInv
  <1>15. ASSUME NEW r \in Reqs, RecordSet(r) PROVE OrderInv'
    <2> DEFINE l == label[r]
    <2>1. /\ UNCHANGED <<stamp, hash, served, floor, label>>
          /\ \A k \in Labels \ {l} : recordCache'[k] = recordCache[k]
          /\ \/ recordCache'[l] = newRecord[r]
             \/ recordCache[l] = Nil /\ recordCache'[l] = Nil
      BY <1>15, <1>a DEF RecordSet, TypeOK, redisVars, historyVars
    <2>2. /\ \A q \in Reqs : \/ record'[q] = record[q]
                             \/ label[q] = l /\ record'[q] = newRecord[r]
          /\ \A q \in Reqs : pc'[q] = "recordSet" =>
                q # r /\ pc[q] = "recordSet" /\ newRecord'[q] = newRecord[q]
      BY <1>15, <1>a DEF RecordSet, RecordReturn, TypeOK
    <2>3. /\ pc[r] = "recordSet" /\ newRecord[r] # Nil
          /\ \A q \in Reqs : pc[q] = "recordSet" /\ label[q] = l => q = r
      BY <1>15, <1>0, <1>a DEF RecordSet, RecordInv, Registered, LoadingRecord, Numbers
    <2>4. RedisOrder'
      BY <1>b, <2>1 DEF RedisOrder
    <2>5. ServedOrder'
      BY <1>a, <1>b, <2>1, <2>3 DEF Numbers, ServedOrder, FlightOrder, FromRedis
    <2>6. HeldOrder'
      <3> SUFFICES ASSUME NEW p \in Reqs
                   PROVE  /\ floor[p] <= served[label[p]]
                          /\ FromRedis(label[p], record'[p]) =>
                                /\ floor[p] <= record'[p]
                                /\ record'[p] <= hash[label[p]].stamp
                                /\ FromRedis(label[p], recordCache'[label[p]])
                                    => record'[p] <= recordCache'[label[p]]
        BY <2>1 DEF HeldOrder
      <3>1. CASE label[p] # l
        <4>1. record'[p] = record[p] /\ recordCache'[label[p]] = recordCache[label[p]]
          BY <1>a, <2>1, <2>2, <3>1 DEF Numbers
        <4> QED BY <1>b, <4>1 DEF HeldOrder
      <3>2. CASE label[p] = l
        <4>1. /\ floor[p] <= served[l] /\ served[l] <= newRecord[r]
              /\ newRecord[r] <= hash[l].stamp
              /\ FromRedis(l, record[p]) =>
                    /\ floor[p] <= record[p] /\ record[p] <= hash[l].stamp
                    /\ record[p] <= newRecord[r]
          BY <1>b, <2>3, <3>2 DEF HeldOrder, FlightOrder
        <4>2. FromRedis(l, recordCache'[l]) => recordCache'[l] = newRecord[r]
          BY <2>1 DEF FromRedis
        <4>3. record'[p] = record[p] \/ record'[p] = newRecord[r]
          BY <2>2
        <4>4. /\ floor[p] \in Nat /\ served[l] \in Nat /\ newRecord[r] \in Nat
              /\ FromRedis(l, record[p]) => record[p] \in Nat
          BY <1>a, <2>3 DEF Numbers, FromRedis
        <4> QED BY SMT, <3>2, <4>1, <4>2, <4>3, <4>4
      <3> QED BY <3>1, <3>2
    <2>7. FlightOrder'
      <3> SUFFICES ASSUME NEW p \in Reqs, pc'[p] = "recordSet"
                   PROVE  /\ served[label[p]] <= newRecord'[p]
                          /\ newRecord'[p] <= hash[label[p]].stamp
                          /\ FromRedis(label[p], recordCache'[label[p]])
                                => recordCache'[label[p]] <= newRecord'[p]
                          /\ \A q \in Reqs : label[q] = label[p] /\ FromRedis(label[q], record'[q])
                                => record'[q] <= newRecord'[p]
        BY <2>1 DEF FlightOrder
      <3>1. /\ pc[p] = "recordSet" /\ newRecord'[p] = newRecord[p]
            /\ label[p] \in Labels \ {l}
        BY <1>a, <2>2, <2>3 DEF Numbers
      <3>2. recordCache'[label[p]] = recordCache[label[p]]
        BY <2>1, <3>1
      <3>3. \A q \in Reqs : label[q] = label[p] => record'[q] = record[q]
        BY <2>2, <3>1
      <3> QED BY <1>b, <3>1, <3>2, <3>3 DEF FlightOrder
    <2> QED BY <2>4, <2>5, <2>6, <2>7 DEF OrderInv
  <1>16. ASSUME NEW r \in Reqs, Reply(r) PROVE OrderInv'
    <2>1. UNCHANGED <<stamp, hash, recordCache, newRecord>>
      BY <1>16 DEF Reply, redisVars, cacheVars
    <2>2. /\ label'[r] = Apex /\ record'[r] = Nil /\ floor'[r] = 0 /\ pc'[r] = "idle"
          /\ \A q \in Reqs \ {r} : /\ label'[q] = label[q] /\ pc'[q] = pc[q]
                                   /\ floor'[q] = floor[q] /\ record'[q] = record[q]
      BY <1>16, <1>a DEF Reply, TypeOK
    <2>3. \A l \in Labels :
            \/ served'[l] = served[l]
            \/ /\ l = label[r] /\ l # Apex /\ record[r] # Nil
               /\ served'[l] = record[r] /\ served[l] <= record[r]
      BY SMT, <1>16, <1>a DEF Reply, TypeOK, Numbers
    <2>4. RedisOrder'
      BY <1>b, <2>1 DEF RedisOrder
    <2>5. ServedOrder'
      BY <1>b, <2>1, <2>3 DEF ServedOrder, HeldOrder, FromRedis
    <2>6. HeldOrder'
      <3>1. \A l \in Labels : served'[l] \in Nat /\ served[l] <= served'[l]
        BY SMT, <1>a, <2>3 DEF Numbers
      <3>2. /\ floor'[r] <= served'[label'[r]] /\ ~FromRedis(label'[r], record'[r])
        BY SMT, <2>2, <3>1, ApexAssumption DEF FromRedis
      <3>3. ASSUME NEW q \in Reqs \ {r}
            PROVE  floor[q] <= served'[label[q]]
        BY SMT, <1>a, <1>b, <3>1 DEF Numbers, HeldOrder
      <3> QED BY <1>b, <2>1, <2>2, <3>2, <3>3 DEF HeldOrder
    <2>7. FlightOrder'
      <3> SUFFICES ASSUME NEW p \in Reqs \ {r}, pc[p] = "recordSet"
                   PROVE  /\ served'[label[p]] <= newRecord[p]
                          /\ \A q \in Reqs : label'[q] = label[p] /\ FromRedis(label'[q], record'[q])
                                => record'[q] <= newRecord[p]
        BY <1>b, <2>1, <2>2 DEF FlightOrder
      <3>1. served'[label[p]] <= newRecord[p]
        BY <1>a, <1>b, <2>3 DEF Numbers, FlightOrder, FromRedis
      <3>2. ~FromRedis(label'[r], record'[r])
        BY <2>2 DEF FromRedis
      <3> QED BY <1>b, <2>2, <3>1, <3>2 DEF FlightOrder
    <2> QED BY <2>4, <2>5, <2>6, <2>7 DEF OrderInv
  <1>17. CASE UNCHANGED vars
    BY <1>17, <1>c DEF vars, redisVars, cacheVars, flightVars, historyVars, localVars
  <1> QED
    BY <1>0, <1>1, <1>2, <1>3, <1>4, <1>5, <1>6, <1>7, <1>8, <1>9, <1>10, <1>11, <1>12,
       <1>13, <1>14, <1>15, <1>16, <1>17 DEF Next, Environment, Load

\* RecordInv holds initially and is preserved.
LEMMA RecordInvInit == Init => RecordInv
  <1> SUFFICES ASSUME Init PROVE RecordInv
    OBVIOUS
  <1>1. TypeInv
    BY TypeInit
  <1>2. \A l \in Labels : hash[l].stamp = 1
    BY DEF Init
  <1>3. Registered /\ Holding
    BY DEF Init, Registered, Holding, LoadingZone, LoadingRecord
  <1>4. RedisOrder /\ ServedOrder /\ HeldOrder /\ FlightOrder
    <2>1. RedisOrder /\ FlightOrder
      BY SMT, <1>2 DEF Init, RedisOrder, FlightOrder
    <2>2. \A l \in Labels : served[l] = 0 /\ served[l] <= hash[l].stamp /\ recordCache[l] = Nil
      BY SMT, <1>2 DEF Init
    <2>3. \A r \in Reqs : floor[r] = 0 /\ served[label[r]] = 0 /\ record[r] = Nil
      BY <2>2, ApexAssumption DEF Init
    <2>4. 0 <= 0
      BY SMT
    <2> QED BY <2>1, <2>2, <2>3, <2>4 DEF ServedOrder, HeldOrder, FromRedis
  <1> QED BY <1>1, <1>3, <1>4 DEF RecordInv

\* RecordInv is an invariant.
LEMMA RecordInvariant == Spec => []RecordInv
  <1>1. RecordInv /\ [Next]_vars => RecordInv'
    <2> SUFFICES ASSUME RecordInv, [Next]_vars PROVE RecordInv'
      OBVIOUS
    <2>1. TypeInv'
      BY TypeNext DEF RecordInv
    <2>2. Registered' /\ Holding'
      BY RegisteredNext DEF RecordInv
    <2>3. OrderInv'
      BY OrderNext
    <2> QED BY <2>1, <2>2, <2>3 DEF RecordInv, OrderInv
  <1> QED BY RecordInvInit, <1>1, PTL DEF Spec

\* Per key, the singleflight groups admit one loading goroutine at a time.
THEOREM OneLoaderHolds == Spec => []OneLoader
  <1>1. RecordInv => OneLoader
    BY RegisteredIsOneLoader DEF RecordInv
  <1> QED BY RecordInvariant, <1>1, PTL

\* LoadLocation's answers never go back in time: whatever redis commands fail,
\* whichever goroutines share flights and whatever the cache evicts, a request
\* gets a record at least as new as any served before it arrived.
THEOREM MonotonicReadsHold == Spec => []MonotonicReads
  <1>1. RecordInv => MonotonicReads
    BY TypesGiveNumbers DEF RecordInv, HeldOrder, MonotonicReads, Numbers, FromRedis
  <1> QED BY RecordInvariant, <1>1, PTL

\* Each step keeps the cached zone older than the one being loaded.
LEMMA ZoneOrderNext == RecordInv /\ ZoneOrder /\ [Next]_vars => ZoneOrder'
  <1>0. SUFFICES ASSUME RecordInv, ZoneOrder, [Next]_vars PROVE ZoneOrder'
    OBVIOUS
  <1>a. TypeOK /\ Built /\ Registered
    BY <1>0 DEF RecordInv, TypeInv
  <1>b. \A z \in Zone : z.at \in Nat
    BY StampFacts DEF Zone
  <1>c. /\ stamp \in Nat
        /\ zoneCache # Nil => zoneCache.at \in Nat
        /\ \A q \in Reqs : pc[q] \in {"config", "zoneSet"} => newZone[q].at \in Nat
    BY <1>a, <1>b, StampFacts DEF TypeOK, Built
  <1>d. ASSUME UNCHANGED <<stamp, zoneCache, newZone>>,
               \A q \in Reqs : pc'[q] \in {"config", "zoneSet"} => pc'[q] = pc[q]
        PROVE  ZoneOrder'
    BY <1>0, <1>d DEF ZoneOrder
  <1>1. CASE Environment
    <2>1. /\ UNCHANGED <<pc, newZone>>
          /\ zoneCache' \in {zoneCache, Nil}
          /\ stamp' \in {stamp, stamp + 1}
      BY <1>1 DEF Environment, WriteLocation, ExpireZone, ExpireRecord, EvictZone,
                  EvictRecord, redisVars, cacheVars, localVars
    <2> QED BY SMT, <1>0, <1>c, <2>1 DEF ZoneOrder
  <1>2. ASSUME NEW r \in Reqs, NEW l \in Labels, Request(r, l) PROVE ZoneOrder'
    <2>1. \A q \in Reqs : pc'[q] \in {"config", "zoneSet"} => pc'[q] = pc[q]
      BY <1>2, <1>a DEF TypeOK, Request
    <2> QED BY <1>2, <1>d, <2>1 DEF Request, redisVars, cacheVars
  <1>3. ASSUME NEW r \in Reqs, GetHKeys(r) PROVE ZoneOrder'
    <2>1. UNCHANGED <<stamp, zoneCache>>
      BY <1>3 DEF GetHKeys, redisVars, cacheVars
    <2>2. \A q \in Reqs : pc'[q] \in {"config", "zoneSet"} =>
                \/ pc[q] \in {"config", "zoneSet"} /\ newZone'[q] = newZone[q]
                \/ newZone'[q].at = stamp
      BY SMT, <1>3, <1>a DEF TypeOK, GetHKeys, ZoneReturn
    <2> QED BY SMT, <1>0, <1>c, <2>1, <2>2 DEF ZoneOrder
  <1>4. ASSUME NEW r \in Reqs, GetConfig(r) PROVE ZoneOrder'
    <2>1. UNCHANGED <<stamp, zoneCache>>
      BY <1>4 DEF GetConfig, redisVars, cacheVars
    <2>2. newZone[r] \in Zone
      BY <1>4, <1>a DEF TypeOK, Built, GetConfig
    <2>3. \A q \in Reqs : pc'[q] \in {"config", "zoneSet"} =>
                pc[q] \in {"config", "zoneSet"} /\ newZone'[q].at = newZone[q].at
      BY SMT, <1>4, <1>a, <2>2 DEF TypeOK, GetConfig, Zone
    <2> QED BY <1>0, <2>1, <2>3 DEF ZoneOrder
  <1>5. ASSUME NEW r \in Reqs, ZoneSet(r) PROVE ZoneOrder'
    <2>1. newZone[r] \in Zone
      BY <1>5, <1>a DEF TypeOK, Built, ZoneSet
    <2>2. zoneCache' = zoneCache \/ (zoneCache' # Nil /\ zoneCache'.at = newZone[r].at)
      BY SMT, <1>5, <2>1, LoadZoneKeysType DEF ZoneSet
    <2>3. \A q \in Reqs : pc'[q] \notin {"config", "zoneSet"}
      BY <1>5, <1>a DEF TypeOK, ZoneSet, ZoneReturn, Registered, LoadingZone
    <2> QED BY <1>0, <1>5, <2>2, <2>3 DEF ZoneOrder, ZoneSet, redisVars
  <1>6. ASSUME NEW r \in Reqs,
               ZoneDo(r) \/ Locate(r) \/ RecordDo(r) \/ ImplicitRoot(r) \/ HGet(r)
                \/ RecordSet(r) \/ Reply(r)
        PROVE  ZoneOrder'
    <2>1. UNCHANGED <<stamp, zoneCache, newZone>>
      BY <1>6 DEF ZoneDo, Locate, RecordDo, ImplicitRoot, HGet, RecordSet, Reply,
                  redisVars, cacheVars, localVars
    <2>2. \A q \in Reqs : pc'[q] \in {"config", "zoneSet"} => pc'[q] = pc[q]
      <3>1. CASE ZoneDo(r) \/ RecordDo(r)
        BY <3>1, <1>a DEF TypeOK, ZoneDo, RecordDo
      <3>2. CASE Locate(r)
        BY <3>2, <1>a DEF TypeOK, Locate
      <3>3. CASE ImplicitRoot(r)
        BY SMT, <3>3, <1>a DEF TypeOK, ImplicitRoot, RecordReturn
      <3>4. CASE HGet(r)
        BY <3>4, <1>a DEF TypeOK, HGet, RecordReturn
      <3>5. CASE RecordSet(r)
        BY <3>5, <1>a DEF TypeOK, RecordSet, RecordReturn
      <3>6. CASE Reply(r)
        BY <3>6, <1>a DEF TypeOK, Reply
      <3> QED BY <1>6, <3>1, <3>2, <3>3, <3>4, <3>5, <3>6
    <2> QED BY <1>d, <2>1, <2>2
  <1>7. CASE UNCHANGED vars
    BY <1>7, <1>d DEF vars, redisVars, cacheVars, localVars
  <1> QED BY <1>0, <1>1, <1>2, <1>3, <1>4, <1>5, <1>6, <1>7 DEF Next, Load

\* A flight that ends never puts an older zone or record over a newer one.
THEOREM CacheNeverRegressesHolds == Spec => CacheNeverRegresses
  <1>1. Init => ZoneOrder
    BY DEF Init, ZoneOrder
  <1>2. Spec => []ZoneOrder
    BY <1>1, ZoneOrderNext, RecordInvariant, PTL DEF Spec
  <1>3. ASSUME RecordInv, ZoneOrder, [Next]_vars, zoneCache # Nil, zoneCache' # Nil
        PROVE  zoneCache'.at >= zoneCache.at
    <2>1. TypeOK /\ Built
      BY <1>3 DEF RecordInv, TypeInv
    <2>2. \A z \in Zone : z.at \in Nat
      BY StampFacts DEF Zone
    <2>3. zoneCache.at \in Nat
      BY <1>3, <2>1, <2>2 DEF TypeOK
    <2>4. ASSUME NEW r \in Reqs, ZoneSet(r) PROVE zoneCache'.at >= zoneCache.at
      <3>1. newZone[r] \in Zone
        BY <2>1, <2>4 DEF TypeOK, Built, ZoneSet
      <3>2. zoneCache' = zoneCache \/ zoneCache'.at = newZone[r].at
        BY SMT, <2>4, <3>1, LoadZoneKeysType DEF ZoneSet
      <3>3. zoneCache.at <= newZone[r].at
        BY <1>3, <2>4 DEF ZoneOrder, ZoneSet
      <3> QED BY SMT, <2>2, <2>3, <3>1, <3>2, <3>3
    <2>5. zoneCache' = zoneCache \/ \E r \in Reqs : ZoneSet(r)
      BY <1>3 DEF Next, Environment, Load, WriteLocation, ExpireZone, ExpireRecord,
                  EvictZone, EvictRecord, Request, ZoneDo, GetHKeys, GetConfig, Locate,
                  RecordDo, ImplicitRoot, HGet, RecordSet, Reply, vars, cacheVars
    <2> QED BY SMT, <2>3, <2>4, <2>5
  <1>4. ASSUME RecordInv, [Next]_vars, NEW l \in Labels,
               FromRedis(l, recordCache[l]), FromRedis(l, recordCache'[l])
        PROVE  recordCache'[l] >= recordCache[l]
    <2>1. TypeOK /\ Numbers
      BY <1>4, TypesGiveNumbers DEF RecordInv, TypeInv
    <2>2. ASSUME NEW r \in Reqs, RecordSet(r) PROVE recordCache'[l] >= recordCache[l]
      <3>1. CASE recordCache'[l] = recordCache[l]
        BY SMT, <1>4, <2>1, <3>1 DEF Numbers, FromRedis
      <3>2. CASE recordCache'[l] # recordCache[l]
        <4>1. label[r] = l /\ recordCache'[l] = newRecord[r]
          BY <2>1, <2>2, <3>2 DEF TypeOK, RecordSet
        <4>2. recordCache[l] <= newRecord[r]
          BY <1>4, <2>2, <4>1 DEF RecordInv, FlightOrder, RecordSet
        <4> QED BY <1>4, <2>1, <2>2, <4>1, <4>2 DEF Numbers, RecordSet, FromRedis
      <3> QED BY <3>1, <3>2
    <2>3. recordCache'[l] = recordCache[l] \/ \E r \in Reqs : RecordSet(r)
      BY <1>4, <2>1 DEF TypeOK, Next, Environment, Load, WriteLocation, ExpireZone,
            ExpireRecord, EvictZone, EvictRecord, Request, ZoneDo, GetHKeys, GetConfig,
            ZoneSet, Locate, RecordDo, ImplicitRoot, HGet, Reply, vars, cacheVars, FromRedis
    <2> QED BY SMT, <1>4, <2>1, <2>2, <2>3 DEF Numbers, FromRedis
  <1>5. RecordInv /\ ZoneOrder /\ [Next]_vars =>
          [/\ zoneCache # Nil /\ zoneCache' # Nil => zoneCache'.at >= zoneCache.at
           /\ \A l \in Labels :
                FromRedis(l, recordCache[l]) /\ FromRedis(l, recordCache'[l])
                    => recordCache'[l] >= recordCache[l]]_vars
    BY <1>3, <1>4
  <1> QED BY <1>2, <1>5, RecordInvariant, PTL DEF Spec, CacheNeverRegresses

-----------------------------------------------------------------------------
\* A goroutine that loads a record does so for a location of the zone it holds,
\* and one that serves no request holds no zone.
Calling == LoadingRecord \cup {"recordDo", "recordWait"}
Called == LocationExists /\ \A r \in Reqs : pc[r] = "idle" => zone[r] = Nil

\* Where no goroutine starts on a record or changes its zone or label, or falls
\* idle, Called is kept.
LEMMA CalledKept ==
    ASSUME Called,
           \A q \in Reqs : pc'[q] \in Calling \cup {"idle"} =>
                pc[q] \in Calling \cup {"idle"} /\ (pc'[q] = "idle" <=> pc[q] = "idle")
                /\ zone'[q] = zone[q] /\ label'[q] = label[q]
    PROVE  Called'
  <1>1. ASSUME NEW q \in Reqs, pc'[q] \in Calling
        PROVE  zone'[q] # Nil /\ (label'[q] = Apex \/ label'[q] \in zone'[q].locations)
    <2>1. pc[q] \in Calling /\ zone'[q] = zone[q] /\ label'[q] = label[q]
      BY <1>1 DEF Calling, LoadingRecord
    <2>2. zone[q] # Nil /\ (label[q] = Apex \/ label[q] \in zone[q].locations)
      BY <2>1 DEF Called, LocationExists, Calling, Found
    <2> QED BY <2>1, <2>2
  <1>2. LocationExists'
    BY <1>1 DEF LocationExists, Calling, Found
  <1>3. \A q \in Reqs : pc'[q] = "idle" => zone'[q] = Nil
    BY DEF Called
  <1> QED BY <1>2, <1>3 DEF Called

\* Each step of LoadZone, FindLocation and LoadLocation keeps Called.
LEMMA CalledNext == TypeInv /\ Called /\ [Next]_vars => Called'
  <1>0. SUFFICES ASSUME TypeInv, Called, [Next]_vars PROVE Called'
    OBVIOUS
  <1>a. TypeOK
    BY <1>0 DEF TypeInv
  <1>1. CASE Environment \/ UNCHANGED vars
    <2>1. UNCHANGED <<pc, zone, label>>
      BY <1>1 DEF Environment, WriteLocation, ExpireZone, ExpireRecord, EvictZone,
                  EvictRecord, localVars, vars
    <2> QED BY <1>0, <2>1, CalledKept
  <1>2. ASSUME NEW r \in Reqs, NEW l \in Labels, Request(r, l) PROVE Called'
    <2>1. \A q \in Reqs : pc'[q] \in Calling \cup {"idle"} =>
              pc'[q] = pc[q] /\ zone'[q] = zone[q] /\ label'[q] = label[q]
      BY <1>2, <1>a DEF TypeOK, Request, Calling, LoadingRecord
    <2> QED BY <1>0, <2>1, CalledKept
  <1>3. ASSUME NEW r \in Reqs, ZoneDo(r) \/ GetConfig(r) PROVE Called'
    <2>1. \A q \in Reqs : pc'[q] \in Calling \cup {"idle"} => pc'[q] = pc[q]
      BY <1>3, <1>a DEF TypeOK, ZoneDo, GetConfig, Calling, LoadingRecord
    <2>2. UNCHANGED <<zone, label>>
      BY <1>3 DEF ZoneDo, GetConfig, localVars
    <2> QED BY <1>0, <2>1, <2>2, CalledKept
  <1>4. ASSUME NEW r \in Reqs, GetHKeys(r) PROVE Called'
    <2>1. \A q \in Reqs : pc'[q] \in Calling \cup {"idle"} =>
              pc'[q] = pc[q] /\ zone'[q] = zone[q] /\ label'[q] = label[q]
      BY SMT, <1>4, <1>a DEF TypeOK, GetHKeys, ZoneReturn, Calling, LoadingRecord
    <2> QED BY <1>0, <2>1, CalledKept
  <1>5. ASSUME NEW r \in Reqs, ZoneSet(r) PROVE Called'
    <2>1. \A q \in Reqs : pc'[q] \in Calling \cup {"idle"} =>
              pc'[q] = pc[q] /\ zone'[q] = zone[q] /\ label'[q] = label[q]
      BY SMT, <1>5, <1>a DEF TypeOK, ZoneSet, ZoneReturn, Calling, LoadingRecord
    <2> QED BY <1>0, <2>1, CalledKept
  <1>6. ASSUME NEW r \in Reqs, Locate(r) PROVE Called'
    <2>1. /\ UNCHANGED <<zone, label>>
          /\ \A q \in Reqs \ {r} : pc'[q] = pc[q]
          /\ pc'[r] \in {"reply", "recordDo"}
          /\ pc'[r] = "recordDo" => zone[r] # Nil /\ Found(r)
      BY <1>6, <1>a DEF TypeOK, Locate
    <2>2. LocationExists'
      <3> SUFFICES ASSUME NEW q \in Reqs, pc'[q] \in Calling
                   PROVE  zone[q] # Nil /\ Found(q)
        BY <2>1 DEF LocationExists, Calling, Found
      <3>1. CASE q = r
        BY <2>1, <3>1 DEF Calling, LoadingRecord
      <3>2. CASE q # r
        BY <1>0, <2>1, <3>2 DEF Called, LocationExists, Calling
      <3> QED BY <3>1, <3>2
    <2> QED BY <1>0, <2>1, <2>2 DEF Called
  <1>7. ASSUME NEW r \in Reqs, RecordDo(r) PROVE Called'
    <2>1. \A q \in Reqs : pc'[q] \in Calling \cup {"idle"} =>
              pc[q] \in Calling \cup {"idle"} /\ (pc'[q] = "idle" <=> pc[q] = "idle")
      BY <1>7, <1>a DEF TypeOK, RecordDo, Calling, LoadingRecord
    <2>2. UNCHANGED <<zone, label>>
      BY <1>7 DEF RecordDo, localVars
    <2> QED BY <1>0, <2>1, <2>2, CalledKept
  <1>8. ASSUME NEW r \in Reqs, ImplicitRoot(r) \/ RecordSet(r) PROVE Called'
    <2>1. \A q \in Reqs : pc'[q] \in Calling \cup {"idle"} => pc'[q] = pc[q]
      BY SMT, <1>8, <1>a DEF TypeOK, ImplicitRoot, RecordSet, RecordReturn, Calling, LoadingRecord
    <2>2. UNCHANGED <<zone, label>>
      BY <1>8 DEF ImplicitRoot, RecordSet
    <2> QED BY <1>0, <2>1, <2>2, CalledKept
  <1>9. ASSUME NEW r \in Reqs, HGet(r) PROVE Called'
    <2>1. \A q \in Reqs : pc'[q] \in Calling \cup {"idle"} =>
              pc[q] \in Calling \cup {"idle"} /\ (pc'[q] = "idle" <=> pc[q] = "idle")
      BY SMT, <1>9, <1>a DEF TypeOK, HGet, RecordReturn, Calling, LoadingRecord
    <2>2. UNCHANGED <<zone, label>>
      BY <1>9 DEF HGet
    <2> QED BY <1>0, <2>1, <2>2, CalledKept
  <1>10. ASSUME NEW r \in Reqs, Reply(r) PROVE Called'
    <2>1. /\ pc'[r] = "idle" /\ zone'[r] = Nil
          /\ \A q \in Reqs \ {r} : pc'[q] = pc[q] /\ zone'[q] = zone[q] /\ label'[q] = label[q]
      BY <1>10, <1>a DEF TypeOK, Reply
    <2>2. LocationExists'
      <3> SUFFICES ASSUME NEW q \in Reqs, pc'[q] \in Calling
                   PROVE  zone'[q] # Nil /\ (label'[q] = Apex \/ label'[q] \in zone'[q].locations)
        BY DEF LocationExists, Calling, Found
      <3>1. q # r
        BY <2>1 DEF Calling, LoadingRecord
      <3>2. zone[q] # Nil /\ (label[q] = Apex \/ label[q] \in zone[q].locations)
        BY <1>0, <2>1, <3>1 DEF Called, LocationExists, Calling, Found
      <3> QED BY <2>1, <3>1, <3>2
    <2> QED BY <1>0, <2>1, <2>2 DEF Called
  <1> QED
    BY <1>0, <1>1, <1>2, <1>3, <1>4, <1>5, <1>6, <1>7, <1>8, <1>9, <1>10 DEF Next, Load

\* Called is an invariant.
LEMMA CalledInvariant == Spec => []Called
  <1>1. Init => Called
    BY DEF Init, Called, LocationExists, LoadingRecord
  <1>2. RecordInv => TypeInv
    BY DEF RecordInv
  <1> QED BY <1>1, <1>2, CalledNext, RecordInvariant, PTL DEF Spec

\* The "location not exists" error of LoadLocation is never met, however zones
\* and records are loaded, shared, cached and evicted meanwhile.
THEOREM LocationExistsHolds == Spec => []LocationExists
  <1>1. Called => LocationExists
    BY DEF Called
  <1> QED BY <1>1, CalledInvariant, PTL

\* The end of a zone flight takes no zone away.
LEMMA ZoneReturnKeeps ==
    ASSUME NEW r \in Reqs, NEW answer, ZoneReturn(r, answer), NEW q \in Reqs, zone[q] # Nil
    PROVE  zone'[q] # Nil
  BY DEF ZoneReturn

\* The end of a record flight takes no record away.
LEMMA RecordReturnKeeps ==
    ASSUME NEW r \in Reqs, NEW answer, RecordReturn(r, answer), NEW q \in Reqs, record[q] # Nil
    PROVE  record'[q] # Nil
  BY DEF RecordReturn

\* A failed redis command never makes LoadZone or LoadLocation return nil to a
\* request that found something in the cache.
THEOREM StaleIsBetterHolds == Spec => StaleIsBetterThanNothing
  <1>1. ASSUME RecordInv, Called, [Next]_vars, NEW q \in Reqs, pc[q] # "reply"
        PROVE  /\ zone[q] # Nil => zone'[q] # Nil
               /\ record[q] # Nil => record'[q] # Nil
    <2>a. TypeOK /\ Holding
      BY <1>1 DEF RecordInv, TypeInv
    <2> DEFINE Kept == /\ zone[q] # Nil => zone'[q] # Nil
                       /\ record[q] # Nil => record'[q] # Nil
    <2>1. CASE Environment \/ UNCHANGED vars
      BY <2>1 DEF Environment, WriteLocation, ExpireZone, ExpireRecord, EvictZone,
                  EvictRecord, localVars, vars
    <2>2. ASSUME NEW r \in Reqs, NEW l \in Labels, Request(r, l) PROVE Kept
      <3>1. zone[r] = Nil
        BY <1>1, <2>2 DEF Called, Request
      <3>2. /\ record' = record
            /\ q # r => zone'[q] = zone[q]
        BY <2>2, <2>a DEF TypeOK, Request
      <3> QED BY <3>1, <3>2
    <2>3. ASSUME NEW r \in Reqs, ZoneDo(r) \/ GetConfig(r) \/ RecordDo(r) PROVE Kept
      BY <2>3 DEF ZoneDo, GetConfig, RecordDo, localVars
    <2>4. ASSUME NEW r \in Reqs, GetHKeys(r) \/ ZoneSet(r) PROVE Kept
      <3>1. record' = record
        BY <2>4 DEF GetHKeys, ZoneSet
      <3>2. zone' = zone \/ \E z : ZoneReturn(r, z)
        BY <2>4 DEF GetHKeys, ZoneSet
      <3> QED BY <3>1, <3>2, ZoneReturnKeeps
    <2>5. ASSUME NEW r \in Reqs, Locate(r) PROVE Kept
      <3>1. record[r] = Nil
        BY <2>5, <2>a DEF Holding, Locate
      <3>2. /\ zone' = zone
            /\ q # r => record'[q] = record[q]
        BY <2>5, <2>a DEF TypeOK, Locate
      <3> QED BY <3>1, <3>2
    <2>6. ASSUME NEW r \in Reqs, ImplicitRoot(r) \/ HGet(r) \/ RecordSet(r) PROVE Kept
      <3>1. zone' = zone
        BY <2>6 DEF ImplicitRoot, HGet, RecordSet
      <3>2. record' = record \/ \E v : RecordReturn(r, v)
        BY <2>6 DEF ImplicitRoot, HGet, RecordSet
      <3> QED BY <3>1, <3>2, RecordReturnKeeps
    <2>7. ASSUME NEW r \in Reqs, Reply(r) PROVE Kept
      <3>1. q # r
        BY <1>1, <2>7 DEF Reply
      <3> QED BY <2>7, <2>a, <3>1 DEF TypeOK, Reply
    <2> QED BY <1>1, <2>1, <2>2, <2>3, <2>4, <2>5, <2>6, <2>7 DEF Next, Load
  <1>2. RecordInv /\ Called /\ [Next]_vars =>
          [\A r \in Reqs : pc[r] # "reply" =>
                /\ zone[r] # Nil => zone'[r] # Nil
                /\ record[r] # Nil => record'[r] # Nil]_vars
    BY <1>1
  <1> QED
    BY <1>2, RecordInvariant, CalledInvariant, PTL DEF Spec, StaleIsBetterThanNothing
-----------------------------------------------------------------------------
\* A zone or a location in flight has a leader that is loading it, and whoever
\* waits, waits for a flight that is still there (ZoneInflight, RecordInflight).
Waits(r) ==
    /\ pc[r] = "zoneWait" => zoneInflight # Nil
    /\ pc[r] = "recordWait" => recordInflight[label[r]] # Nil
Led ==
    /\ zoneInflight # Nil => pc[zoneInflight] \in LoadingZone
    /\ \A l \in Labels : recordInflight[l] # Nil =>
            pc[recordInflight[l]] \in LoadingRecord /\ label[recordInflight[l]] = l
Flights == Led /\ \A r \in Reqs : Waits(r)

\* A flight of the zone takes off or is joined (ZoneInflight.Do).
LEMMA ZoneDoFlights ==
    ASSUME TypeInv, Flights, NEW r \in Reqs, ZoneDo(r)
    PROVE  Flights'
  <1> USE NilAssumption DEF TypeInv, TypeOK, Flights, Led, Waits, LoadingZone, LoadingRecord
  <1>1. Led'
    BY SMT DEF ZoneDo, localVars
  <1>2. \A q \in Reqs : Waits(q)'
    BY SMT DEF ZoneDo, localVars
  <1> QED BY <1>1, <1>2

\* A flight of a location takes off or is joined (RecordInflight.Do).
LEMMA RecordDoFlights ==
    ASSUME TypeInv, Flights, NEW r \in Reqs, RecordDo(r)
    PROVE  Flights'
  <1> USE NilAssumption DEF TypeInv, TypeOK, Flights, Led, Waits, LoadingZone, LoadingRecord
  <1>1. Led'
    BY SMT DEF RecordDo, localVars
  <1>2. \A q \in Reqs : Waits(q)'
    BY SMT DEF RecordDo, localVars
  <1> QED BY <1>1, <1>2

\* A flight of the zone lands: nobody is left waiting for it (LoadZone).
LEMMA ZoneReturnFlights ==
    ASSUME TypeInv, Flights, NEW r \in Reqs, pc[r] \in LoadingZone, NEW answer,
           ZoneReturn(r, answer), UNCHANGED <<recordInflight, label>>
    PROVE  Flights'
  <1> USE NilAssumption DEF TypeInv, TypeOK, Flights, Led, Waits, LoadingZone, LoadingRecord
  <1>1. Led'
    BY SMT DEF ZoneReturn
  <1>2. \A q \in Reqs : Waits(q)'
    BY SMT DEF ZoneReturn
  <1> QED BY <1>1, <1>2

\* A flight of a location lands: nobody is left waiting for it (LoadLocation).
LEMMA RecordReturnFlights ==
    ASSUME TypeInv, Registered, Flights, NEW r \in Reqs, pc[r] \in LoadingRecord,
           NEW answer, RecordReturn(r, answer), UNCHANGED <<zoneInflight, label>>
    PROVE  Flights'
  <1> USE NilAssumption DEF TypeInv, TypeOK, Flights, Led, Waits, LoadingZone, LoadingRecord
  <1>1. Led'
    BY SMT DEF RecordReturn
  <1>2. \A q \in Reqs : Waits(q)'
    BY SMT DEF RecordReturn
  <1> QED BY <1>1, <1>2

\* Flights is inductive relative to the types and to who is registered.
LEMMA FlightsNext ==
    TypeInv /\ Registered /\ Flights /\ [Next]_vars => Flights'
  <1> SUFFICES ASSUME TypeInv, Registered, Flights, [Next]_vars
               PROVE  Flights'
    OBVIOUS
  <1>a. CASE UNCHANGED <<flightVars, pc, label>>
    BY <1>a DEF flightVars, Flights, Led, Waits
  <1>1. CASE Environment
    BY <1>1, <1>a DEF Environment, WriteLocation, ExpireZone, ExpireRecord, EvictZone,
                      EvictRecord, flightVars, localVars
  <1>b. ASSUME NEW r \in Reqs, UNCHANGED flightVars,
               pc[r] \notin {"zoneWait", "recordWait"},
               pc'[r] \notin {"zoneWait", "recordWait"},
               pc[r] \in LoadingZone => pc'[r] \in LoadingZone,
               pc[r] \in LoadingRecord => pc'[r] \in LoadingRecord,
               pc[r] \notin LoadingRecord \/ label'[r] = label[r],
               \A q \in Reqs \ {r} : pc'[q] = pc[q] /\ label'[q] = label[q]
        PROVE  Flights'
    <2>1. zoneInflight # Nil => zoneInflight \in Reqs
      BY DEF TypeInv, TypeOK
    <2>2. \A l \in Labels : recordInflight[l] # Nil => recordInflight[l] \in Reqs
      BY DEF TypeInv, TypeOK
    <2>3. Led'
      BY SMT, <1>b, <2>1, <2>2 DEF Flights, Led, flightVars, LoadingZone, LoadingRecord
    <2>4. \A q \in Reqs : Waits(q)'
      BY <1>b DEF Flights, Waits, flightVars
    <2> QED BY <2>3, <2>4 DEF Flights
  <1>2. ASSUME NEW r \in Reqs, NEW l \in Labels, Request(r, l) PROVE Flights'
    <2>1. pc' = [pc EXCEPT ![r] = "locate"] \/ pc' = [pc EXCEPT ![r] = "zoneDo"]
      BY <1>2 DEF Request
    <2>2. pc \in [Reqs -> PC] /\ label \in [Reqs -> Labels]
      BY DEF TypeInv, TypeOK
    <2>3. /\ pc[r] = "idle" /\ pc'[r] \in {"locate", "zoneDo"} /\ UNCHANGED flightVars
          /\ \A q \in Reqs \ {r} : pc'[q] = pc[q] /\ label'[q] = label[q]
      BY <1>2, <2>1, <2>2 DEF Request
    <2> QED BY <1>b, <2>3 DEF LoadingZone, LoadingRecord
  <1>3. ASSUME NEW r \in Reqs, ZoneDo(r) PROVE Flights'
    BY <1>3, ZoneDoFlights
  <1>4. ASSUME NEW r \in Reqs, GetHKeys(r) PROVE Flights'
    <2>1. CASE ZoneReturn(r, Nil)
      BY <1>4, <2>1, ZoneReturnFlights DEF GetHKeys, LoadingZone
    <2>2. CASE pc' = [pc EXCEPT ![r] = "config"] /\ UNCHANGED zoneInflight
      BY <1>4, <2>2, <1>b DEF GetHKeys, LoadingZone, LoadingRecord, flightVars, TypeInv, TypeOK
    <2> QED BY <1>4, <2>1, <2>2 DEF GetHKeys
  <1>5. ASSUME NEW r \in Reqs, GetConfig(r) PROVE Flights'
    BY <1>5, <1>b DEF GetConfig, LoadingZone, LoadingRecord, TypeInv, TypeOK
  <1>6. ASSUME NEW r \in Reqs, ZoneSet(r) PROVE Flights'
    <2>1. PICK z : ZoneReturn(r, z)
      BY <1>6 DEF ZoneSet
    <2> QED BY <1>6, <2>1, ZoneReturnFlights DEF ZoneSet, LoadingZone
  <1>7. ASSUME NEW r \in Reqs, Locate(r) PROVE Flights'
    <2>1. pc' = [pc EXCEPT ![r] = "reply"] \/ pc' = [pc EXCEPT ![r] = "recordDo"]
      BY <1>7 DEF Locate
    <2> QED
      BY <1>7, <2>1, <1>b DEF Locate, LoadingZone, LoadingRecord, TypeInv, TypeOK
  <1>8. ASSUME NEW r \in Reqs, RecordDo(r) PROVE Flights'
    BY <1>8, RecordDoFlights
  <1>9. ASSUME NEW r \in Reqs, ImplicitRoot(r) PROVE Flights'
    <2>1. PICK v : RecordReturn(r, v)
      BY <1>9 DEF ImplicitRoot
    <2> QED BY <1>9, <2>1, RecordReturnFlights DEF ImplicitRoot, LoadingRecord
  <1>10. ASSUME NEW r \in Reqs, HGet(r) PROVE Flights'
    <2>1. CASE RecordReturn(r, Nil)
      BY <1>10, <2>1, RecordReturnFlights DEF HGet, LoadingRecord
    <2>2. CASE ~RecordReturn(r, Nil)
      <3>1. /\ pc[r] = "hget" /\ pc' = [pc EXCEPT ![r] = "recordSet"]
            /\ UNCHANGED <<flightVars, label>>
        BY <1>10, <2>2 DEF HGet, flightVars
      <3>2. pc'[r] = "recordSet" /\ \A q \in Reqs \ {r} : pc'[q] = pc[q]
        BY <3>1 DEF TypeInv, TypeOK
      <3> QED BY <1>b, <3>1, <3>2 DEF LoadingZone, LoadingRecord
    <2> QED BY <2>1, <2>2
  <1>11. ASSUME NEW r \in Reqs, RecordSet(r) PROVE Flights'
    <2>1. PICK v : RecordReturn(r, v)
      BY <1>11 DEF RecordSet
    <2> QED BY <1>11, <2>1, RecordReturnFlights DEF RecordSet, LoadingRecord
  <1>12. ASSUME NEW r \in Reqs, Reply(r) PROVE Flights'
    <2>1. /\ pc[r] = "reply" /\ pc'[r] = "idle" /\ UNCHANGED flightVars
          /\ \A q \in Reqs \ {r} : pc'[q] = pc[q] /\ label'[q] = label[q]
      BY <1>12 DEF Reply, TypeInv, TypeOK
    <2> QED BY <1>b, <2>1 DEF LoadingZone, LoadingRecord
  <1>13. CASE UNCHANGED vars
    BY <1>13, <1>a DEF vars, flightVars, localVars
  <1> QED
    BY <1>1, <1>2, <1>3, <1>4, <1>5, <1>6, <1>7, <1>8, <1>9, <1>10, <1>11, <1>12,
       <1>13 DEF Next, Load

\* A goroutine waits for the zone only while another one is loading it, and for a
\* location only while another one is loading that location.
NobodyIsStranded ==
    \A r \in Reqs :
        /\ pc[r] = "zoneWait" => \E q \in Reqs : pc[q] \in LoadingZone
        /\ pc[r] = "recordWait" =>
              \E q \in Reqs : pc[q] \in LoadingRecord /\ label[q] = label[r]

\* No goroutine is left waiting in one of the two singleflight groups for a load
\* that has ended, also when that load failed (LoadZone, LoadLocation).
THEOREM NobodyIsStrandedHolds == Spec => []NobodyIsStranded
  <1>1. Init => Flights
    BY DEF Init, Flights, Led, Waits
  <1>2. RecordInv /\ Flights /\ [Next]_vars => Flights'
    BY FlightsNext DEF RecordInv
  <1>3. RecordInv /\ Flights => NobodyIsStranded
    <2> SUFFICES ASSUME RecordInv, Flights, NEW r \in Reqs
                 PROVE  /\ pc[r] = "zoneWait" => \E q \in Reqs : pc[q] \in LoadingZone
                        /\ pc[r] = "recordWait" =>
                              \E q \in Reqs : pc[q] \in LoadingRecord /\ label[q] = label[r]
      BY DEF NobodyIsStranded
    <2>1. zoneInflight \in Reqs \cup {Nil}
      BY DEF RecordInv, TypeInv, TypeOK
    <2>2. label[r] \in Labels /\ recordInflight[label[r]] \in Reqs \cup {Nil}
      BY DEF RecordInv, TypeInv, TypeOK
    <2>3. pc[r] = "zoneWait" => pc[zoneInflight] \in LoadingZone /\ zoneInflight # Nil
      BY DEF Flights, Led, Waits
    <2>4. pc[r] = "recordWait" =>
              /\ recordInflight[label[r]] # Nil
              /\ pc[recordInflight[label[r]]] \in LoadingRecord
              /\ label[recordInflight[label[r]]] = label[r]
      BY <2>2 DEF Flights, Led, Waits
    <2> QED
      BY <2>1, <2>2, <2>3, <2>4
  <1> QED
    BY <1>1, <1>2, <1>3, RecordInvariant, PTL DEF Spec

\* The steps a goroutine has left at most until its request is answered, by where
\* it is in LoadZone and LoadLocation.
LeftAt(p) ==
    CASE p = "zoneDo" -> 9
      [] p = "hkeys" -> 8
      [] p = "config" -> 7
      [] p \in {"zoneSet", "zoneWait"} -> 6
      [] p = "locate" -> 5
      [] p = "recordDo" -> 4
      [] p = "hget" -> 3
      [] p \in {"recordSet", "recordWait"} -> 2
      [] p = "reply" -> 1
      [] OTHER -> 0

\* Every step of a goroutine brings its request closer to the reply, and no step
\* of another goroutine, of a writer or of a cache sets it back.
StepCounts ==
    \A r \in Reqs :
        /\ pc[r] # "idle" => LeftAt(pc'[r]) <= LeftAt(pc[r])
        /\ Load(r) => LeftAt(pc'[r]) < LeftAt(pc[r])

\* The values of LeftAt.
LEMMA LeftValues ==
    /\ LeftAt("zoneDo") = 9 /\ LeftAt("hkeys") = 8 /\ LeftAt("config") = 7
    /\ LeftAt("zoneSet") = 6 /\ LeftAt("zoneWait") = 6 /\ LeftAt("locate") = 5
    /\ LeftAt("recordDo") = 4 /\ LeftAt("hget") = 3 /\ LeftAt("recordSet") = 2
    /\ LeftAt("recordWait") = 2 /\ LeftAt("reply") = 1 /\ LeftAt("idle") = 0
  BY SMT DEF LeftAt

\* The places between which a step of r takes r, and those between which it may
\* take another goroutine: only a waiter is moved, when r's flight lands.
Own == {<<"zoneDo", "hkeys">>, <<"zoneDo", "zoneWait">>, <<"hkeys", "config">>,
        <<"hkeys", "locate">>, <<"config", "zoneSet">>, <<"zoneSet", "locate">>,
        <<"locate", "reply">>, <<"locate", "recordDo">>, <<"recordDo", "hget">>,
        <<"recordDo", "recordWait">>, <<"hget", "recordSet">>, <<"hget", "reply">>,
        <<"recordSet", "reply">>, <<"reply", "idle">>}
Woken == {<<"zoneWait", "locate">>, <<"recordWait", "reply">>}

\* Both lower LeftAt.
LEMMA MovesLower ==
    ASSUME NEW p, NEW q, <<p, q>> \in Own \cup Woken
    PROVE  LeftAt(q) < LeftAt(p) /\ LeftAt(q) <= LeftAt(p)
  BY SMT, LeftValues DEF Own, Woken

\* The moves of a step of r (LoadZone, LoadLocation).
LEMMA Moves ==
    ASSUME TypeOK, NEW r \in Reqs, Load(r)
    PROVE  /\ <<pc[r], pc'[r]>> \in Own
           /\ \A q \in Reqs \ {r} : pc'[q] = pc[q] \/ <<pc[q], pc'[q]>> \in Woken
  <1> DEFINE Moved == /\ <<pc[r], pc'[r]>> \in Own
                      /\ \A q \in Reqs \ {r} : pc'[q] = pc[q] \/ <<pc[q], pc'[q]>> \in Woken
  <1> SUFFICES Moved
    OBVIOUS
  <1>a. ASSUME NEW p, pc' = [pc EXCEPT ![r] = p], <<pc[r], p>> \in Own PROVE Moved
    BY <1>a DEF TypeOK
  <1>b. ASSUME NEW z, ZoneReturn(r, z), pc[r] \in {"hkeys", "zoneSet"} PROVE Moved
    <2>1. pc'[r] = "locate"
      BY <1>b DEF ZoneReturn
    <2>2. <<pc[r], pc'[r]>> \in Own
      BY <1>b, <2>1 DEF Own
    <2>3. ASSUME NEW q \in Reqs \ {r}, pc'[q] # pc[q] PROVE <<pc[q], pc'[q]>> \in Woken
      BY <1>b, <2>3 DEF ZoneReturn, Woken
    <2> QED BY <2>2, <2>3
  <1>c. ASSUME NEW v, RecordReturn(r, v), pc[r] \in {"hget", "recordSet"} PROVE Moved
    <2>1. pc'[r] = "reply"
      BY <1>c DEF RecordReturn
    <2>2. <<pc[r], pc'[r]>> \in Own
      BY <1>c, <2>1 DEF Own
    <2>3. ASSUME NEW q \in Reqs \ {r}, pc'[q] # pc[q] PROVE <<pc[q], pc'[q]>> \in Woken
      BY <1>c, <2>3 DEF RecordReturn, Woken
    <2> QED BY <2>2, <2>3
  <1> HIDE DEF Moved
  <1>1. CASE ZoneDo(r)
    BY <1>1, <1>a DEF ZoneDo, Own
  <1>2. CASE GetHKeys(r)
    BY <1>2, <1>a, <1>b DEF GetHKeys, Own
  <1>3. CASE GetConfig(r)
    BY <1>3, <1>a DEF GetConfig, Own
  <1>4. CASE ZoneSet(r)
    BY <1>4, <1>b DEF ZoneSet
  <1>5. CASE Locate(r)
    <2>1. pc' = [pc EXCEPT ![r] = "reply"] \/ pc' = [pc EXCEPT ![r] = "recordDo"]
      BY <1>5 DEF Locate
    <2> QED BY <1>5, <2>1, <1>a DEF Locate, Own
  <1>6. CASE RecordDo(r)
    BY <1>6, <1>a DEF RecordDo, Own
  <1>7. CASE ImplicitRoot(r)
    BY <1>7, <1>c DEF ImplicitRoot
  <1>8. CASE HGet(r)
    BY <1>8, <1>a, <1>c DEF HGet, Own
  <1>9. CASE RecordSet(r)
    BY <1>9, <1>c DEF RecordSet
  <1>10. CASE Reply(r)
    BY <1>10, <1>a DEF Reply, Own
  <1> QED
    BY <1>1, <1>2, <1>3, <1>4, <1>5, <1>6, <1>7, <1>8, <1>9, <1>10 DEF Load

\* A request takes at most nine steps of its own goroutine from LoadZone to the
\* reply, whatever the other goroutines, the writers of redis and the caches do.
THEOREM StepsCount == Spec => [][StepCounts]_vars
  <1>1. ASSUME TypeOK, [Next]_vars
        PROVE  [StepCounts]_vars
    <2>1. ASSUME NEW r \in Reqs, Load(r) PROVE LeftAt(pc'[r]) < LeftAt(pc[r])
      BY <1>1, <2>1, Moves, MovesLower
    <2>2. \A r \in Reqs : LeftAt(pc[r]) \in Nat
      BY SMT, <1>1, LeftValues DEF TypeOK, PC, LoadingZone, LoadingRecord
    <2>3. ASSUME NEW q \in Reqs, pc'[q] = pc[q] PROVE LeftAt(pc'[q]) <= LeftAt(pc[q])
      <3>1. LeftAt(pc'[q]) = LeftAt(pc[q])
        BY <2>3
      <3> QED BY SMT, <2>2, <3>1
    <2>4. ASSUME NEW r \in Reqs, Load(r), NEW q \in Reqs
          PROVE  LeftAt(pc'[q]) <= LeftAt(pc[q])
      <3>1. pc'[q] = pc[q] \/ <<pc[q], pc'[q]>> \in Own \cup Woken
        BY <1>1, <2>4, Moves
      <3> QED BY <2>3, <3>1, MovesLower
    <2>5. ASSUME NEW r \in Reqs, NEW l \in Labels, Request(r, l),
                 NEW q \in Reqs, pc[q] # "idle"
          PROVE  pc'[q] = pc[q]
      BY <1>1, <2>5 DEF Request, TypeOK
    <2>6. Environment \/ UNCHANGED vars => pc' = pc
      BY DEF Environment, WriteLocation, ExpireZone, ExpireRecord, EvictZone, EvictRecord, vars
    <2>7. \A q \in Reqs : pc[q] # "idle" => LeftAt(pc'[q]) <= LeftAt(pc[q])
      BY <1>1, <2>3, <2>4, <2>5, <2>6 DEF Next
    <2> QED BY <2>1, <2>7 DEF StepCounts
  <1> QED
    BY <1>1, TypeCorrect, PTL DEF Spec
=============================================================================
