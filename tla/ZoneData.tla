------------------------------ MODULE ZoneData ------------------------------
(***************************************************************************)
(* How a request obtains the data of one zone: LoadZone and LoadLocation   *)
(* (handler/handler.go), the two in-memory caches, the two singleflight    *)
(* groups, and redis, which other programs write at any time and whose     *)
(* commands may fail.  Every redis command is a step of its own.           *)
(*                                                                         *)
(* Contents are abstracted to stamps: a write to a redis key of the zone   *)
(* gives the key the number of that write, and whoever reads the key gets  *)
(* the stamp.  Stamp 1 is what redis holds at the start; 0 is no stamp of  *)
(* redis, it marks what the program makes up itself.  The CacheTimeout of  *)
(* a cached object is abstracted to "now <= CacheTimeout", a Boolean that  *)
(* is set when the object is stored and that time clears.                  *)
(***************************************************************************)
EXTENDS Naturals

CONSTANTS
    Reqs,       \* goroutines that serve requests
    Labels,     \* the labels that requests ask for
    Apex,       \* the label "@" of the zone's root
    DnsSec,     \* does the stored zone configuration enable DNSSEC?
    Failing,    \* the redis commands that may fail, of "HKEYS", "GET", "HGET"
    MaxStamp,   \* bound: stamp of the last write to the zone's hash
    Nil         \* Go's nil

ASSUME ApexAssumption == Apex \in Labels
ASSUME DnsSecAssumption == DnsSec \in BOOLEAN
ASSUME FailingAssumption == Failing \subseteq {"HKEYS", "GET", "HGET"}
ASSUME MaxStampAssumption == MaxStamp \in Nat \ {0}

VARIABLES
    stamp,          \* redis: stamp of the latest write to the zone
    hash,           \* redis: the hash redins:zones:<zone>, label -> value
    zoneCache,      \* h.ZoneCache for this zone: a Zone or Nil
    zoneFresh,      \* is the cached zone within its CacheTimeout?
    recordCache,    \* h.RecordCache, label -> stamp of the Record or Nil
    recordFresh,    \* label -> is the cached record within its CacheTimeout?
    zoneInflight,   \* goroutine that runs the h.ZoneInflight call, or Nil
    recordInflight, \* label -> goroutine that runs the h.RecordInflight call
    pc,             \* where each goroutine is
    label,          \* the location it resolves
    zone,           \* variable z: the expired zone, then the result of LoadZone
    record,         \* variable r: the expired record, then the result
    newZone,        \* the Zone a flight leader is building
    newRecord,      \* the Record a flight leader is building
    served,         \* history: newest stamp a reply was made of, per label
                    \* other than the root
    floor           \* history: served[label] when the request arrived

redisVars == <<stamp, hash>>
cacheVars == <<zoneCache, zoneFresh, recordCache, recordFresh>>
flightVars == <<zoneInflight, recordInflight>>
historyVars == <<served, floor>>
localVars == <<label, zone, record, newZone, newRecord>>
vars == <<redisVars, cacheVars, flightVars, historyVars, localVars, pc>>

Stamp == 0 .. MaxStamp

\* A field of the hash: the JSON of a record, text that is not JSON, or nothing.
Value == [stamp : Stamp, state : {"json", "malformed", "absent"}]

\* type Zone: Locations, with the stamp of the hash they were read from; is
\* Config the stored one or the default of NewZone; are answers signed?
Zone == [locations : SUBSET Labels, at : Stamp, config : {"stored", "default"},
         signed : BOOLEAN]

\* nil is told apart from every goroutine, stamp and zone.
ASSUME NilAssumption == Nil \notin Nat /\ Nil \notin Reqs /\ Nil \notin Zone

LoadingZone == {"hkeys", "config", "zoneSet"}
LoadingRecord == {"hget", "recordSet"}
PC == {"idle", "zoneDo", "zoneWait", "locate", "recordDo", "recordWait", "reply"}
        \cup LoadingZone \cup LoadingRecord

TypeOK ==
    /\ stamp \in Stamp
    /\ hash \in [Labels -> Value]
    /\ zoneCache \in Zone \cup {Nil}
    /\ zoneFresh \in BOOLEAN
    /\ recordCache \in [Labels -> Stamp \cup {Nil}]
    /\ recordFresh \in [Labels -> BOOLEAN]
    /\ zoneInflight \in Reqs \cup {Nil}
    /\ recordInflight \in [Labels -> Reqs \cup {Nil}]
    /\ pc \in [Reqs -> PC]
    /\ label \in [Reqs -> Labels]
    /\ zone \in [Reqs -> Zone \cup {Nil}]
    /\ record \in [Reqs -> Stamp \cup {Nil}]
    /\ newZone \in [Reqs -> Zone \cup {Nil}]
    /\ newRecord \in [Reqs -> Stamp \cup {Nil}]
    /\ served \in [Labels -> Stamp]
    /\ floor \in [Reqs -> Stamp]

Init ==
    /\ stamp = 1
    /\ hash \in [Labels -> [stamp : {1}, state : {"json", "absent"}]]
    /\ zoneCache = Nil /\ zoneFresh = FALSE
    /\ recordCache = [l \in Labels |-> Nil]
    /\ recordFresh = [l \in Labels |-> FALSE]
    /\ zoneInflight = Nil
    /\ recordInflight = [l \in Labels |-> Nil]
    /\ pc = [r \in Reqs |-> "idle"]
    /\ label = [r \in Reqs |-> Apex]
    /\ zone = [r \in Reqs |-> Nil]
    /\ record = [r \in Reqs |-> Nil]
    /\ newZone = [r \in Reqs |-> Nil]
    /\ newRecord = [r \in Reqs |-> Nil]
    /\ served = [l \in Labels |-> 0]
    /\ floor = [r \in Reqs |-> 0]
-----------------------------------------------------------------------------
(* The environment: writers of redis, the passing of time, cache eviction. *)

\* HSET or HDEL of one location.
WriteLocation(l, state) ==
    /\ stamp < MaxStamp
    /\ stamp' = stamp + 1
    /\ hash' = [hash EXCEPT ![l] = [stamp |-> stamp + 1, state |-> state]]
    /\ UNCHANGED <<cacheVars, flightVars, historyVars, localVars, pc>>

ExpireZone ==
    /\ zoneFresh
    /\ zoneFresh' = FALSE
    /\ UNCHANGED <<redisVars, zoneCache, recordCache, recordFresh, flightVars,
                   historyVars, localVars, pc>>

ExpireRecord(l) ==
    /\ recordFresh[l]
    /\ recordFresh' = [recordFresh EXCEPT ![l] = FALSE]
    /\ UNCHANGED <<redisVars, zoneCache, zoneFresh, recordCache, flightVars,
                   historyVars, localVars, pc>>

\* The caches are bounded: ristretto may drop any entry.
EvictZone ==
    /\ zoneCache # Nil
    /\ zoneCache' = Nil /\ zoneFresh' = FALSE
    /\ UNCHANGED <<redisVars, recordCache, recordFresh, flightVars, historyVars,
                   localVars, pc>>

EvictRecord(l) ==
    /\ recordCache[l] # Nil
    /\ recordCache' = [recordCache EXCEPT ![l] = Nil]
    /\ recordFresh' = [recordFresh EXCEPT ![l] = FALSE]
    /\ UNCHANGED <<redisVars, zoneCache, zoneFresh, flightVars, historyVars,
                   localVars, pc>>
-----------------------------------------------------------------------------
(* LoadZone *)

\* A request arrives and looks the zone up in the cache.
Request(r, l) ==
    /\ pc[r] = "idle"
    /\ label' = [label EXCEPT ![r] = l]
    /\ floor' = [floor EXCEPT ![r] = served[l]]
    /\ zone' = [zone EXCEPT ![r] = zoneCache]
    /\ pc' = [pc EXCEPT ![r] =
                IF zoneCache # Nil /\ zoneFresh THEN "locate" ELSE "zoneDo"]
    /\ UNCHANGED <<redisVars, cacheVars, flightVars, served, record, newZone,
                   newRecord>>

\* ZoneInflight.Do: lead the flight, or wait for the one under way.
ZoneDo(r) ==
    /\ pc[r] = "zoneDo"
    /\ \/ /\ zoneInflight = Nil
          /\ zoneInflight' = r
          /\ pc' = [pc EXCEPT ![r] = "hkeys"]
       \/ /\ zoneInflight # Nil
          /\ pc' = [pc EXCEPT ![r] = "zoneWait"]
          /\ UNCHANGED zoneInflight
    /\ UNCHANGED <<redisVars, cacheVars, recordInflight, historyVars, localVars>>

\* Faulty variant of ZoneReturn: the answer is returned even when it is nil.
ZoneReturnNil(r, answer) ==
    /\ zoneInflight' = Nil
    /\ pc' = [q \in Reqs |-> IF q = r \/ pc[q] = "zoneWait" THEN "locate" ELSE pc[q]]
    /\ zone' = [q \in Reqs |-> IF q = r \/ pc[q] = "zoneWait" THEN answer ELSE zone[q]]
    /\ newZone' = [newZone EXCEPT ![r] = Nil]

\* Faulty variant of ZoneReturn: waiters are not woken when the flight fails.
ZoneReturnAlone(r, answer) ==
    LET returns(q) == q = r \/ (answer # Nil /\ pc[q] = "zoneWait")
    IN  /\ zoneInflight' = Nil
        /\ pc' = [q \in Reqs |-> IF returns(q) THEN "locate" ELSE pc[q]]
        /\ zone' = [q \in Reqs |->
                        IF returns(q) /\ answer # Nil THEN answer ELSE zone[q]]
        /\ newZone' = [newZone EXCEPT ![r] = Nil]

\* The flight led by r ends with answer: r and every waiter return from
\* LoadZone, with the answer or, without one, with the expired zone they hold.
ZoneReturn(r, answer) ==
    LET returns(q) == q = r \/ pc[q] = "zoneWait"
    IN  /\ zoneInflight' = Nil
        /\ pc' = [q \in Reqs |-> IF returns(q) THEN "locate" ELSE pc[q]]
        /\ zone' = [q \in Reqs |->
                        IF returns(q) /\ answer # Nil THEN answer ELSE zone[q]]
        /\ newZone' = [newZone EXCEPT ![r] = Nil]

\* GetHKeys: all the labels of the hash in one command; an error ends the flight.
GetHKeys(r) ==
    /\ pc[r] = "hkeys"
    /\ \/ /\ newZone' = [newZone EXCEPT ![r] =
                [locations |-> {l \in Labels : hash[l].state # "absent"},
                 at |-> stamp, config |-> "default", signed |-> FALSE]]
          /\ pc' = [pc EXCEPT ![r] = "config"]
          /\ UNCHANGED <<zoneInflight, zone>>
       \/ "HKEYS" \in Failing /\ ZoneReturn(r, Nil)
    /\ UNCHANGED <<redisVars, cacheVars, recordInflight, historyVars, label,
                   record, newRecord>>

\* Get of the configuration: after an error, which is logged, NewZone gets "".
GetConfig(r) ==
    /\ pc[r] = "config"
    /\ \E got \in {"stored"} \cup {c \in {"default"} : "GET" \in Failing} :
            newZone' = [newZone EXCEPT ![r].config = got]
    /\ pc' = [pc EXCEPT ![r] = "zoneSet"]
    /\ UNCHANGED <<redisVars, cacheVars, flightVars, historyVars, label, zone,
                   record, newRecord>>

\* LoadZoneKeys: with DNSSEC configured, four Gets any of which may fail; a zone
\* without its keys is not signed.
LoadZoneKeys(z) ==
    {[z EXCEPT !.signed = s] :
        s \in {DnsSec /\ z.config = "stored"} \cup {f \in {FALSE} : "GET" \in Failing}}

\* The keys are loaded, CacheTimeout is set and the zone is cached.  Cache.Set
\* replaces a cached entry; it may refuse a new one.
ZoneSet(r) ==
    /\ pc[r] = "zoneSet"
    /\ \E z \in LoadZoneKeys(newZone[r]) :
            /\ \/ zoneCache' = z /\ zoneFresh' = TRUE
               \/ zoneCache = Nil /\ UNCHANGED <<zoneCache, zoneFresh>>
            /\ ZoneReturn(r, z)
    /\ UNCHANGED <<redisVars, recordCache, recordFresh, recordInflight,
                   historyVars, label, record, newRecord>>
-----------------------------------------------------------------------------
(* LoadLocation *)

\* FindLocation knows the root even when the hash has no "@".
Found(r) == label[r] = Apex \/ label[r] \in zone[r].locations

\* Faulty variant of Locate: NoMatch is not handled.
LocateAny(r) ==
    /\ pc[r] = "locate"
    /\ IF zone[r] = Nil
       THEN pc' = [pc EXCEPT ![r] = "reply"] /\ UNCHANGED record
       ELSE /\ record' = [record EXCEPT ![r] = recordCache[label[r]]]
            /\ pc' = [pc EXCEPT ![r] = "recordDo"]
    /\ UNCHANGED <<redisVars, cacheVars, flightVars, historyVars, label, zone,
                   newZone, newRecord>>

\* HandleRequest with LoadZone's result: SERVFAIL without a zone, NXDOMAIN
\* without the location, else LoadLocation looks the record up in the cache.
Locate(r) ==
    /\ pc[r] = "locate"
    /\ IF zone[r] = Nil \/ ~Found(r)
       THEN /\ pc' = [pc EXCEPT ![r] = "reply"]
            /\ UNCHANGED record
       ELSE /\ record' = [record EXCEPT ![r] = recordCache[label[r]]]
            /\ pc' = [pc EXCEPT ![r] =
                        IF recordCache[label[r]] # Nil /\ recordFresh[label[r]]
                        THEN "reply" ELSE "recordDo"]
    /\ UNCHANGED <<redisVars, cacheVars, flightVars, historyVars, label, zone,
                   newZone, newRecord>>

\* Faulty variant of RecordDo: no singleflight group.
RecordDoAlone(r) ==
    /\ pc[r] = "recordDo"
    /\ recordInflight' = [recordInflight EXCEPT ![label[r]] = r]
    /\ pc' = [pc EXCEPT ![r] = "hget"]
    /\ UNCHANGED <<redisVars, cacheVars, zoneInflight, historyVars, localVars>>

\* RecordInflight.Do
RecordDo(r) ==
    /\ pc[r] = "recordDo"
    /\ \/ /\ recordInflight[label[r]] = Nil
          /\ recordInflight' = [recordInflight EXCEPT ![label[r]] = r]
          /\ pc' = [pc EXCEPT ![r] = "hget"]
       \/ /\ recordInflight[label[r]] # Nil
          /\ pc' = [pc EXCEPT ![r] = "recordWait"]
          /\ UNCHANGED recordInflight
    /\ UNCHANGED <<redisVars, cacheVars, zoneInflight, historyVars, localVars>>

\* The flight led by r ends: r and every waiter of its label return from
\* LoadLocation, with the answer or with the expired record they hold.
RecordReturn(r, answer) ==
    LET returns(q) == q = r \/ (pc[q] = "recordWait" /\ label[q] = label[r])
    IN  /\ recordInflight' = [recordInflight EXCEPT ![label[r]] = Nil]
        /\ pc' = [q \in Reqs |-> IF returns(q) THEN "reply" ELSE pc[q]]
        /\ record' = [q \in Reqs |->
                        IF returns(q) /\ answer # Nil THEN answer ELSE record[q]]
        /\ newRecord' = [newRecord EXCEPT ![r] = Nil]

\* The location is not in the leader's zone: the root gets an empty record,
\* which is cached without a CacheTimeout; any other location is an error.
ImplicitRoot(r) ==
    /\ pc[r] = "hget"
    /\ label[r] \notin zone[r].locations
    /\ IF label[r] = Apex
       THEN /\ \/ /\ recordCache' = [recordCache EXCEPT ![Apex] = 0]
                  /\ recordFresh' = [recordFresh EXCEPT ![Apex] = FALSE]
               \/ recordCache[Apex] = Nil /\ UNCHANGED <<recordCache, recordFresh>>
            /\ RecordReturn(r, 0)
       ELSE /\ RecordReturn(r, Nil)
            /\ UNCHANGED <<recordCache, recordFresh>>
    /\ UNCHANGED <<redisVars, zoneCache, zoneFresh, zoneInflight, historyVars,
                   label, zone, newZone>>

\* Faulty variant of HGet: after an error the expired record is cached again.
HGetRenew(r) ==
    /\ pc[r] = "hget"
    /\ label[r] \in zone[r].locations
    /\ \E v \in {hash[label[r]].stamp, record[r]} :
            newRecord' = [newRecord EXCEPT ![r] = v]
    /\ pc' = [pc EXCEPT ![r] = "recordSet"]
    /\ UNCHANGED <<redisVars, cacheVars, flightVars, historyVars, label, zone,
                   record, newZone>>

\* HGet and Unmarshal: the record, an empty one if the field is now gone, or an
\* error (redis, or text that does not parse) that ends the flight.
HGet(r) ==
    /\ pc[r] = "hget"
    /\ label[r] \in zone[r].locations
    /\ \/ /\ hash[label[r]].state # "malformed"
          /\ newRecord' = [newRecord EXCEPT ![r] = hash[label[r]].stamp]
          /\ pc' = [pc EXCEPT ![r] = "recordSet"]
          /\ UNCHANGED <<recordInflight, record>>
       \/ /\ "HGET" \in Failing \/ hash[label[r]].state # "json"
          /\ RecordReturn(r, Nil)
    /\ UNCHANGED <<redisVars, cacheVars, zoneInflight, historyVars, label, zone,
                   newZone>>

\* CacheTimeout is set and the record cached.
RecordSet(r) ==
    /\ pc[r] = "recordSet"
    /\ \/ /\ recordCache' = [recordCache EXCEPT ![label[r]] = newRecord[r]]
          /\ recordFresh' = [recordFresh EXCEPT ![label[r]] = TRUE]
       \/ recordCache[label[r]] = Nil /\ UNCHANGED <<recordCache, recordFresh>>
    /\ RecordReturn(r, newRecord[r])
    /\ UNCHANGED <<redisVars, zoneCache, zoneFresh, zoneInflight, historyVars,
                   label, zone, newZone>>

\* The reply is made from zone[r] and record[r].
Reply(r) ==
    /\ pc[r] = "reply"
    /\ pc' = [pc EXCEPT ![r] = "idle"]
    /\ zone' = [zone EXCEPT ![r] = Nil]
    /\ record' = [record EXCEPT ![r] = Nil]
    /\ label' = [label EXCEPT ![r] = Apex]
    /\ served' = IF record[r] # Nil /\ label[r] # Apex /\ record[r] > served[label[r]]
                 THEN [served EXCEPT ![label[r]] = record[r]]
                 ELSE served
    /\ floor' = [floor EXCEPT ![r] = 0]
    /\ UNCHANGED <<redisVars, cacheVars, flightVars, newZone, newRecord>>
-----------------------------------------------------------------------------
Environment ==
    \/ \E l \in Labels, state \in {"json", "malformed", "absent"} :
            WriteLocation(l, state)
    \/ ExpireZone
    \/ \E l \in Labels : ExpireRecord(l)
    \/ EvictZone
    \/ \E l \in Labels : EvictRecord(l)

Load(r) ==
    \/ ZoneDo(r) \/ GetHKeys(r) \/ GetConfig(r) \/ ZoneSet(r)
    \/ Locate(r)
    \/ RecordDo(r) \/ ImplicitRoot(r) \/ HGet(r) \/ RecordSet(r)
    \/ Reply(r)

Next ==
    \/ Environment
    \/ \E r \in Reqs, l \in Labels : Request(r, l)
    \/ \E r \in Reqs : Load(r)

Spec == Init /\ [][Next]_vars

\* A goroutine runs until its request is answered; time passes.
FairSpec ==
    /\ Spec
    /\ \A r \in Reqs : WF_vars(Load(r))
    /\ WF_vars(ExpireZone)
    /\ \A l \in Labels : WF_vars(ExpireRecord(l))
-----------------------------------------------------------------------------
\* The singleflight groups let one goroutine at a time load the zone, and one
\* at a time load a given location, so no key is read and cached twice at once.
OneLoader ==
    \A q, r \in Reqs : q # r =>
        /\ ~(pc[q] \in LoadingZone /\ pc[r] \in LoadingZone)
        /\ ~(pc[q] \in LoadingRecord /\ pc[r] \in LoadingRecord /\ label[q] = label[r])

\* Monotonic reads.  Once a reply was made from some version of a location's
\* record, no request that arrives later is answered by LoadLocation with an
\* older version: not from the cache, not from a shared flight, and not by the
\* fallback to an expired record when redis fails.  (The zone's root is
\* excluded: a goroutine that still holds an old zone may get the record that
\* LoadLocation makes up.)
MonotonicReads ==
    \A r \in Reqs :
        pc[r] = "reply" /\ record[r] # Nil /\ label[r] # Apex => record[r] >= floor[r]

\* v is a version of location l that was read from redis, and not the record
\* that LoadLocation makes up for a root without "@".
FromRedis(l, v) == v # Nil /\ ~(l = Apex /\ v = 0)

\* A flight never replaces a cached zone or a cached record by one that was read
\* from redis earlier, however long it took.  The made-up root may replace any
\* other, but what has been read from redis is still put in order.
CacheNeverRegresses ==
    [][/\ zoneCache # Nil /\ zoneCache' # Nil => zoneCache'.at >= zoneCache.at
       /\ \A l \in Labels :
            FromRedis(l, recordCache[l]) /\ FromRedis(l, recordCache'[l])
                => recordCache'[l] >= recordCache[l]]_vars

\* A request that found a zone or a record in the cache, expired or not, is
\* answered from it or from something newer: a failed redis command never makes
\* LoadZone or LoadLocation return nil to it.
StaleIsBetterThanNothing ==
    [][\A r \in Reqs : pc[r] # "reply" =>
            /\ zone[r] # Nil => zone'[r] # Nil
            /\ record[r] # Nil => record'[r] # Nil]_vars

\* LoadLocation is called with a location FindLocation found in the same zone
\* object, so its "location not exists" error is never met.
LocationExists ==
    \A r \in Reqs : pc[r] \in LoadingRecord \cup {"recordDo", "recordWait"} =>
        zone[r] # Nil /\ Found(r)

\* Every request is answered: no waiter of a flight is left behind.
EveryRequestIsAnswered ==
    \A r \in Reqs : pc[r] # "idle" ~> pc[r] = "idle"

\* When writers stop, what the caches present as fresh is in the end what redis
\* holds, whatever failed on the way.
FreshBecomesCurrent ==
    <>[]/\ zoneFresh => zoneCache.locations = {l \in Labels : hash[l].state # "absent"}
        /\ \A l \in Labels : recordFresh[l] => recordCache[l] = hash[l].stamp

\* The "cache stale" test says that stale data is used when redis is not
\* available: a cached zone with its configuration is not replaced by one with
\* the default configuration.
ConfigIsNotForgotten ==
    [][zoneCache # Nil /\ zoneCache' # Nil /\ zoneCache.config = "stored"
            => zoneCache'.config = "stored"]_vars

\* What one would expect of the record that is made up for a root without "@":
\* it does not replace the cached record of a root that redis does hold.
RootIsKept ==
    [][FromRedis(Apex, recordCache[Apex]) /\ hash[Apex].state = "json"
            => recordCache'[Apex] # 0]_vars
=============================================================================
