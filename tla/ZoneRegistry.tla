---------------------------- MODULE ZoneRegistry ----------------------------
(***************************************************************************)
(* How the handler learns which zones exist: the zone updater goroutine of *)
(* NewHandler, its two tickers, the callbacks of the redis subscription    *)
(* and LoadZones (handler/handler.go).                                     *)
(*                                                                         *)
(* The set redins:zones is abstracted to the number of the last write to   *)
(* it, 1 at the start, and h.Zones to the number of the write it was read  *)
(* after, 0 for the empty tree the handler begins with.                    *)
(*                                                                         *)
(* No name here is one of NameMatching's, so that one module can extend    *)
(* both (ZoneLookupProofs).                                                *)
(***************************************************************************)
EXTENDS Integers

CONSTANTS
    MaxWrites,      \* bound: number of the last write to redins:zones
    RedisFails      \* may SMEMBERS fail?

ASSUME MaxWritesAssumption == MaxWrites \in Nat \ {0}
ASSUME RedisFailsAssumption == RedisFails \in BOOLEAN

VARIABLES
    redis,          \* redis: the last write to redins:zones
    zoneList,       \* h.Zones
    modified,       \* the flag shared by the updater and the callbacks
    subscribed,     \* is the keyspace subscription up?
    events,         \* notifications sent to the subscriber, not yet delivered
    reloadTick,     \* reloadTicker.C holds a tick (a ticker buffers one)
    forceTick,      \* forceReloadTicker.C holds a tick
    updater,        \* where the updater is
    read            \* what SMembers returned

registryVars ==
    <<redis, zoneList, modified, subscribed, events, reloadTick, forceTick, updater, read>>

Version == 0 .. MaxWrites

RegistryTypeOK ==
    /\ redis \in Version /\ zoneList \in Version /\ read \in Version
    /\ modified \in BOOLEAN /\ subscribed \in BOOLEAN
    /\ events \in Version
    /\ reloadTick \in BOOLEAN /\ forceTick \in BOOLEAN
    /\ updater \in {"select", "smembers", "swap", "clear"}

\* NewHandler has called LoadZones before it starts the updater; if that failed,
\* the tree is still empty.
RegistryInit ==
    /\ redis = 1
    /\ zoneList \in IF RedisFails THEN {0, 1} ELSE {1}
    /\ read = zoneList
    /\ modified = FALSE /\ subscribed = FALSE /\ events = 0
    /\ reloadTick = FALSE /\ forceTick = FALSE
    /\ updater = "select"
-----------------------------------------------------------------------------
(* Redis, the subscription and the tickers *)

\* SADD or SREM by another program; redis notifies a subscriber.
Write ==
    /\ redis < MaxWrites
    /\ redis' = redis + 1
    /\ events' = IF subscribed THEN events + 1 ELSE events
    /\ UNCHANGED <<zoneList, modified, subscribed, reloadTick, forceTick, updater, read>>

\* SubscribeEvent has subscribed and calls its first callback.
Subscribe ==
    /\ ~subscribed
    /\ subscribed' = TRUE
    /\ modified' = TRUE
    /\ UNCHANGED <<redis, zoneList, events, reloadTick, forceTick, updater, read>>

\* SubscribeEvent calls its second callback for a notification.
Deliver ==
    /\ events > 0
    /\ events' = events - 1
    /\ modified' = TRUE
    /\ UNCHANGED <<redis, zoneList, subscribed, reloadTick, forceTick, updater, read>>

\* The connection breaks: what was under way is lost, the third callback logs.
Disconnect ==
    /\ subscribed
    /\ subscribed' = FALSE
    /\ events' = 0
    /\ UNCHANGED <<redis, zoneList, modified, reloadTick, forceTick, updater, read>>

ReloadTick ==
    /\ ~reloadTick
    /\ reloadTick' = TRUE
    /\ UNCHANGED <<redis, zoneList, modified, subscribed, events, forceTick, updater, read>>

ForceTick ==
    /\ ~forceTick
    /\ forceTick' = TRUE
    /\ UNCHANGED <<redis, zoneList, modified, subscribed, events, reloadTick, updater, read>>
-----------------------------------------------------------------------------
(* The updater *)

\* case <-reloadTicker.C
Reload ==
    /\ updater = "select" /\ reloadTick
    /\ reloadTick' = FALSE
    /\ updater' = IF modified THEN "smembers" ELSE "select"
    /\ UNCHANGED <<redis, zoneList, modified, subscribed, events, forceTick, read>>

\* Faulty variant of ForceReload: the tick has no effect.
ForceReloadIgnored ==
    /\ updater = "select" /\ forceTick
    /\ forceTick' = FALSE
    /\ UNCHANGED <<redis, zoneList, modified, subscribed, events, reloadTick, updater, read>>

\* case <-forceReloadTicker.C
ForceReload ==
    /\ updater = "select" /\ forceTick
    /\ forceTick' = FALSE
    /\ modified' = TRUE
    /\ UNCHANGED <<redis, zoneList, subscribed, events, reloadTick, updater, read>>

\* Faulty variant of SMembers: an error loads an empty list.
SMembersEmpty ==
    /\ updater = "smembers"
    /\ \E got \in {redis, 0} : read' = got
    /\ updater' = "swap"
    /\ UNCHANGED <<redis, zoneList, modified, subscribed, events, reloadTick, forceTick>>

\* LoadZones reads the set; an error makes it return without touching h.Zones.
SMembers ==
    /\ updater = "smembers"
    /\ \/ read' = redis /\ updater' = "swap"
       \/ RedisFails /\ updater' = "clear" /\ UNCHANGED read
    /\ UNCHANGED <<redis, zoneList, modified, subscribed, events, reloadTick, forceTick>>

\* LoadZones replaces h.Zones by the tree it has built.
Swap ==
    /\ updater = "swap"
    /\ zoneList' = read
    /\ updater' = "clear"
    /\ UNCHANGED <<redis, modified, subscribed, events, reloadTick, forceTick, read>>

\* modified = false
Clear ==
    /\ updater = "clear"
    /\ modified' = FALSE
    /\ updater' = "select"
    /\ UNCHANGED <<redis, zoneList, subscribed, events, reloadTick, forceTick, read>>
-----------------------------------------------------------------------------
RegistryNext ==
    \/ Write \/ Subscribe \/ Deliver \/ Disconnect \/ ReloadTick \/ ForceTick
    \/ Reload \/ ForceReload \/ SMembers \/ Swap \/ Clear

RegistrySpec == RegistryInit /\ [][RegistryNext]_registryVars

\* The tickers tick, select picks either ready case again and again, the updater
\* runs, and redis answers now and then.  Nothing is assumed of the subscription.
FairSpec ==
    /\ RegistrySpec
    /\ WF_registryVars(ReloadTick) /\ WF_registryVars(ForceTick)
    /\ SF_registryVars(Reload) /\ SF_registryVars(ForceReload)
    /\ WF_registryVars(SMembers) /\ WF_registryVars(Swap) /\ WF_registryVars(Clear)
    /\ SF_registryVars(SMembers /\ updater' = "swap")
-----------------------------------------------------------------------------
\* A failed or slow LoadZones never takes the zone list back to an older one.
ZonesNeverRegress == [][zoneList' >= zoneList]_registryVars

\* When writers stop, h.Zones is in the end the stored list, although
\* notifications are lost, clearing the flag may undo one that arrived during
\* LoadZones, and redis may fail: the forced reload recovers all of these.
ZonesConverge == <>[](zoneList = redis)

\* The configuration documents zone_reload as the time before zone data is
\* reloaded: with the subscription up and every notification delivered, an
\* updater back in its select with the flag down has loaded the latest list.
NotifiedChangeIsLoaded ==
    updater = "select" /\ subscribed /\ events = 0 /\ ~modified => zoneList = redis
=============================================================================
