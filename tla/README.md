# TLA+ models of redins

redins is an authoritative DNS server that keeps its zones in redis. This
directory holds TLA+ models of its concurrent and algorithmic core, TLC
configurations that check them on small instances, and TLAPS proofs of their
main safety properties for all instances. `PROJECT.json` maps every definition
to the lines of the source it models.

## The system

| Part | Source | Modules |
|---|---|---|
| zone and record loading | `handler/handler.go` `LoadZone`, `LoadLocation`, `LoadZoneKeys`; `zone.go` | ZoneData |
| zone list | `handler.go` zone updater, `LoadZones` | ZoneRegistry |
| rate limiter | `limiter.go` `CanHandle` | LeakyBucket, RateLimiter |
| request resolution | `handler.go` `HandleRequest`, `FindCAA`; `dnssec.go`, `request.go` | Resolver |
| health checker | `healthcheck.go` | Healthcheck |
| address selection | `Filter`, `FilterHealthcheck`, `geoip.go`, `OrderIps` | IpFilter |
| name matching | `FindZone`, `Zone.FindLocation`, `splitQuery`, `reverseZone` | NameMatching |
| upstream resolver | `upstream.go`, `FindANAME`, `getTtl` | Upstream |
| start, shutdown, log | `redins.go`, `server.go`, `NewHandler`, `ShutDown`, `LogRequest` | Lifecycle |
| configuration, log formats, tools | `redins.go`, `logformat/`, `tools/` | none |

A request comes in at a server's listener and goes through the limiter
(`CanHandle`), then `HandleRequest`, which looks up the zone and the location
that the question's name falls to, loads both through the caches, asks the
address filters (which ask the health checker) and, for an ANAME whose target is
elsewhere, the upstream resolver, writes one response and logs it. In the
background the updater swaps the zone list, and the health checker copies its
configuration from the zones and checks addresses. SIGHUP stops all of this and
starts a new generation of servers and handler in the same process.

What makes it hard: requests run concurrently and share flights, cached objects,
answers of upstreams and Limiters; other programs write redis at any time; each
redis command may fail; caches expire and evict; notifications are lost; the
health checker's goroutines overwrite each other's copies of an item; chains of
aliases may loop and may change while they are followed; an address's status is
read twice and may change in between; a restart meets goroutines that have not
yet started.

## Modules

* **ZoneData**: `LoadZone` and `LoadLocation` for one zone and several labels,
  called by the goroutines `Reqs`. `pc` follows a goroutine from the cache
  lookup (`Request`, `Locate`) through `ZoneInflight.Do` and `RecordInflight.Do`
  (`ZoneDo`, `RecordDo`: lead or wait), one action per redis command
  (`GetHKeys`, `GetConfig`, `HGet`; the four GETs of `LoadZoneKeys` are one step,
  they only decide whether the zone is signed), to `ZoneSet`, `RecordSet` and
  `ImplicitRoot`, which end a flight and wake its waiters. Contents are stamps:
  the number of the redis write that a reader saw. Writers, expiry and eviction
  are actions of the environment.
* **ZoneRegistry**: the updater goroutine's `select` (`Reload`, `ForceReload`),
  `LoadZones` in its two steps (`SMembers`, `Swap`), the clearing of the flag
  (`Clear`), the tickers and the subscription's callbacks. The zone list is the
  number of the write it was read after; if the first `LoadZones` has failed, it
  starts out empty.
* **LeakyBucket** is what the repository's README promises of `rate`, `burst` and
  the lists, client by client; **RateLimiter** is `CanHandle` run by any number of
  goroutines, with the cache lookup (`Get`), the part under the mutex (`Locked`)
  and the creation of a Limiter (`Create`) as separate steps. The clients in
  `Patient` wait for an answer before they ask again, the others do not. The
  history variable `ideal` is the bucket that a client's admitted requests fill;
  it is also the refinement mapping.
* **Resolver**: one request. `FindLocation` is the head of the loop, `LoadFails`,
  `FollowCNAME`, `Delegation`, `Answer`, `StartANAME`/`FindANAME` and
  `StartCAA`/`FindCAA` its branches; `Finish` is everything after the loop.
  Between two steps the zone list may be swapped and a record rewritten. Names
  are opaque: which zones enclose a name, what `FindLocation` returns and what
  `dns.Fqdn` makes of it are constants. A load that fails may be that of the
  record or that of a glue record, which `Delegation` passes over, as it passes over
  name servers with an empty host. `FindCAA` climbs in the zone object of the
  record it was given (`up`), which may be an older one than that of the request.
* **NameMatching**: the same lookups on names as texts, sequences of characters in
  which the dot is one. `FindZone` searches the longest prefix among the zone names
  that `reverseZone` has reversed and dotted, `FindLocation` cuts off the zone's text
  and walks up with `splitQuery`, `keyMatches` and `keyExists`. As in the code
  nothing knows labels; only the properties do (`Enclosers`, `Below`).
* **Healthcheck**: one `host:ip`. `Transfer` is four actions (read the record,
  load the item, compare and store, expire), `Start` two, a worker two, and
  `getStatus` two; every one of them acts on its own copy of the item.
* **IpFilter**: `Filter` on one record. `FilterHealthcheck` reads every status
  twice, once for the best of them (`FilterHealthcheckMax`) and once for the mask
  (`FilterHealthcheckMask`), and it may have changed in between; then one of `GetSameCountry`, `GetSameASN`,
  both, or `GetMinimumDistance`; then `OrderIps`. A place is an opaque code,
  coordinates are reduced to distances, the clock that `OrderIps` draws from is
  an input.
* **Upstream**: `Query` by several goroutines, with the cache, the shared flight
  and the list of connections, whose first place is overwritten when a
  server has answered. The RRs of an answer are shared by the cache, the leader
  and the waiters, and a cache hit rewrites their TTLs in place; `FindANAME` reads
  the first of them, `HandleRequest` writes it into the cached record, `getTtl`
  reads it back for the reply. Each of these is a step. A connection is read when
  the loop comes to it and may be another one by the time it has answered. The
  history `zero` names the answers with a TTL of 0, which go-cache takes for its
  default.
* **Lifecycle**: the main goroutine from `Start` to `Stop` and round again, the
  n-th `Start` making generation n. `server` and `listener` are the servers and
  the goroutines that serve them, `logger`, `updater` and `subscriber` what
  `NewHandler` starts. `s` and `h` are globals that goroutines read when they get
  there; `h.quit` is still nil for a log goroutine that reaches its `select`
  before `NewHandler` has made it (`deaf`), as it is in the code. A listener may
  fail to bind. `quitWG.Wait` is three steps: it blocks, the last `Done` wakes it
  (`woken`), and it returns. The four ways in which the process can end in a panic
  are states of `main` (`Panics`): a listener finds no server of its index, a
  request is logged in a closed queue, `Add` comes between Wait's waking and its
  return, and the log goroutine hands the nil map of a closed queue to the capnp
  formatter (in the generations of `Capnp`). Two histories name the races: `late`, a
  signal came before a listener ran, and `missed`, Wait blocked before a goroutine
  had come to its `Add`.

`MC*` modules instantiate these for TLC; `*Proofs` modules hold the proofs, those
of NameMatching and ZoneRegistry, the two sides of `h.Zones`, in one
(ZoneLookupProofs).
The models meet at their borders. Resolver's `SwapZones` is ZoneRegistry's
`Swap`; its `WriteRecord` and failing loads are what ZoneData's `LoadLocation`
may return; its constants `Enclosing` and `Location` are what NameMatching
computes; its `FindANAME` is Upstream. IpFilter's statuses are Healthcheck's
`cached` items, which may change at any time. Lifecycle's updater is
ZoneRegistry's with its quit case, and the health checker's part of `ShutDown`
is in Healthcheck.

Definitions called a *faulty variant* are bugs that the definition below them
could plausibly have had; each property is known to catch at least one.

## Runs

| Configuration | Question | Result |
|---|---|---|
| `ZoneDataSafety` | two goroutines, root and one other label, one write, HKEYS and HGET may fail: monotonic reads, no cache regression, locations exist, stale data survives | holds |
| `ZoneDataLive` | two goroutines, the root, all commands may fail: every request is answered, fresh data becomes current | holds |
| `ZoneRegistryLive` | three writes, lost notifications, failing SMEMBERS: the list never regresses and converges | holds |
| `RateLimiter` | two goroutines; a listed, a patient and a hasty client; Limiters expire: refinement of LeakyBucket and the limit for clients that wait, no Limiter overflows, every refusal is justified | holds (540000 states up to names) |
| `Resolver` | all CNAME chains and loops over three locations; all question types with delegation, ANAME and CAA; one concurrent change, failing loads: connected answers, loops and only loops refused, SOA in negative answers, no failure turned into a denial, CAA denials true as far as the search goes, termination | holds |
| `HealthcheckSafety` | two workers, two configurations, late Transfer, failing redis, shutdown: a status is backed by consecutive results | holds |
| `HealthcheckLive` | configurations arrive, failing addresses are marked down, requests stop seeing older statuses | holds |
| `IpFilter` | three addresses, statuses that change between the two looks, every geo filter and order: the best are kept, none that is down is served or revived, the geo filters do what the repository's README says (with one exception, below), the order follows the weights | holds |
| `NameMatching` | three lists of zones, up to three locations, wildcards included, questions of up to four labels, all as texts: the innermost zone, the closest wildcard, denials that are true but for two exceptions | holds |
| `Upstream` | two goroutines, two keys, two servers that may fail, a clock: giving up means that all were tried, TTLs never outlive their answer, replies have a TTL that some answer had (a TTL of 0 excepted in both), every query returns | holds |
| `Lifecycle` | two generations with no or one server, a request, a log queue of one, the capnp format before the restart: a panic has one of three causes, old servers down, `Wait` waits, `Stop` returns, goroutines go away | holds |
| `IpFilterNearest` | does `location` serve the nearest healthy address? | violated |

The violated property states what `src/README.md:553` says. `GetMinimumDistance`
appends a distance for every white address to `dists`, but reads `dists[i]` at
the address's position in the record (`geoip.go:172`). With a down address in
front of a healthy one, the last healthy one is read past the end, and the
goroutine panics. `GeoIsAsDocumented` shows that the filter serves the nearest
whenever it returns. Its one exception (`Departs`): `asn+country` with an unknown
country brings the addresses that `GetSameASN` had made grey back.

Eighteen more configurations are not part of the regular runs. Each is violated, and
shows why a property above is stated with the hypothesis it has, or what a
comment or test leads one to expect and the code does not do:

| Configuration | Property | What TLC shows |
|---|---|---|
| `ZoneDataConfig` | `ConfigIsNotForgotten` | `LoadZone` only logs a failing GET of `:config` and replaces the cached zone by one with the default SOA, without DNSSEC and flattening |
| `ZoneDataRoot` | `RootIsKept` | a zone object that is older than a new `@` has no such key, and the record made up for its root replaces the one that redis holds and another request has cached; hence the exception in `CacheNeverRegresses` |
| `ZoneRegistryRace` | `NotifiedChangeIsLoaded` | `modified = false` undoes a notification that came after SMEMBERS, so a change may wait for the forced reload; `ZonesConverge` shows that it is never lost for good |
| `RateLimiterFirst` | `EveryLimitIsEnforced` | two first requests of a client that does not wait create two Limiters, and the requests of the overwritten one are forgotten; hence `Patient` |
| `RateLimiterExpiry` | `LimitIsEnforced` | a Limiter that still holds a burst larger than a minute's rate is dropped; hence `SmallBurst` in the proofs |
| `ResolverFlat` | `FlatteningEliminatesAliases` | flattening asks `FindZone` for the host before `Fqdn` is applied to it; hence `AnswerIsConnected` speaks of owners only |
| `ResolverGlue` | `EveryFailureIsReported` | a glue record that does not load leaves a referral without glue (the `XXX` at `handler.go:247`), a failure in `FindCAA` a denial; hence `FailureIsReported` admits the full referral and leaves CAA out |
| `ResolverParent` | `ApexCAAIsFound` | `FindCAA` gives up at a parent that has no location of its own, and denies a CAA that the apex has (`handler.go:846`) |
| `HealthcheckExpire` | `DisabledIsForgotten` | a worker's SET removes the expiry of an item whose check was disabled, and Transfer does not set it again |
| `HealthcheckOverlap` | `StatusIsEarned` | an item whose check is outstanding is queued again, and the later store overwrites the earlier result; hence `Overlap = FALSE` |
| `HealthcheckPositive` | `DownIsNoticed` | a positive `down_count` makes each item look changed to `Transfer`, which resets it; hence the negative counts of the other runs |
| `HealthcheckStop` | `ShutDownReturns` | without any location `Transfer` never looks at `quit` |
| `NameMatchingEmpty` | `EmptyNonTerminalIsNotDenied` | `FindLocation` does not find an empty non-terminal, which is then denied; `handler_test.go:279` has a FIXME that asks for NOERROR |
| `NameMatchingMisread` | `NoWildcardIsHidden` | `keyMatches` takes `xb` for something below `b`, stops there and does not get to the wildcard further up |
| `UpstreamZero` | `ZeroIsZero` | an answer with TTL 0 is cached for go-cache's default time, and the next request gets a TTL from it |
| `LifecycleLate` | `NoServerIsMissed` | a signal comes before a listener goroutine has run: `Shutdown` finds the server not started, and the goroutine serves, logs in a closed queue, or indexes the next list of servers |
| `LifecycleReuse` | `NoWaitGroupIsReused` | a goroutine calls `Add` after Wait was woken and before it has returned, which `sync` reports as "WaitGroup is reused" |
| `LifecycleCapnp` | `NoNilMapIsLogged` | `ShutDown` closes the queue first; a log goroutine that takes the closed queue for an entry passes a nil map on, on which `logformat.go:21` panics |

### Bounds

Stamps, clock, writes, changes and starts are bounded by constants named
`Max...`. Two goroutines are enough for a flight with a leader and a waiter, one
write for an old and a new version on each side of any step; the proofs of
ZoneData lift both bounds for the safety properties. The limiter's clock runs
past the expiry of a Limiter. The loop cap is 3 instead of 10, with chains of up to
three aliases, so that chains end just below the cap and loops run into it.
Healthcheck's counts are 2, the least with a state between up and down, and its
history `streak` saturates there. With `Overlap = FALSE` a check is over before
the next is due, and with `Late = FALSE` Transfer comes round within
`update_interval`: what the properties of these runs need, and what
`HealthcheckOverlap` gives up. Three addresses let the filters keep one, drop one
and make one grey, with statuses from below `down_count` (it was raised after the
checks) to `up_count`. Labels `b` and `xb` are the case of a suffix without label
boundary. Resolver's second zone object lacks one location; three families of
contents (chains, the type switch, ways up) share the run. Upstream's answers have equal TTLs, different ones, and 0, and its
clock outlives the cached ones. Two generations are one restart; the proofs are
for any number.

### Fairness

ZoneData: a goroutine whose step is possible takes it (the Go scheduler), and
time passes. ZoneRegistry: tickers tick, Go's `select` picks either ready case
again and again (strong fairness), and redis succeeds now and then; nothing is
assumed of the subscription. Resolver: the request's goroutine runs; nothing is
assumed of the changes around it. Healthcheck: time passes, each goroutine runs,
and `select` in the end takes a `quit` that stays ready. Upstream: a request's
goroutine runs, and an exchange ends, with an answer or at its timeout. Lifecycle:
`Stop`, once begun, the log goroutine, the updaters and requests that are logging
run; the log goroutine's `select`, whose two cases stay ready once the channels are
closed, takes `quit` in the end. Signals, listeners and new requests are not assumed to come.

Resolver, IpFilter, NameMatching, Upstream and Lifecycle switch deadlock checking
off: their requests are answered once, their process exits. All other runs check
for deadlock.

## Proofs

Proved for every value of the constants that satisfies the named assumptions.

**ZoneDataProofs.** `TypeCorrect`, `OneLoaderHolds`, `MonotonicReadsHold`,
`CacheNeverRegressesHolds`, `LocationExistsHolds`,
`StaleIsBetterHolds`. The invariant has five layers:
types; the flight registers name exactly the goroutines that load (`Registered`,
`Holding`), which gives one loader per key; the order
`floor <= served <= cached-or-loading <= stored` of stamps, which needs the one
loader, since a second one could cache an older record later; the order of
zones and of root records, which carry the next two properties; and what a
goroutine that calls `LoadLocation` holds (`Called`): the very zone object in which
it found the location, whatever the cache holds by then. `StaleIsBetterHolds` is
an action property: the two returns of a flight, `ZoneReturn` and `RecordReturn`,
keep what the leader or a waiter held (`ZoneReturnKeeps`, `RecordReturnKeeps`), and
no other step takes it away. `NobodyIsStrandedHolds` and `StepsCount` are described
under "Progress" below.

**ZoneLookupProofs**, names. `ZoneIsTheInnermostHolds`,
`WildcardIsTheClosestHolds`, `DenialIsTrueHolds`, for all sets of zones and
locations and for names of any length; the assumptions only say that names are texts
and that no label of a question is empty. Texts are compared character by character
(`LastOf` and the lemmas after it), so no induction is needed, except that a bounded
set of lengths has a greatest element (`Greatest`) and a least, for which the
library's well-founded order of the naturals is cited. A prefix of a reversed text is
a suffix of the text (`PrefixReversed`), and a suffix with a dot in front is a name
the text lies in, label by label (`BelowIsDotted`): that is what the dot of
`reverseZone` is for, and `FindZoneIsInnermost` follows. `Splits` shows that
`splitQuery` leads from one encloser to the next, `Trimmed` that what is left of a
question is not empty and does not end with a dot. The invariant (`Searching`) says
what the search has established on its way up: the encloser at hand is one of the
query's, and no longer one was matched (`Unseen`). `BelowIsHasSuffix` turns "not
matched" into "does not exist"; the converse fails where a label is misread, which is
the hypothesis in `DenialIsTrue`.

**ZoneLookupProofs**, the list. `ZonesNeverRegressHolds`: the list a reload holds
lies between the installed one and what redis has (`Versions`). It needs nothing of
the tickers or notifications, only that one goroutine reloads.

**RateLimiterProofs.** `LimiterInv` says that a Limiter belongs to one key, that
only the cache or a goroutine refers to it, and that after its pending leak it
counts no more than the key's ideal bucket (`Undercounts`). Boundedness and
justified refusals follow for all clients. `CanHandleImplementsBucket` and
`LimitIsEnforcedHolds` add `Exact`, for any number of goroutines and for clients
that wait: the cached Limiter and the ideal bucket agree, and a missing entry
means an empty bucket. They assume `SmallBurst`, a burst that leaks away within a
minute. `RateLimiterFirst` and `RateLimiterExpiry` show that both hypotheses are
needed.

**ResolverProofs.** `AnswerInv` says that every name on the way from the question
to the cursor is the target of a CNAME in the answer (`Led`), and what holds
while the request is open (`Open`: no authority section yet, no failure yet). That a
failure becomes no denial rests on the referral being complete when glue is missing
(`RefersBy`).
`Finish` and `AnswerWith` have lemmas of their own, used by every branch.
`CAADenialIsTrueHolds` adds `Climbed`: the names that `FindCAA` has left behind, from
the location up to the one it looks at, form a set without CAA records that is
closed upwards, in whatever zone object the record holds, but for that one. `LoopsAreRefusedHolds` adds `Follows`: as long as
nothing was disturbed, the cursor's aliases end exactly if the question's do, and
`loopCount` and what remains of the chain stay within the cap. "What remains" is a
rank, a function on names that falls along each alias (`Ranks`). The property holds
only where such a rank within the cap exists (`ShortChains`), since the code
refuses a chain that is longer than its cap too: the theorem has it as a
hypothesis, and the chains of the run satisfy it. `LoopsAreCutHolds`, that loops
are refused at all, needs no such hypothesis.

**HealthcheckProofs.** `StatusIsEarnedHolds`, for any workers and readers, if checks
do not overlap and counts are within the history's bound. `TInv` types every copy
of an item. `EInv` adds that the item in redis, the queued one and the ones the
workers hold are all earned, and that at most one check is outstanding (`One`):
without the latter a store may come late and overwrite a result.

**IpFilterProofs.** `BestAddressIsKept`, `DownAddressIsNotServed`, `NoneIsRevived`,
`GeoFilterIsAsDocumented` for any number of addresses. The invariant says what `min` is in the first
loop (`Best`) and in the second (`Least`), what the mask is behind and ahead of the
loop index (`Loops`), and that what a geo filter leaves grey or white was white
after the health check (`Revived`). The last theorem compares each filter with the
README's words for it (`GetSameIsSuited`, `DistanceIsNearest`). For the distances
it shows that whenever no index is out of range the healthy addresses are the first
of the record (`InRangeMeansFirst`), so that each is compared with its own.

`OrderFairness` is about what the loops of `OrderIps` compute, for any addresses
and weights. The loops are recursive functions on `0 .. N`, unfolded once
(`SumsLoop`, `AppendedLoop`), and induction over them is done on sets: a set of
naturals that holds 0 and is closed under successor holds all of them (`CountUp`,
from the library's well-founded order). With it the partial sums grow with the
weights (`SumsGrow`), so that each address owns the stretch of clock values between
two of them, as long as its weight (`WeightedIndex`, `WeightedTurns`); the white
addresses are numbered without gaps (`Ranked`), so that round robin reaches each
once a turn (`RoundRobinTurns`); and what was appended after `n` turns is exactly
the white addresses passed, in order (`AppendedInPlace`, `TurnsInOrder`,
`AppendedWhole`).

**UpstreamProofs.** `FailureIsComplete` rests on only the first place of the list
ever being overwritten, `TtlIsBounded` on a hit never leaving more time to
an answer than any goroutine that holds it was given (`Held`, `Cached`, `Limits`).
`ReplyTtlIsGiven` adds that every TTL on its way to a reply was given for that
question (`Mosts`). Answers with a TTL of 0 are bounded by the cache's default
instead, and both properties say so (`zero`). `Flights`, that a key in flight has one leader that still has a
connection to ask and that a waiter's flight exists, carries the progress theorems.

**LifecycleProofs.** `PanicsHaveACause`, `OldServersStop`, `ShutDownIsComplete` for
any number of restarts, servers and requests. The invariant follows `s` and `h`
through `Start` and `Stop` (`Globals`), says that generations to come are
untouched (`Fresh`), that old ones are down, that a request belongs to a server
that still waits for it (`Orderly`), that each wait group counts exactly the
goroutines that have registered and not ended (`Counted`, by which it never goes
below zero), and that nobody is left to call `Add` under a Wait that had missed
nobody (`Registered`). A signal that overtakes a listener goroutine (`late`) is
excepted, as the code then shuts down a server that is yet to start; the panics are
not excluded but traced to their causes, since each of them can happen (see the
`Lifecycle...` configurations above).

Every module's types are an invariant too, and proved (`TypeCorrect` and the like).

### Progress

Liveness itself is out of the prover's reach, and so is `ENABLED`. What the
liveness properties rest on is not: that nobody waits for what cannot come any
more, and that nobody goes round in circles. These two halves are proved where
requests wait for each other or loop.

* `NobodyIsStrandedHolds`. ZoneData: whoever waits in one of the singleflight groups
  waits for a goroutine that is loading just that key, also when flights fail.
  Upstream: every goroutine can take a step, the guards written out, or its
  flight's leader can. Lifecycle: while `Wait` is blocked, one of the
  goroutines counted there has something to do, so that no wake-up is lost. The log goroutine may have taken
  `h.quit` for nil; the closed queue wakes it, since `ShutDown` closes the queue
  before `quit` (`Closed`).
* `StepsCount`, an action property. Each step of a request's own goroutine lowers a
  natural number, and no step of anybody else raises it: nine steps in ZoneData,
  `Len(Servers) + 6` in Upstream, and `3 * MaxLoop + deepest + 9` in Resolver. The
  last bounds the loops of `HandleRequest` and `FindANAME` by their caps. For
  `FindCAA`, which has no cap, it assumes that each parent has fewer labels below
  the apex (`Climbs`), as stripping a label makes true.

The invariants and the action properties behind these theorems were model-checked
on the instances of the runs before they were proved. That the steps are taken is
the fairness assumed above, and what TLC checks: `EveryRequestIsAnswered`,
`EveryQueryReturns`, `StopReturns`, `HandlerGoesAway`, `FreshBecomesCurrent`,
`ZonesConverge`, `RecordIsTransferred`, `DownIsNoticed` and `StatusIsServed` are
only model-checked. Every other property of a passing run is a theorem, some under
the hypotheses named above.

## Not modelled

* TLS files, the parsing and verification of the configuration, JSON decoding of
  records, the wording of log entries and the tools: one-shot I/O without shared state. So is
  the decoding of a reloaded configuration over the previous one (`redins.go:219`).
* Cryptography is a library's; that a single signature fails is left out. That a
  key pair is replaced between the two GETs that read it is left out too: nothing
  in the code detects it.
* Several hosts that share the health checker's worker pool: Healthcheck follows
  one `host:ip`. Its goroutines are left out of Lifecycle, where the checker is
  switched off.
* `SetLocation` has no caller. A rate of 0, by which `NewRateLimiter` would
  divide, is excluded by assumption, and so are negative weights of addresses.
* What the libraries do inside. The record and zone caches (ristretto) buffer the
  `Set` of a new key: a `Get` right after it may miss, which is as if the entry had
  been evicted at once, and that is modelled. That the entry then appears after all,
  when a newer one may already have been served from a flight, is not: `RecordSet` and
  `ZoneSet` take effect when they return, and the theorems of ZoneData are about such
  a cache. The limiter reads the clock twice in a row (`limiter.go:71`); in
  `Locked` it is one reading.
* Contents of RRs other than owners, targets and TTLs.
