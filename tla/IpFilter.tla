------------------------------ MODULE IpFilter ------------------------------
(***************************************************************************)
(* Which addresses of a record an A or AAAA question gets, and in which    *)
(* order: DnsRequestHandler.Filter and OrderIps (src/handler/handler.go),  *)
(* FilterHealthcheck (healthcheck.go) and the geo filters (geoip.go), on a *)
(* mask over the record's addresses 1 .. N.                                *)
(*                                                                         *)
(* getStatus is asked twice per address and answers from a cache whose     *)
(* entries expire, so its two answers are independent.  The rest of the    *)
(* record and the client's place are chosen when they are first looked at. *)
(***************************************************************************)
EXTENDS Integers, Sequences, FiniteSets, Functions

CONSTANTS
    N,             \* len(rrset.Data)
    UpCount,       \* rrset.HealthCheckConfig
    DownCount,
    Statuses,      \* what getStatus may answer
    Geos,          \* geo filter, the client's place and that of the addresses
    Orders,        \* order, count, weights and the clock OrderIps reads
    Codes,         \* countries and AS numbers
    Unknown,       \* "" as a country, 0 as an AS number
    Nil            \* a lookup failed, or the filter is disabled

White == 0
Grey == 1
Black == 2

Ips == 1 .. N
Geo == [filter: {"asn", "country", "asn+country", "location", "none"},
        country: Codes \cup {Unknown, Nil}, countries: [Ips -> SUBSET (Codes \cup {Unknown})],
        asn: Codes \cup {Unknown, Nil}, asns: [Ips -> SUBSET (Codes \cup {Unknown})],
        distances: [Ips -> Nat]]
Order == [order: {"weighted", "rr", "none"}, count: {"single", "multi"},
          weights: [Ips -> Nat], now: Nat]

ASSUME CountAssumption == /\ N \in Nat /\ UpCount \in Int /\ DownCount \in Int
                          /\ Statuses \subseteq Int
ASSUME InputAssumption == Geos \subseteq Geo /\ Orders \subseteq Order
ASSUME CodeAssumption == Unknown \notin Codes /\ Nil \notin Codes \cup {Unknown}

VARIABLES
    enable,            \* is the health checker enabled?
    pc,
    mask,
    i, min,            \* the loop index and min of FilterHealthcheck
    first, second,     \* what getStatus answered in its two loops
    healthy,           \* history: the mask FilterHealthcheck returned
    geo,               \* the element of Geos that the geo filter was given
    ord,               \* the element of Orders that OrderIps was given
    result

vars == <<enable, pc, mask, i, min, first, second, healthy, geo, ord, result>>

Mask == [Ips -> {White, Grey, Black}]
Whites(m) == {k \in Ips : m[k] = White}

\* Types; the result is a sequence of the record's own addresses (Filter).
TypeOK ==
    /\ enable \in BOOLEAN
    /\ pc \in {"max", "mask", "geo", "order", "done", "panic"}
    /\ mask \in Mask /\ healthy \in Mask
    /\ i \in 1 .. N + 1 /\ min \in Int
    /\ first \in Seq(Statuses) /\ second \in Seq(Statuses)
    /\ geo = Nil \/ geo \in Geo
    /\ ord = Nil \/ ord \in Order
    /\ result \in Seq(Ips)
-----------------------------------------------------------------------------
(* FilterHealthcheck *)

\* The first loop: min becomes the best status.
FilterHealthcheckMax ==
    /\ pc = "max" /\ enable /\ i <= N
    /\ \E status \in Statuses :
          /\ first' = Append(first, status)
          /\ min' = IF mask[i] = White /\ status > min THEN status ELSE min
    /\ i' = i + 1
    /\ UNCHANGED <<enable, pc, mask, second, healthy, geo, ord, result>>

\* Between the loops: nobody is up, but somebody is not down.
LowerTo(newMin) ==
    /\ pc = "max" /\ enable /\ i > N
    /\ min' = newMin
    /\ pc' = "mask" /\ i' = 1
    /\ UNCHANGED <<enable, mask, first, second, healthy, geo, ord, result>>

\* Faulty variant of FilterHealthcheckMin: addresses that are down pass too.
FilterHealthcheckMinDown ==
    LowerTo(IF min < UpCount - 1 /\ min > DownCount THEN DownCount ELSE min)

FilterHealthcheckMin ==
    LowerTo(IF min < UpCount - 1 /\ min > DownCount THEN DownCount + 1 ELSE min)

\* The second loop asks for the status again.
MaskFrom(least) ==
    /\ pc = "mask" /\ i <= N
    /\ \E status \in Statuses :
          /\ second' = Append(second, status)
          /\ mask' = [mask EXCEPT ![i] = IF @ = White /\ ~(status < least) THEN White ELSE Black]
    /\ i' = i + 1
    /\ UNCHANGED <<enable, pc, min, first, healthy, geo, ord, result>>

\* Faulty variant of FilterHealthcheckMask: only a status above min passes.
FilterHealthcheckMaskAbove == MaskFrom(min + 1)

FilterHealthcheckMask == MaskFrom(min)

\* Back in Filter, at once if health checks are off.
FilterHealthcheckReturn ==
    /\ \/ pc = "max" /\ ~enable
       \/ pc = "mask" /\ i > N
    /\ pc' = "geo" /\ healthy' = mask
    /\ i' = 1 /\ min' = DownCount /\ first' = <<>> /\ second' = <<>>
    /\ UNCHANGED <<enable, mask, geo, ord, result>>
-----------------------------------------------------------------------------
(* The geo filters *)

\* Prefer the addresses listed for the client's place; if there is none, those
\* listed for no place in particular.
Same(source, lists, m) ==
    LET marked == IF source = Unknown THEN m
                  ELSE [k \in Ips |-> IF m[k] # White THEN Black
                                      ELSE IF source \in lists[k] THEN White ELSE Grey]
        anywhere(k) == lists[k] = {} \/ Unknown \in lists[k]
    IN  IF source # Unknown /\ Whites(marked) # {} THEN marked
        ELSE [k \in Ips |-> IF marked[k] # Black /\ anywhere(k) THEN White ELSE Black]

\* Faulty variant of GetSameASN: also addresses that are not white are looked at.
GetSameASNRevived(g, m) ==
    IF g.asn = Nil THEN m ELSE Same(g.asn, g.asns, [k \in Ips |-> White])

GetSameASN(g, m) == IF g.asn = Nil THEN m ELSE Same(g.asn, g.asns, m)

\* Faulty variant of GetSameCountry: no second chance for a client from nowhere.
GetSameCountryStrict(g, m) ==
    IF g.country = Nil THEN m
    ELSE [k \in Ips |-> IF m[k] = White /\ g.country \in g.countries[k] THEN White ELSE Black]

GetSameCountry(g, m) == IF g.country = Nil THEN m ELSE Same(g.country, g.countries, m)

\* dists has an entry per white address, in order, but is read at the address's own
\* index.  So an address that is not white in front of a white one leaves the last
\* of them without an entry; otherwise one of them is the nearest, and passed is
\* not 0.  Where the client is counts as unknown with its country.
place(k, m) == Cardinality({j \in Whites(m) : j <= k})
dists(g, m) ==
    [n \in 1 .. Cardinality(Whites(m)) |-> g.distances[CHOOSE k \in Whites(m) : place(k, m) = n]]
OutOfRange(g, m) == \E k \in Whites(m) : k \notin DOMAIN dists(g, m)
GetMinimumDistance(g, m) ==
    LET d == dists(g, m)
        nearest(k) == \A n \in DOMAIN d : d[k] <= d[n]
    IN  IF g.country = Nil THEN m
        ELSE [k \in Ips |-> IF m[k] # White THEN Black ELSE IF nearest(k) THEN White ELSE Grey]

\* The switch in Filter.  An index out of range ends the goroutine.
GeoFilter ==
    /\ pc = "geo"
    /\ \E g \in Geos :
          /\ geo' = g
          /\ IF g.filter = "location" /\ g.country # Nil /\ OutOfRange(g, mask)
             THEN pc' = "panic" /\ UNCHANGED mask
             ELSE /\ pc' = "order"
                  /\ mask' = CASE g.filter = "asn" -> GetSameASN(g, mask)
                               [] g.filter = "country" -> GetSameCountry(g, mask)
                               [] g.filter = "asn+country" -> GetSameCountry(g, GetSameASN(g, mask))
                               [] g.filter = "location" -> GetMinimumDistance(g, mask)
                               [] OTHER -> mask
    /\ UNCHANGED <<enable, i, min, first, second, healthy, ord, result>>
-----------------------------------------------------------------------------
(* OrderIps *)

\* The weights of the white addresses, added up to each address; sum is the last.
sums(weights, white) ==
    LET upTo[k \in 0 .. N] ==
            IF k = 0 THEN 0 ELSE upTo[k - 1] + IF k \in white THEN weights[k] ELSE 0
    IN  upTo
sum(weights, white) == sums(weights, white)[N]

\* Where the result starts: clock % sum falls among the weights of the white
\* addresses, or clock % count among the addresses themselves.
WeightIndex(o, white, limit) ==
    LET s(k) == (o.now % sum(o.weights, white)) - sums(o.weights, white)[k]
    IN  CHOOSE k \in white : s(k) < limit /\ \A j \in white : j < k => ~(s(j) < limit)

index(o, white) ==
    CASE o.order = "weighted" /\ sum(o.weights, white) > 0 -> WeightIndex(o, white, 0)
      [] o.order = "rr" \/ (o.order = "weighted" /\ sum(o.weights, white) = 0) ->
           CHOOSE k \in white : Cardinality({j \in white : j < k}) = o.now % Cardinality(white)
      [] OTHER -> CHOOSE k \in white : \A j \in white : k <= j

\* The white addresses from start to the last one, then those in front of start.
appended(start, m) ==
    LET turn(n) == IF start + n - 1 <= N THEN start + n - 1 ELSE start + n - 1 - N
        upTo[n \in 0 .. N] ==
            IF n = 0 THEN <<>>
            ELSE IF m[turn(n)] = White THEN Append(upTo[n - 1], turn(n)) ELSE upTo[n - 1]
    IN  upTo

\* Faulty variant of OrderIps: an address without weight may come first.
OrderIpsInclusive(o, m) ==
    IF Whites(m) = {} THEN <<>>
    ELSE IF o.order = "weighted" /\ sum(o.weights, Whites(m)) > 0
         THEN <<WeightIndex(o, Whites(m), 1)>>
         ELSE <<index(o, Whites(m))>>

OrderIps(o, m) ==
    IF Whites(m) = {} THEN <<>>
    ELSE LET start == index(o, Whites(m))
         IN  IF o.count = "single" THEN <<start>> ELSE appended(start, m)[N]

\* Filter returns what OrderIps makes of the mask.
FilterReturn ==
    /\ pc = "order" /\ pc' = "done"
    /\ \E o \in Orders : ord' = o /\ result' = OrderIps(o, mask)
    /\ geo' = Nil
    /\ UNCHANGED <<enable, mask, i, min, first, second, healthy>>
-----------------------------------------------------------------------------
Init ==
    /\ enable \in BOOLEAN
    /\ pc = "max" /\ mask = [k \in Ips |-> White] /\ healthy = mask
    /\ i = 1 /\ min = DownCount /\ first = <<>> /\ second = <<>>
    /\ geo = Nil /\ ord = Nil /\ result = <<>>

Next ==
    \/ FilterHealthcheckMax \/ FilterHealthcheckMin \/ FilterHealthcheckMask
    \/ FilterHealthcheckReturn \/ GeoFilter \/ FilterReturn

Spec == Init /\ [][Next]_vars
-----------------------------------------------------------------------------
\* FilterHealthcheck is about to return.
Checked == pc = "mask" /\ i > N

\* FilterHealthcheck does not filter everything out without need: an address
\* that was the best at the first look, at least at down_count, and was no worse
\* at the second look is kept.  (When all of the best fall in between, the answer
\* is empty; so it is when all are below a down_count that was raised.)
BestIsKept ==
    Checked => \A k \in Ips :
        /\ \A j \in Ips : first[j] <= first[k]
        /\ DownCount <= first[k] /\ first[k] <= second[k]
        => mask[k] = White

\* An address that is down at the second look of FilterHealthcheck is not served
\* if any address was not down at the first.
DownIsNotServed ==
    Checked /\ (\E k \in Ips : first[k] > DownCount) =>
        \A k \in Ips : mask[k] = White => second[k] > DownCount

\* The geo filters turn grey addresses white again when no address suits the
\* client; none of them ever brings back an address the health check took out.
NoDownAddressIsRevived ==
    pc \in {"order", "done"} => \A k \in Ips : mask[k] = White => healthy[k] = White

\* The README's words for geo_filter: same isp, same country, same isp then same
\* country, nearest; failing that, the addresses that are not bound to a place.
Suited(source, lists, S) ==
    LET own == {k \in S : source \in lists[k]}
    IN  IF source = Nil THEN S
        ELSE IF source # Unknown /\ own # {} THEN own
        ELSE {k \in S : lists[k] = {} \/ Unknown \in lists[k]}
Documented(g, S) ==
    CASE g.filter = "asn" -> Suited(g.asn, g.asns, S)
      [] g.filter = "country" -> Suited(g.country, g.countries, S)
      [] g.filter = "asn+country" ->
           Suited(g.country, g.countries, Suited(g.asn, g.asns, S))
      [] g.filter = "location" /\ g.country # Nil ->
           {k \in S : \A j \in S : g.distances[k] <= g.distances[j]}
      [] OTHER -> S

\* Where the code departs from it: a client with an isp but no country gets the
\* grey addresses of other isps back.
Departs(g) == g.filter = "asn+country" /\ g.country = Unknown

\* Apart from this, and if they return at all, the geo filters (GetSameASN,
\* GetSameCountry, GetMinimumDistance) select what the README says, from the
\* addresses that are up.
GeoIsAsDocumented ==
    pc = "order" /\ ~Departs(geo) => Whites(mask) = Documented(geo, Whites(healthy))

\* What the README says of "location" without exception: the nearest of the
\* healthy addresses are served.  A panic serves nobody.
NearestIsServed ==
    /\ pc # "panic"
    /\ pc = "order" /\ geo.filter = "location" =>
          Whites(mask) = Documented(geo, Whites(healthy))

\* OrderIps loses and repeats no address, keeps the saved order cyclically, and
\* over a full turn of the clock puts each address first as often as its weight
\* says ("weighted"), equally often ("rr"), or only the first ("none").
Turns(o, m, k, length) ==
    Cardinality({n \in 0 .. length - 1 : Head(OrderIps([o EXCEPT !.now = n], m)) = k})
Fair(o, m, ips) ==
    LET white == Whites(m)
        after(k) == IF \E j \in white : j > k THEN {j \in white : j > k} ELSE white
    IN  /\ o.count = "multi" => Range(ips) = white /\ Len(ips) = Cardinality(white)
        /\ o.count = "single" /\ white # {} => Len(ips) = 1 /\ Range(ips) \subseteq white
        /\ \A n \in 1 .. Len(ips) - 1 :
              ips[n + 1] \in after(ips[n]) /\ \A j \in after(ips[n]) : ips[n + 1] <= j
        /\ \A k \in white :
              CASE o.order = "weighted" /\ sum(o.weights, white) > 0 ->
                     Turns(o, m, k, sum(o.weights, white)) = o.weights[k]
                [] o.order = "none" -> \A j \in white : Head(ips) <= j
                [] OTHER -> Turns(o, m, k, Cardinality(white)) = 1
OrderIsFair == pc = "done" => Fair(ord, mask, result)
=============================================================================
