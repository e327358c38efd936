------------------------------ MODULE Upstream ------------------------------
(***************************************************************************)
(* Address questions at an ANAME whose target is in no zone of this        *)
(* server: Upstream.Query (src/handler/upstream.go) with its cache, its    *)
(* shared flights and its list of connections, what FindANAME makes of the *)
(* answer, and the way of its TTL through the cached record to the reply   *)
(* (HandleRequest, A, getTtl in handler.go).                               *)
(*                                                                         *)
(* A key is a target and a type; the TTL of that type in the record that   *)
(* holds the ANAME is field[key].  The []dns.RR of an answer is shared by  *)
(* the cache, the flight's leader and its waiters; it is named after the   *)
(* leader that fetched it.  Of its RRs only the TTLs matter: that of the   *)
(* first, which FindANAME reads, and the least, for which it is cached.    *)
(* Half seconds are counted, TTLs are seconds.                             *)
(***************************************************************************)
EXTENDS Naturals, Sequences

CONSTANTS
    Reqs,          \* goroutines, one question each
    Keys,
    Servers,       \* the configured upstreams, in order
    Answers,       \* TTLs of answers: [first, least]
    DefaultTtl,    \* defaultCacheTtl
    MaxTtl,        \* h.Config.MaxTtl
    MaxClock,      \* bound on the clock
    Nil

Ttl == Nat
Second == 2
Listed == {Servers[n] : n \in DOMAIN Servers}

ASSUME AnswersAssumption ==
    /\ Answers \subseteq [first: Ttl, least: Ttl]
    /\ \A a \in Answers : a.least <= a.first
ASSUME ServersAssumption == Servers \in Seq(Listed) /\ Servers # <<>>
ASSUME BoundAssumption == {DefaultTtl, MaxTtl, MaxClock} \subseteq Nat
ASSUME NilAssumption == Nil \notin Reqs \cup Keys

VARIABLES
    clock,
    connections,       \* u.connections
    cache, exp,        \* per key: the answer in u.cache, and when it expires
    flight,            \* u.inflight: the leader for a key
    rr,                \* per answer: the TTL now in its first RR
    field,             \* per key: Ttl in the cached record
    pc, key,
    n, c,              \* per leader: position in u.connections, and the connection there
    got,               \* what Query returned, Nil for no RRs
    ttl,               \* what FindANAME returned
    reply,             \* the TTL of the reply
    until,             \* history: per key, when the least TTL of the cached answer runs out
    most,              \* history: per key, the longest TTL an upstream gave
    zero,              \* history: the answers that came with a least TTL of 0
    limit,             \* history: time left to what Query returned
    tried              \* history: servers that did not answer a leader

shared  == <<clock, connections, cache, exp, flight, rr, field>>
local   == <<pc, key, n, c, got, ttl, reply>>
history == <<until, most, zero, limit, tried>>
vars == <<shared, local, history>>

\* Types; the list of connections keeps its length and holds configured servers.
TypeOK ==
    /\ clock \in 0 .. MaxClock
    /\ connections \in Seq(Listed) /\ Len(connections) = Len(Servers)
    /\ cache \in [Keys -> Reqs \cup {Nil}] /\ exp \in [Keys -> Nat]
    /\ flight \in [Keys -> Reqs \cup {Nil}]
    /\ rr \in [Reqs -> Ttl] /\ field \in [Keys -> Ttl]
    /\ pc \in [Reqs -> {"idle", "do", "exchange", "wait", "read", "write", "build", "done"}]
    /\ key \in [Reqs -> Keys \cup {Nil}] /\ n \in [Reqs -> 1 .. Len(Servers) + 1]
    /\ c \in [Reqs -> Listed \cup {Nil}]
    /\ got \in [Reqs -> Reqs \cup {Nil}]
    /\ ttl \in [Reqs -> Ttl] /\ reply \in [Reqs -> Ttl]
    /\ until \in [Keys -> Nat] /\ most \in [Keys -> Ttl] /\ zero \subseteq Reqs
    /\ limit \in [Reqs -> Nat] /\ tried \in [Reqs -> SUBSET Listed]
-----------------------------------------------------------------------------
\* time.Until(exp).Seconds(), cut off to an integer.
Remaining(k) == (exp[k] - clock) \div Second

\* Query looks into the cache.  A hit writes the remaining time into the shared RRs.
Query(r, k) ==
    /\ pc[r] = "idle"
    /\ key' = [key EXCEPT ![r] = k]
    /\ IF cache[k] # Nil /\ clock <= exp[k]
       THEN /\ rr' = [rr EXCEPT ![cache[k]] = Remaining(k)]
            /\ got' = [got EXCEPT ![r] = cache[k]]
            /\ limit' = [limit EXCEPT ![r] = IF clock < until[k] THEN until[k] - clock ELSE 0]
            /\ pc' = [pc EXCEPT ![r] = "read"]
       ELSE /\ pc' = [pc EXCEPT ![r] = "do"]
            /\ UNCHANGED <<rr, got, limit>>
    /\ UNCHANGED <<clock, connections, cache, exp, flight, field,
                   n, c, ttl, reply, until, most, zero, tried>>

\* inflight.Do: lead a flight, beginning with the first connection, or wait for the
\* flight there is.
Do(r) ==
    /\ pc[r] = "do"
    /\ IF flight[key[r]] = Nil
       THEN /\ flight' = [flight EXCEPT ![key[r]] = r] /\ c' = [c EXCEPT ![r] = connections[1]]
            /\ pc' = [pc EXCEPT ![r] = "exchange"]
       ELSE pc' = [pc EXCEPT ![r] = "wait"] /\ UNCHANGED <<flight, c>>
    /\ UNCHANGED <<clock, connections, cache, exp, rr, field,
                   key, n, got, ttl, reply, history>>

\* The flight of r ends with an answer, or with Nil for none.
LandFor(r, aboard, answer, time) ==
    /\ flight' = [flight EXCEPT ![key[r]] = Nil] /\ c' = [c EXCEPT ![r] = Nil]
    /\ pc' = [q \in Reqs |-> IF q \in aboard THEN "read" ELSE pc[q]]
    /\ got' = [q \in Reqs |-> IF q \in aboard THEN answer ELSE got[q]]
    /\ limit' = [q \in Reqs |-> IF q \in aboard THEN time ELSE limit[q]]

\* Faulty variant of Land: only the leader gets the result.
LandAlone(r, answer, time) == LandFor(r, {r}, answer, time)

Land(r, answer, time) ==
    LandFor(r, {r} \cup {w \in Reqs : pc[w] = "wait" /\ key[w] = key[r]}, answer, time)

\* The connection does not answer: the next one, as it is now, or after the last one
\* the query has failed.
ExchangeFails(r) ==
    /\ pc[r] = "exchange" /\ n[r] <= Len(connections)
    /\ tried' = [tried EXCEPT ![r] = @ \cup {c[r]}]
    /\ n' = [n EXCEPT ![r] = @ + 1]
    /\ IF n[r] = Len(connections)
       THEN Land(r, Nil, 0)
       ELSE /\ c' = [c EXCEPT ![r] = connections[n[r] + 1]]
            /\ UNCHANGED <<flight, pc, got, limit>>
    /\ UNCHANGED <<clock, connections, cache, exp, rr, field,
                   key, ttl, reply, until, most, zero>>

\* An error code or no RRs: returned as it is, not cached, and the order stays.
ExchangeEmpty(r) ==
    /\ pc[r] = "exchange" /\ n[r] <= Len(connections)
    /\ Land(r, Nil, 0)
    /\ UNCHANGED <<clock, connections, cache, exp, rr, field,
                   key, n, ttl, reply, until, most, zero, tried>>

CachedFor(least) == IF least = 0 THEN DefaultTtl ELSE least

\* An answer is cached for its least TTL, 0 meaning the default to the cache.
\* Its connection is written over the first one.
Answered(r, a, lifetime, order) ==
    /\ pc[r] = "exchange" /\ n[r] <= Len(connections)
    /\ rr' = [rr EXCEPT ![r] = a.first]
    /\ cache' = [cache EXCEPT ![key[r]] = r]
    /\ exp' = [exp EXCEPT ![key[r]] = clock + Second * lifetime]
    /\ until' = [until EXCEPT ![key[r]] = clock + Second * a.least]
    /\ most' = [most EXCEPT ![key[r]] = IF @ < a.first THEN a.first ELSE @]
    /\ zero' = IF a.least = 0 THEN zero \cup {r} ELSE zero
    /\ Land(r, r, Second * a.first)
    /\ connections' = order
    /\ UNCHANGED <<clock, field, key, n, ttl, reply, tried>>

Overwritten(r) == [connections EXCEPT ![1] = c[r]]

\* Faulty variants of ExchangeAnswer: cached for the TTL of the first RR; the two
\* connections change places.
ExchangeAnswerFirst(r) ==
    \E a \in Answers : Answered(r, a, CachedFor(a.first), Overwritten(r))
ExchangeAnswerSwapped(r) ==
    \E a \in Answers : Answered(r, a, CachedFor(a.least),
                                [Overwritten(r) EXCEPT ![n[r]] = connections[1]])

ExchangeAnswer(r) ==
    \E a \in Answers : Answered(r, a, CachedFor(a.least), Overwritten(r))
-----------------------------------------------------------------------------
(* FindANAME and HandleRequest *)

\* FindANAME takes the TTL from the first RR; no answer and no success give 0.
FindANAME(r) ==
    /\ pc[r] = "read"
    /\ ttl' = [ttl EXCEPT ![r] = IF got[r] = Nil THEN 0 ELSE rr[got[r]]]
    /\ pc' = [pc EXCEPT ![r] = "write"]
    /\ UNCHANGED <<shared, key, n, c, got, reply, history>>

SetTtl(r, t) ==
    /\ pc[r] = "write"
    /\ field' = [field EXCEPT ![key[r]] = t]
    /\ pc' = [pc EXCEPT ![r] = "build"]
    /\ got' = [got EXCEPT ![r] = Nil] /\ n' = [n EXCEPT ![r] = 1]
    /\ limit' = [limit EXCEPT ![r] = 0] /\ tried' = [tried EXCEPT ![r] = {}]
    /\ UNCHANGED <<clock, connections, cache, exp, flight, rr,
                   key, c, ttl, reply, until, most, zero>>

\* Faulty variant of WriteTtl: the record keeps the TTL it has.
WriteTtlNot(r) == SetTtl(r, field[key[r]])

\* HandleRequest writes it into the record that all requests share ...
WriteTtl(r) == SetTtl(r, ttl[r])

getTtl(t) == IF t = 0 THEN MaxTtl ELSE IF MaxTtl = 0 \/ t <= MaxTtl THEN t ELSE MaxTtl

\* ... and A builds the reply from the record.
A(r) ==
    /\ pc[r] = "build"
    /\ reply' = [reply EXCEPT ![r] = getTtl(field[key[r]])]
    /\ pc' = [pc EXCEPT ![r] = "done"]
    /\ UNCHANGED <<shared, key, n, c, got, ttl, history>>
-----------------------------------------------------------------------------
Tick ==
    /\ clock < MaxClock /\ clock' = clock + 1
    /\ UNCHANGED <<connections, cache, exp, flight, rr, field, local, history>>

\* A record loaded from JSON without a TTL has TTL 0.
Init ==
    /\ clock = 0 /\ connections = Servers
    /\ cache = [k \in Keys |-> Nil] /\ exp = [k \in Keys |-> 0]
    /\ flight = [k \in Keys |-> Nil]
    /\ rr = [r \in Reqs |-> 0] /\ field = [k \in Keys |-> 0]
    /\ pc = [r \in Reqs |-> "idle"] /\ key = [r \in Reqs |-> Nil]
    /\ n = [r \in Reqs |-> 1] /\ c = [r \in Reqs |-> Nil]
    /\ got = [r \in Reqs |-> Nil]
    /\ ttl = [r \in Reqs |-> 0] /\ reply = [r \in Reqs |-> 0]
    /\ until = [k \in Keys |-> 0] /\ most = [k \in Keys |-> 0] /\ zero = {}
    /\ limit = [r \in Reqs |-> 0] /\ tried = [r \in Reqs |-> {}]

Exchange(r) == ExchangeFails(r) \/ ExchangeEmpty(r) \/ ExchangeAnswer(r)
Step(r) == Do(r) \/ Exchange(r) \/ FindANAME(r) \/ WriteTtl(r) \/ A(r)

Next == Tick \/ \E r \in Reqs : Step(r) \/ \E k \in Keys : Query(r, k)

Spec == Init /\ [][Next]_vars

\* Goroutines run, and an exchange ends at its timeout.
FairSpec == Spec /\ \A r \in Reqs : WF_vars(Step(r))
-----------------------------------------------------------------------------
\* Query gives up only after every upstream was asked, the first of the
\* configuration excepted: whatever other flights do to the list meanwhile, only
\* its first place is ever overwritten.
FailureMeansAllDown ==
    \A r \in Reqs : n[r] > Len(Servers) =>
        \A j \in 2 .. Len(Servers) : Servers[j] \in tried[r]

\* What one would expect of the swap in Query: no upstream is ever lost.
NoServerIsLost == \A j \in DOMAIN Servers : Servers[j] \in {connections[i] : i \in DOMAIN Servers}

\* The TTL that FindANAME returns is no longer than the answer's own: a goroutine
\* that shared a flight gets at most the TTL the answer came with, one that hit
\* the cache at most what was left of the least TTL, although others rewrite the
\* TTLs between its Query and its reading them.  The exception is an answer with a
\* TTL of 0: go-cache takes a lifetime of 0 for its default (upstream.go:86), and
\* a hit makes of the 0 up to DefaultTtl.
TtlWithinLifetime ==
    \A r \in Reqs : pc[r] = "write" =>
        Second * ttl[r] <= limit[r] \/ (got[r] \in zero /\ ttl[r] <= DefaultTtl)

\* What one would expect of a TTL of 0 too: no answer is passed on for longer than
\* the upstream allowed.
ZeroIsZero == \A r \in Reqs : pc[r] = "write" => Second * ttl[r] <= limit[r]

\* Some goroutine has written the TTL 0, "none", into the record for k: its query
\* failed, or its answer had less than a second left.
Zeroed(k) == \E r \in Reqs : key[r] = k /\ pc[r] \in {"build", "done"} /\ ttl[r] = 0

\* A TTL that comes from the upstreams' answers for k: no longer than the longest
\* they gave, or no longer than what the cache makes of a 0 among them.
Given(k, t) == t <= most[k] \/ (t <= DefaultTtl /\ \E z \in zero : key[z] = k)

\* Requests that mix up their TTLs through the shared record invent none: a reply
\* has at most the longest TTL an upstream gave for the same question.  There are
\* two exceptions: an upstream gave 0, which the cache turns into DefaultTtl, and 0
\* was written into the record, which getTtl turns into max_ttl.
ReplyTtlIsSomeones ==
    \A r \in Reqs : pc[r] = "done" /\ ~Zeroed(key[r]) => Given(key[r], reply[r])

\* Every question is answered: a flight that fails lets its waiters go.
EveryQueryReturns == \A r \in Reqs : pc[r] # "idle" ~> pc[r] = "done"
=============================================================================
