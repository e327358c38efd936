--------------------------- MODULE UpstreamProofs ---------------------------
(***************************************************************************)
(* Proofs about Upstream, for any goroutines, questions, servers, answers  *)
(* and lengths of the run.                                                 *)
(***************************************************************************)
EXTENDS Upstream, SequenceTheorems, TLAPS

\* A leaf goes to Zenon unless it names SMT, for arithmetic and for records and
\* functions given by their values, or PTL, for the temporal steps.
USE ZenonT(60)

Landed == {"read", "write", "build", "done"}

\* Only the first connection is ever overwritten, so a leader that has come to
\* place n has asked the configured servers 2 .. n - 1 and now asks server n.
Places ==
    /\ \A j \in 2 .. Len(Servers) : connections[j] = Servers[j]
    /\ \A r \in Reqs : \A j \in 2 .. n[r] - 1 : Servers[j] \in tried[r]
    /\ \A r \in Reqs : pc[r] = "exchange" =>
          c[r] \in Listed /\ (n[r] \in 2 .. Len(Servers) => c[r] = Servers[n[r]])
    /\ \A r \in Reqs : pc[r] \in {"idle", "do"} => n[r] = 1

\* What is cached was fetched by a goroutine that asked the same question and
\* has left its flight; so it is with what a goroutine holds.  It expires with its
\* least TTL, but after DefaultTtl if that is 0.
Cached ==
    \A k \in Keys : cache[k] # Nil =>
        /\ key[cache[k]] = k /\ pc[cache[k]] \in Landed
        /\ cache[k] \notin zero => exp[k] = until[k] /\ exp[k] <= clock + Second * most[k]
        /\ cache[k] \in zero => exp[k] <= clock + Second * DefaultTtl
Held ==
    \A r \in Reqs :
        /\ pc[r] # "idle" => key[r] \in Keys
        /\ got[r] # Nil => /\ pc[r] \in {"read", "write"}
                           /\ pc[got[r]] \in Landed /\ key[got[r]] = key[r]
        /\ r \in zero => pc[r] \in Landed

\* No hit leaves more time to a goroutine's answer than the goroutine was given, or
\* DefaultTtl to an answer with a TTL of 0.
Within(r, t) == Second * t <= limit[r] \/ (got[r] \in zero /\ t <= DefaultTtl)
Limits ==
    \A r \in Reqs :
        /\ got[r] # Nil => \A k \in Keys : got[r] = cache[k] => until[k] <= clock + limit[r]
        /\ pc[r] = "read" /\ got[r] # Nil => Within(r, rr[got[r]])
        /\ pc[r] = "write" => Within(r, ttl[r])

\* Every TTL on its way to a reply was given for that question.
Mosts ==
    \A r \in Reqs :
        /\ pc[r] \notin Landed => rr[r] = 0
        /\ pc[r] \in Landed => Given(key[r], rr[r])
        /\ pc[r] \in {"write", "build", "done"} => Given(key[r], ttl[r])
        /\ pc[r] \in {"build", "done"} /\ ~Zeroed(key[r]) =>
              field[key[r]] # 0 /\ Given(key[r], field[key[r]])

IInv ==
    /\ TypeOK /\ Places
    /\ Cached /\ Held /\ Limits /\ Mosts /\ ReplyTtlIsSomeones
-----------------------------------------------------------------------------
\* Servers is a list with a first entry (NewUpstream).
LEMMA ServersLength == Len(Servers) \in Nat \ {0} /\ DOMAIN Servers = 1 .. Len(Servers)
  BY SMT, ServersAssumption

\* Half of a natural number, cut off (Remaining).
LEMMA HalfOf == \A d \in Nat : d \div Second \in Nat /\ Second * (d \div Second) <= d
  BY Z3 DEF Second

\* What Query writes into u.connections is a list of the same length, of which
\* only the first place changes.
LEMMA OverwrittenPlaces ==
    ASSUME TypeOK, NEW r \in Reqs, c[r] \in Listed
    PROVE  /\ Overwritten(r) \in Seq(Listed) /\ Len(Overwritten(r)) = Len(Servers)
           /\ \A j \in 2 .. Len(Servers) : Overwritten(r)[j] = connections[j]
  <1>1. /\ connections \in Seq(Listed) /\ Len(connections) = Len(Servers)
        /\ 1 \in 1 .. Len(connections)
    BY SMT, ServersLength DEF TypeOK
  <1> QED
    BY SMT, <1>1, ExceptSeq, ServersLength DEF Overwritten

Pcs == {"idle", "do", "exchange", "wait", "read", "write", "build", "done"}

\* The leader and its waiters (inflight.Do).
Aboard(r) == {r} \cup {w \in Reqs : pc[w] = "wait" /\ key[w] = key[r]}

\* What the end of a flight does to those aboard, and that it does nothing to others.
LEMMA LandEffect ==
    ASSUME TypeOK, NEW r \in Reqs, NEW answer \in Reqs \cup {Nil}, NEW time \in Nat,
           Land(r, answer, time)
    PROVE  /\ flight' \in [Keys -> Reqs \cup {Nil}] /\ pc' \in [Reqs -> Pcs]
           /\ got' \in [Reqs -> Reqs \cup {Nil}] /\ limit' \in [Reqs -> Nat]
           /\ c' \in [Reqs -> Listed \cup {Nil}] /\ \A q \in Reqs \ {r} : c'[q] = c[q]
           /\ \A q \in Aboard(r) : pc'[q] = "read" /\ got'[q] = answer /\ limit'[q] = time
           /\ \A q \in Reqs \ Aboard(r) :
                 pc'[q] = pc[q] /\ got'[q] = got[q] /\ limit'[q] = limit[q]
  <1>1. flight' \in [Keys -> Reqs \cup {Nil}]
    BY DEF TypeOK, Land, LandFor
  <1>2. /\ pc' = [q \in Reqs |-> IF q \in Aboard(r) THEN "read" ELSE pc[q]]
        /\ got' = [q \in Reqs |-> IF q \in Aboard(r) THEN answer ELSE got[q]]
        /\ limit' = [q \in Reqs |-> IF q \in Aboard(r) THEN time ELSE limit[q]]
    BY DEF Land, LandFor, Aboard
  <1>3. pc' \in [Reqs -> Pcs]
    BY <1>2 DEF TypeOK, Pcs
  <1>4. got' \in [Reqs -> Reqs \cup {Nil}] /\ limit' \in [Reqs -> Nat]
    BY <1>2 DEF TypeOK
  <1>5. Aboard(r) \subseteq Reqs
    BY DEF Aboard
  <1>6. c' \in [Reqs -> Listed \cup {Nil}] /\ \A q \in Reqs \ {r} : c'[q] = c[q]
    BY DEF TypeOK, Land, LandFor
  <1> QED
    BY <1>1, <1>2, <1>3, <1>4, <1>5, <1>6

\* TypeOK, for the variables an action assigns.
LEMMA StepType ==
    ASSUME TypeOK, Places, Cached, Held, [Next]_vars
    PROVE  TypeOK'
  <1>0. /\ Nil \notin Reqs /\ Nil \notin Keys
        /\ Answers \subseteq [first: Nat, least: Nat]
        /\ DefaultTtl \in Nat /\ MaxTtl \in Nat /\ MaxClock \in Nat
    BY NilAssumption, AnswersAssumption, BoundAssumption DEF Ttl
  <1>1. ASSUME NEW r \in Reqs, NEW k \in Keys, Query(r, k)
        PROVE  TypeOK'
    <2>1. CASE cache[k] # Nil /\ clock <= exp[k]
      <3>1. exp[k] \in Nat /\ clock \in Nat /\ until[k] \in Nat /\ cache[k] \in Reqs
        BY SMT, <1>0, <2>1 DEF TypeOK
      <3>2. /\ exp[k] - clock \in Nat
            /\ (IF clock < until[k] THEN until[k] - clock ELSE 0) \in Nat
        BY SMT, <2>1, <3>1
      <3>3. Remaining(k) \in Nat
        BY <3>2, HalfOf DEF Remaining
      <3>4. rr' \in [Reqs -> Ttl] /\ got' \in [Reqs -> Reqs \cup {Nil}]
        <4>1. /\ rr' = [rr EXCEPT ![cache[k]] = Remaining(k)]
              /\ got' = [got EXCEPT ![r] = cache[k]]
          BY <1>1, <2>1 DEF Query
        <4> QED
          BY <3>1, <3>3, <4>1 DEF TypeOK, Ttl
      <3>5. limit' \in [Reqs -> Nat]
        <4>1. PICK time \in Nat : limit' = [limit EXCEPT ![r] = time]
          BY <1>1, <2>1, <3>2 DEF Query
        <4> QED
          BY <4>1 DEF TypeOK
      <3> QED
        BY <1>1, <2>1, <3>4, <3>5 DEF TypeOK, Query
    <2>2. CASE ~(cache[k] # Nil /\ clock <= exp[k])
      BY <1>0, <1>1, <2>2 DEF TypeOK, Query
    <2> QED
      BY <2>1, <2>2
  <1>2. ASSUME NEW r \in Reqs, Do(r)
        PROVE  TypeOK'
    <2>1. key[r] \in Keys
      BY <1>2 DEF Do, Held
    <2>2. flight' \in [Keys -> Reqs \cup {Nil}]
      <3>1. flight' = [flight EXCEPT ![key[r]] = r] \/ flight' = flight
        BY <1>2 DEF Do
      <3>2. flight \in [Keys -> Reqs \cup {Nil}]
        BY DEF TypeOK
      <3> QED
        BY <1>2, <2>1, <3>1, <3>2
    <2>3. pc' \in [Reqs -> Pcs]
      <3>1. \/ pc' = [pc EXCEPT ![r] = "exchange"]
            \/ pc' = [pc EXCEPT ![r] = "wait"]
        BY <1>2 DEF Do
      <3>2. pc \in [Reqs -> Pcs] /\ "exchange" \in Pcs /\ "wait" \in Pcs
        BY DEF TypeOK, Pcs
      <3> QED
        BY <3>1, <3>2
    <2>4. c' \in [Reqs -> Listed \cup {Nil}]
      <3>1. c' = [c EXCEPT ![r] = connections[1]] \/ c' = c
        BY <1>2 DEF Do
      <3>2. connections[1] \in Listed
        BY SMT, ServersLength, ElementOfSeq DEF TypeOK
      <3> QED
        BY <3>1, <3>2 DEF TypeOK
    <2> QED
      BY <1>2, <2>2, <2>3, <2>4 DEF TypeOK, Do, history, Pcs
  <1>3. ASSUME NEW r \in Reqs, ExchangeFails(r)
        PROVE  TypeOK'
    <2>1. /\ n[r] \in 1 .. Len(Servers) /\ n[r] + 1 \in 1 .. Len(Servers) + 1
      BY SMT, <1>3, ServersLength DEF TypeOK, ExchangeFails
    <2>2. /\ n' \in [Reqs -> 1 .. Len(Servers) + 1] /\ tried' \in [Reqs -> SUBSET Listed]
      <3>1. c[r] \in Listed
        BY <1>3 DEF Places, ExchangeFails
      <3> QED
        BY <1>3, <2>1, <3>1 DEF TypeOK, ExchangeFails
    <2>3. /\ flight' \in [Keys -> Reqs \cup {Nil}] /\ got' \in [Reqs -> Reqs \cup {Nil}]
          /\ limit' \in [Reqs -> Nat] /\ pc' \in [Reqs -> Pcs]
          /\ c' \in [Reqs -> Listed \cup {Nil}]
      <3>1. CASE n[r] = Len(connections)
        <4>1. Land(r, Nil, 0)
          BY <1>3, <3>1 DEF ExchangeFails
        <4> QED
          BY <4>1, LandEffect
      <3>2. CASE n[r] # Len(connections)
        <4>1. c' = [c EXCEPT ![r] = connections[n[r] + 1]] /\ UNCHANGED <<flight, pc, got, limit>>
          BY <1>3, <3>2 DEF ExchangeFails
        <4>2. connections[n[r] + 1] \in Listed
          <5>1. n[r] + 1 \in 1 .. Len(connections) /\ connections \in Seq(Listed)
            BY SMT, <2>1, <3>2, ServersLength DEF TypeOK
          <5> QED
            BY <5>1, ElementOfSeq
        <4> QED
          BY <4>1, <4>2 DEF TypeOK, Pcs
      <3> QED
        BY <3>1, <3>2
    <2> QED
      BY <1>3, <2>2, <2>3 DEF TypeOK, ExchangeFails, Pcs
  <1>4. ASSUME NEW r \in Reqs, ExchangeEmpty(r)
        PROVE  TypeOK'
    <2>1. Land(r, Nil, 0)
      BY <1>4 DEF ExchangeEmpty
    <2> QED
      BY <1>4, <2>1, LandEffect DEF TypeOK, ExchangeEmpty, Pcs
  <1>5. ASSUME NEW r \in Reqs, ExchangeAnswer(r)
        PROVE  TypeOK'
    <2>1. PICK a \in Answers : Answered(r, a, CachedFor(a.least), Overwritten(r))
      BY <1>5 DEF ExchangeAnswer
    <2>2. a.first \in Nat /\ a.least \in Nat /\ CachedFor(a.least) \in Nat
      BY <1>0 DEF CachedFor
    <2>3. connections' \in Seq(Listed) /\ Len(connections') = Len(Servers)
      <3>1. c[r] \in Listed /\ connections' = Overwritten(r)
        BY <2>1 DEF Answered, Places
      <3> QED
        BY <3>1, OverwrittenPlaces
    <2>4. /\ flight' \in [Keys -> Reqs \cup {Nil}] /\ got' \in [Reqs -> Reqs \cup {Nil}]
          /\ limit' \in [Reqs -> Nat] /\ pc' \in [Reqs -> Pcs]
          /\ c' \in [Reqs -> Listed \cup {Nil}]
      <3>1. PICK time \in Nat : time = Second * a.first
        BY SMT, <2>2 DEF Second
      <3>2. Land(r, r, time)
        BY <2>1, <3>1 DEF Answered
      <3> QED
        BY <3>2, LandEffect
    <2>5. /\ rr' \in [Reqs -> Nat] /\ cache' \in [Keys -> Reqs \cup {Nil}]
          /\ most' \in [Keys -> Nat] /\ zero' \subseteq Reqs
      BY <2>1, <2>2 DEF TypeOK, Answered, Ttl
    <2>6. clock + Second * CachedFor(a.least) \in Nat /\ clock + Second * a.least \in Nat
      <3>1. clock \in Nat
        BY SMT, <1>0 DEF TypeOK
      <3> QED
        BY SMT, <2>2, <3>1 DEF Second
    <2>7. exp' \in [Keys -> Nat] /\ until' \in [Keys -> Nat]
      BY <2>1, <2>6 DEF TypeOK, Answered
    <2> QED
      BY <2>1, <2>3, <2>4, <2>5, <2>7 DEF TypeOK, Answered, Ttl, Pcs
  <1>6. ASSUME NEW r \in Reqs, FindANAME(r)
        PROVE  TypeOK'
    BY <1>6 DEF TypeOK, FindANAME, shared, history, Ttl
  <1>7. ASSUME NEW r \in Reqs, WriteTtl(r)
        PROVE  TypeOK'
    <2>1. 1 \in 1 .. Len(Servers) + 1
      BY SMT, ServersLength
    <2>2. n' \in [Reqs -> 1 .. Len(Servers) + 1] /\ tried' \in [Reqs -> SUBSET Listed]
      BY <1>7, <2>1 DEF TypeOK, WriteTtl, SetTtl
    <2> QED
      BY <1>7, <2>2 DEF TypeOK, WriteTtl, SetTtl, Ttl
  <1>8. ASSUME NEW r \in Reqs, A(r)
        PROVE  TypeOK'
    <2>1. key[r] \in Keys
      BY <1>8 DEF A, Held
    <2> QED
      BY <1>0, <1>8, <2>1 DEF TypeOK, A, getTtl, shared, history, Ttl
  <1>9. CASE Tick
    BY SMT, <1>0, <1>9 DEF TypeOK, Tick, local, history
  <1>10. CASE UNCHANGED vars
    BY <1>10 DEF TypeOK, vars, shared, local, history
  <1> QED
    BY <1>1, <1>2, <1>3, <1>4, <1>5, <1>6, <1>7, <1>8, <1>9, <1>10 DEF Next, Step, Exchange

\* The longest TTLs are numbers before and after a step.
LEMMA MostTypes ==
    ASSUME TypeOK, Places, Cached, Held, [Next]_vars
    PROVE  \A k \in Keys : most[k] \in Nat /\ most'[k] \in Nat
  <1>1. TypeOK'
    BY StepType
  <1>2. most \in [Keys -> Nat]
    BY DEF TypeOK, Ttl
  <1>3. most' \in [Keys -> Nat]
    BY <1>1 DEF TypeOK, Ttl
  <1> QED
    BY <1>2, <1>3

\* An exchange that gives nothing only ends or goes on.
LEMMA NothingFetched ==
    ASSUME NEW r \in Reqs, ExchangeFails(r) \/ ExchangeEmpty(r)
    PROVE  /\ pc[r] = "exchange"
           /\ Land(r, Nil, 0) \/ UNCHANGED <<flight, pc, got, limit>>
           /\ UNCHANGED <<clock, connections, cache, exp, rr, field,
                          key, ttl, reply, until, most, zero>>
  BY DEF ExchangeFails, ExchangeEmpty

\* What an answer comes with: it is cached for no longer than the TTL of its first
\* RR, or for DefaultTtl (CachedFor).
LEMMA AnswerTimes ==
    ASSUME NEW a \in Answers
    PROVE  /\ a.first \in Nat /\ a.least \in Nat /\ CachedFor(a.least) \in Nat
           /\ a.least <= a.first /\ Second * a.first \in Nat /\ Second * a.least \in Nat
           /\ IF a.least = 0 THEN CachedFor(a.least) = DefaultTtl ELSE CachedFor(a.least) = a.least
  <1>1. a \in [first: Nat, least: Nat] /\ a.least <= a.first /\ DefaultTtl \in Nat
    BY AnswersAssumption, BoundAssumption DEF Ttl
  <1> QED
    BY SMT, <1>1 DEF CachedFor, Second

\* An answer lands with its leader and the waiters, and the leader's name.
LEMMA Fetched ==
    ASSUME TypeOK, NEW r \in Reqs, ExchangeAnswer(r)
    PROVE  /\ pc[r] = "exchange" /\ UNCHANGED <<clock, field, key, n, ttl, reply, tried>>
           /\ \A q \in Aboard(r) : pc'[q] = "read" /\ got'[q] = r
           /\ \A q \in Reqs \ Aboard(r) :
                 pc'[q] = pc[q] /\ got'[q] = got[q] /\ limit'[q] = limit[q]
  <1>1. PICK a \in Answers : Answered(r, a, CachedFor(a.least), Overwritten(r))
    BY DEF ExchangeAnswer
  <1>2. Second * a.first \in Nat
    BY AnswerTimes
  <1>3. PICK time \in Nat : time = Second * a.first
    BY <1>2
  <1>4. /\ pc[r] = "exchange" /\ UNCHANGED <<clock, field, key, n, ttl, reply, tried>>
        /\ Land(r, r, time)
    BY <1>1, <1>3 DEF Answered
  <1> QED
    BY SMT, <1>4, LandEffect

\* What never goes back: a question once asked stays, a goroutine that has left
\* its flight does not enter one again, the longest TTL only grows, and an answer
\* that came with a TTL of 0 did.
LEMMA Monotone ==
    ASSUME TypeOK, [Next]_vars
    PROVE  /\ \A q \in Reqs : pc[q] # "idle" => key'[q] = key[q] /\ pc'[q] # "idle"
           /\ \A q \in Reqs : pc[q] \in Landed => pc'[q] \in Landed
           /\ \A k \in Keys : most[k] <= most'[k]
           /\ zero \subseteq zero'
  <1>1. ASSUME NEW r \in Reqs, NEW k \in Keys, Query(r, k)
        PROVE  /\ \A q \in Reqs : pc[q] # "idle" => key'[q] = key[q] /\ pc'[q] = pc[q]
               /\ most' = most /\ zero' = zero
    BY <1>1 DEF TypeOK, Query
  <1>2. ASSUME NEW r \in Reqs, Do(r)
        PROVE  /\ key' = key /\ most' = most /\ zero' = zero
               /\ \A q \in Reqs : pc'[q] = pc[q] \/ (pc[q] = "do" /\ pc'[q] # "idle")
    <2>1. /\ key' = key /\ most' = most /\ zero' = zero /\ pc[r] = "do" /\ pc \in [Reqs -> Pcs]
          /\ \/ pc' = [pc EXCEPT ![r] = "exchange"]
             \/ pc' = [pc EXCEPT ![r] = "wait"]
      BY <1>2 DEF TypeOK, Do, history, Pcs
    <2> QED
      BY <2>1
  <1>3. ASSUME NEW r \in Reqs, ExchangeFails(r) \/ ExchangeEmpty(r)
        PROVE  /\ key' = key /\ most' = most /\ zero' = zero
               /\ \A q \in Reqs : pc'[q] = pc[q] \/ pc'[q] = "read"
    BY <1>3, NothingFetched, LandEffect
  <1>4. ASSUME NEW r \in Reqs, ExchangeAnswer(r)
        PROVE  /\ key' = key /\ zero \subseteq zero' /\ \A k \in Keys : most[k] <= most'[k]
               /\ \A q \in Reqs : pc'[q] = pc[q] \/ pc'[q] = "read"
    <2>1. PICK a \in Answers : Answered(r, a, CachedFor(a.least), Overwritten(r))
      BY <1>4 DEF ExchangeAnswer
    <2>2. a.first \in Nat
      BY AnswerTimes
    <2>3. \A k \in Keys : most[k] <= most'[k]
      BY SMTT(30), <2>1, <2>2 DEF TypeOK, Answered, Ttl
    <2>4. zero \subseteq zero'
      BY <2>1 DEF Answered
    <2> QED
      BY <1>4, <2>3, <2>4, Fetched
  <1>5. ASSUME NEW r \in Reqs, FindANAME(r) \/ WriteTtl(r) \/ A(r)
        PROVE  /\ key' = key /\ most' = most /\ zero' = zero
               /\ \A q \in Reqs : pc'[q] = pc[q] \/ pc'[q] \in Landed
    BY <1>5 DEF TypeOK, FindANAME, WriteTtl, SetTtl, A, history, Landed
  <1>6. CASE Tick \/ UNCHANGED vars
    <2>1. key' = key /\ most' = most /\ zero' = zero /\ pc' = pc
      BY <1>6 DEF Tick, vars, local, history
    <2> QED
      BY SMT, <2>1 DEF TypeOK, Ttl
  <1>7. /\ \A k \in Keys : most[k] <= most[k]
        /\ "do" \notin Landed /\ "read" \in Landed /\ "idle" \notin Landed
    BY SMT DEF TypeOK, Ttl, Landed
  <1>8. ASSUME NEW r \in Reqs, Step(r) \/ \E k \in Keys : Query(r, k)
        PROVE  /\ \A q \in Reqs : pc[q] # "idle" => key'[q] = key[q] /\ pc'[q] # "idle"
               /\ \A q \in Reqs : pc[q] \in Landed => pc'[q] \in Landed
               /\ \A k \in Keys : most[k] <= most'[k]
               /\ zero \subseteq zero'
    BY <1>1, <1>2, <1>3, <1>4, <1>5, <1>7, <1>8 DEF Step, Exchange
  <1> QED
    BY <1>6, <1>7, <1>8 DEF Next

\* What Given becomes with a step.
GivenNext(k, t) == t <= most'[k] \/ (t <= DefaultTtl /\ \E z \in zero' : key'[z] = k)

\* A TTL once given stays so.
LEMMA GivenStays ==
    ASSUME TypeOK, Places, Cached, Held, [Next]_vars
    PROVE  \A k \in Keys, t \in Nat : Given(k, t) => GivenNext(k, t)
  <1> SUFFICES ASSUME NEW k \in Keys, NEW t \in Nat, Given(k, t)
               PROVE  GivenNext(k, t)
    OBVIOUS
  <1>1. CASE t <= most[k]
    <2>1. most[k] \in Nat /\ most'[k] \in Nat /\ most[k] <= most'[k]
      BY MostTypes, Monotone
    <2>2. t <= most'[k]
      BY SMT, <1>1, <2>1
    <2> QED
      BY <2>2 DEF GivenNext
  <1>2. CASE t <= DefaultTtl /\ \E z \in zero : key[z] = k
    <2>1. PICK z \in zero : key[z] = k
      BY <1>2
    <2>2. z \in Reqs /\ pc[z] \in Landed
      BY DEF TypeOK, Held
    <2>3. pc[z] # "idle"
      BY <2>2 DEF Landed
    <2>4. key'[z] = k /\ z \in zero'
      BY <2>1, <2>2, <2>3, Monotone
    <2> QED
      BY <1>2, <2>4 DEF GivenNext
  <1> QED
    BY <1>1, <1>2 DEF Given

\* Places: only a leader moves on, and only the first place is written.
LEMMA StepPlaces ==
    ASSUME TypeOK, Places, [Next]_vars
    PROVE  Places'
  <1>0. /\ Len(Servers) \in Nat /\ connections[1] \in Listed
        /\ 1 \notin 2 .. Len(Servers) /\ \A j \in 1 .. Len(Servers) : connections[j] \in Listed
    BY SMT, ServersLength, ElementOfSeq DEF TypeOK
  <1>1. ASSUME NEW r \in Reqs, ExchangeFails(r)
        PROVE  Places'
    <2>1. /\ connections' = connections /\ n[r] \in 1 .. Len(Servers)
          /\ n' = [n EXCEPT ![r] = n[r] + 1]
      BY SMT, <1>1, ServersLength DEF TypeOK, ExchangeFails
    <2>2. tried' = [tried EXCEPT ![r] = tried[r] \cup {c[r]}] /\ pc[r] = "exchange"
      BY <1>1 DEF ExchangeFails
    <2>3. ASSUME NEW q \in Reqs, NEW j \in 2 .. n'[q] - 1
          PROVE  Servers[j] \in tried'[q]
      <3>1. CASE q = r
        <4>1. tried'[q] = tried[q] \cup {c[q]} /\ n'[q] = n[q] + 1
          BY <2>1, <2>2, <3>1 DEF TypeOK
        <4>2. CASE j = n[q]
          <5>1. n[q] \in 2 .. Len(Servers)
            BY SMT, <2>1, <2>3, <3>1, <4>2, ServersLength
          <5> QED
            BY <2>2, <3>1, <4>1, <4>2, <5>1 DEF Places
        <4>3. CASE j # n[q]
          <5>1. j \in 2 .. n[q] - 1
            BY SMT, <2>1, <2>3, <3>1, <4>1, <4>3, ServersLength
          <5> QED
            BY <4>1, <5>1 DEF Places
        <4> QED
          BY <4>2, <4>3
      <3>2. CASE q # r
        BY <2>1, <2>2, <2>3, <3>2 DEF TypeOK, Places
      <3> QED
        BY <3>1, <3>2
    <2>4. ASSUME NEW q \in Reqs, pc'[q] = "exchange"
          PROVE  c'[q] \in Listed /\ (n'[q] \in 2 .. Len(Servers) => c'[q] = Servers[n'[q]])
      <3>1. CASE n[r] = Len(connections)
        <4>1. Land(r, Nil, 0)
          BY <1>1, <3>1 DEF ExchangeFails
        <4>2. q # r /\ pc[q] = "exchange" /\ c'[q] = c[q]
          BY <2>4, <4>1, LandEffect DEF Aboard
        <4> QED
          BY <2>1, <4>2 DEF TypeOK, Places
      <3>2. CASE n[r] # Len(connections)
        <4>1. pc' = pc /\ c' = [c EXCEPT ![r] = connections[n[r] + 1]]
          BY <1>1, <3>2 DEF ExchangeFails
        <4>2. CASE q = r
          <5>1. c'[q] = connections[n[q] + 1] /\ n'[q] = n[q] + 1
            BY <2>1, <4>1, <4>2 DEF TypeOK
          <5>2. n[q] + 1 \in 2 .. Len(Servers) /\ n[q] + 1 \in 1 .. Len(Servers)
            BY SMT, <2>1, <3>2, <4>2, ServersLength DEF TypeOK
          <5> QED
            BY <1>0, <5>1, <5>2 DEF Places
        <4>3. CASE q # r
          BY <2>1, <2>4, <4>1, <4>3 DEF TypeOK, Places
        <4> QED
          BY <4>2, <4>3
      <3> QED
        BY <3>1, <3>2
    <2>5. ASSUME NEW q \in Reqs, pc'[q] \in {"idle", "do"}
          PROVE  n'[q] = 1
      <3>1. pc'[q] = pc[q]
        BY <1>1, <2>5, NothingFetched, LandEffect
      <3> QED
        BY <2>1, <2>2, <2>5, <3>1 DEF TypeOK, Places
    <2> QED
      BY <2>1, <2>3, <2>4, <2>5 DEF Places
  <1>2. ASSUME NEW r \in Reqs, ExchangeAnswer(r)
        PROVE  Places'
    <2>1. /\ connections' = Overwritten(r) /\ n' = n /\ tried' = tried /\ c[r] \in Listed
      BY <1>2 DEF ExchangeAnswer, Answered, Places
    <2>2. \A j \in 2 .. Len(Servers) : connections'[j] = Servers[j]
      BY <2>1, OverwrittenPlaces DEF Places
    <2>3. ASSUME NEW q \in Reqs, pc'[q] # "read"
          PROVE  pc'[q] = pc[q] /\ c'[q] = c[q]
      <3>1. PICK a \in Answers : Answered(r, a, CachedFor(a.least), Overwritten(r))
        BY <1>2 DEF ExchangeAnswer
      <3>2. PICK time \in Nat : time = Second * a.first
        BY AnswerTimes
      <3>3. Land(r, r, time)
        BY <3>1, <3>2 DEF Answered
      <3> QED
        BY <2>3, <3>3, LandEffect DEF Aboard
    <2> QED
      BY <2>1, <2>2, <2>3 DEF Places
  <1>3. ASSUME NEW r \in Reqs, WriteTtl(r)
        PROVE  Places'
    <2>1. /\ connections' = connections /\ c' = c
          /\ n' = [n EXCEPT ![r] = 1] /\ tried' = [tried EXCEPT ![r] = {}]
      BY <1>3 DEF WriteTtl, SetTtl
    <2>2. ASSUME NEW q \in Reqs, NEW j \in 2 .. n'[q] - 1
          PROVE  Servers[j] \in tried'[q]
      BY SMT, <2>1, <2>2 DEF TypeOK, Places
    <2>3. ASSUME NEW q \in Reqs, pc'[q] # "build"
          PROVE  pc'[q] = pc[q] /\ n'[q] = n[q]
      BY <1>3, <2>3 DEF TypeOK, WriteTtl, SetTtl
    <2> QED
      BY <2>1, <2>2, <2>3 DEF Places
  <1>4. ASSUME NEW r \in Reqs, Do(r)
        PROVE  Places'
    <2>1. UNCHANGED <<connections, n, tried>> /\ pc[r] = "do"
      BY <1>4 DEF Do, history
    <2>2. CASE flight[key[r]] = Nil
      <3>1. /\ c'[r] = connections[1] /\ pc'[r] = "exchange"
            /\ \A q \in Reqs \ {r} : c'[q] = c[q] /\ pc'[q] = pc[q]
        BY <1>4, <2>2 DEF Do, TypeOK
      <3>2. n[r] = 1
        BY <2>1 DEF Places
      <3> QED
        BY <1>0, <2>1, <3>1, <3>2 DEF Places
    <2>3. CASE flight[key[r]] # Nil
      BY <1>4, <2>1, <2>3 DEF Do, TypeOK, Places
    <2> QED
      BY <2>2, <2>3
  <1>5. ASSUME NEW r \in Reqs,
               ExchangeEmpty(r) \/ FindANAME(r) \/ A(r) \/ \E k \in Keys : Query(r, k)
        PROVE  Places'
    <2>1. UNCHANGED <<connections, n, tried>>
      BY <1>5 DEF ExchangeEmpty, FindANAME, A, Query, shared, history
    <2>2. ASSUME NEW q \in Reqs
          PROVE  \/ pc'[q] = pc[q] /\ c'[q] = c[q]
                 \/ pc'[q] \in {"read", "write", "done"}
                 \/ pc[q] = "idle" /\ pc'[q] = "do"
      <3>1. CASE ExchangeEmpty(r)
        <4>1. Land(r, Nil, 0)
          BY <3>1 DEF ExchangeEmpty
        <4> QED
          BY <4>1, LandEffect DEF Aboard
      <3>2. CASE FindANAME(r) \/ A(r) \/ \E k \in Keys : Query(r, k)
        BY SMT, <3>2 DEF FindANAME, A, Query, TypeOK
      <3> QED
        BY <1>5, <3>1, <3>2
    <2>3. ASSUME NEW q \in Reqs, pc'[q] = "exchange"
          PROVE  pc[q] = "exchange" /\ c'[q] = c[q]
      BY <2>2, <2>3
    <2>4. ASSUME NEW q \in Reqs, pc'[q] \in {"idle", "do"}
          PROVE  pc[q] \in {"idle", "do"}
      BY <2>2, <2>4
    <2> QED
      BY <2>1, <2>3, <2>4 DEF Places
  <1>6. CASE Tick \/ UNCHANGED vars
    BY <1>6 DEF Places, Tick, vars, shared, local, history
  <1> QED
    BY <1>1, <1>2, <1>3, <1>4, <1>5, <1>6 DEF Next, Step, Exchange

\* Cached: the goroutine in the cache stays landed, and its time only runs down.
LEMMA StepCached ==
    ASSUME TypeOK, Places, Cached, Held, [Next]_vars
    PROVE  Cached'
  <1>0. Nil \notin Reqs /\ clock \in Nat /\ MaxClock \in Nat /\ DefaultTtl \in Nat
    BY SMT, NilAssumption, BoundAssumption DEF TypeOK
  <1>1. ASSUME NEW k \in Keys, cache[k] # Nil
        PROVE  /\ cache[k] \in Reqs /\ key'[cache[k]] = k /\ pc'[cache[k]] \in Landed
               /\ exp[k] \in Nat /\ most[k] \in Nat /\ most'[k] \in Nat
               /\ most[k] <= most'[k]
    <2>1. cache[k] \in Reqs /\ key[cache[k]] = k /\ pc[cache[k]] \in Landed /\ exp[k] \in Nat
      BY <1>1 DEF TypeOK, Cached
    <2>2. pc[cache[k]] # "idle"
      BY <2>1 DEF Landed
    <2> QED
      BY <2>1, <2>2, Monotone, MostTypes
  <1>2. ASSUME UNCHANGED <<cache, exp, until, zero>>, clock' \in Nat, clock <= clock'
        PROVE  Cached'
    <2> SUFFICES ASSUME NEW k \in Keys, cache[k] # Nil
                 PROVE  /\ key'[cache[k]] = k /\ pc'[cache[k]] \in Landed
                        /\ cache[k] \notin zero =>
                              exp[k] = until[k] /\ exp[k] <= clock' + Second * most'[k]
                        /\ cache[k] \in zero => exp[k] <= clock' + Second * DefaultTtl
      BY <1>2 DEF Cached
    <2>1. ASSUME exp[k] <= clock + Second * most[k]
          PROVE  exp[k] <= clock' + Second * most'[k]
      BY SMT, <1>0, <1>1, <1>2, <2>1 DEF Second
    <2>2. ASSUME exp[k] <= clock + Second * DefaultTtl
          PROVE  exp[k] <= clock' + Second * DefaultTtl
      BY SMT, <1>0, <1>1, <1>2, <2>2 DEF Second
    <2> QED
      BY <1>1, <2>1, <2>2 DEF Cached
  <1>3. ASSUME NEW r \in Reqs, ExchangeAnswer(r)
        PROVE  Cached'
    <2>1. PICK a \in Answers : Answered(r, a, CachedFor(a.least), Overwritten(r))
      BY <1>3 DEF ExchangeAnswer
    <2>2. /\ a.first \in Nat /\ a.least \in Nat /\ a.least <= a.first
          /\ a.least = 0 => CachedFor(a.least) = DefaultTtl
          /\ a.least # 0 => CachedFor(a.least) = a.least
      BY AnswerTimes
    <2>3. key[r] \in Keys /\ key' = key /\ clock' = clock /\ pc[r] = "exchange"
      BY <2>1 DEF Answered, Held
    <2>4. pc'[r] = "read"
      BY <1>3, Fetched DEF Aboard
    <2>5. /\ cache'[key[r]] = r
          /\ exp'[key[r]] = clock + Second * CachedFor(a.least)
          /\ until'[key[r]] = clock + Second * a.least
      BY <2>1, <2>3 DEF TypeOK, Answered
    <2>6. a.first <= most'[key[r]] /\ most'[key[r]] \in Nat
      BY SMTT(30), <2>1, <2>2, <2>3 DEF TypeOK, Answered, Ttl
    <2>7. \A k \in Keys \ {key[r]} : /\ cache'[k] = cache[k] /\ exp'[k] = exp[k]
                                    /\ until'[k] = until[k] /\ most'[k] = most[k]
      BY <2>1, <2>3 DEF TypeOK, Answered
    <2>8. /\ r \notin zero /\ \A q \in Reqs \ {r} : q \in zero' <=> q \in zero
          /\ r \in zero' <=> a.least = 0
      <3>1. r \notin zero
        BY <2>3 DEF Held, Landed
      <3> QED
        BY <2>1, <3>1 DEF Answered
    <2>9. ASSUME NEW k \in Keys, cache'[k] # Nil
          PROVE  /\ key'[cache'[k]] = k /\ pc'[cache'[k]] \in Landed
                 /\ cache'[k] \notin zero' =>
                       exp'[k] = until'[k] /\ exp'[k] <= clock' + Second * most'[k]
                 /\ cache'[k] \in zero' => exp'[k] <= clock' + Second * DefaultTtl
      <3>1. CASE k = key[r]
        <4>1. CASE a.least = 0
          <5>1. r \in zero' /\ exp'[k] = clock + Second * DefaultTtl
            BY <2>2, <2>5, <2>8, <3>1, <4>1
          <5>2. exp'[k] <= clock + Second * DefaultTtl
            BY SMT, <1>0, <5>1 DEF Second
          <5> QED
            BY <2>3, <2>4, <2>5, <3>1, <5>1, <5>2 DEF Landed
        <4>2. CASE a.least # 0
          <5>1. r \notin zero' /\ exp'[k] = until'[k] /\ exp'[k] = clock + Second * a.least
            BY <2>2, <2>5, <2>8, <3>1, <4>2
          <5>2. exp'[k] <= clock + Second * most'[k]
            BY SMT, <1>0, <2>2, <2>6, <3>1, <5>1 DEF Second
          <5> QED
            BY <2>3, <2>4, <2>5, <3>1, <5>1, <5>2 DEF Landed
        <4> QED
          BY <4>1, <4>2
      <3>2. CASE k # key[r]
        <4>1. /\ cache'[k] = cache[k] /\ exp'[k] = exp[k] /\ until'[k] = until[k]
              /\ most'[k] = most[k] /\ clock' = clock
          BY <2>3, <2>7, <3>2
        <4>2. cache[k] \in Reqs /\ cache[k] # r
          <5>1. pc[cache[k]] \in Landed
            BY <2>9, <4>1 DEF Cached
          <5> QED
            BY <1>1, <2>3, <2>9, <4>1, <5>1 DEF Landed
        <4> QED
          BY <1>1, <2>8, <2>9, <4>1, <4>2 DEF Cached
      <3> QED
        BY <3>1, <3>2
    <2> QED
      BY <2>9 DEF Cached
  <1>4. ASSUME NEW r \in Reqs,
               \/ Do(r) \/ ExchangeFails(r) \/ ExchangeEmpty(r)
               \/ FindANAME(r) \/ WriteTtl(r) \/ A(r) \/ \E k \in Keys : Query(r, k)
        PROVE  UNCHANGED <<cache, exp, until, zero, clock>>
    BY <1>4 DEF Do, ExchangeFails, ExchangeEmpty, FindANAME, WriteTtl, SetTtl, A, Query,
                shared, history
  <1>5. CASE Tick
    BY SMT, <1>0, <1>2, <1>5 DEF Tick, history
  <1>6. CASE UNCHANGED vars
    BY SMT, <1>0, <1>2, <1>6 DEF vars, shared, history
  <1>7. clock <= clock
    BY SMT, <1>0
  <1> QED
    BY <1>0, <1>2, <1>3, <1>4, <1>5, <1>6, <1>7 DEF Next, Step, Exchange

\* Held: a goroutine gets what a landed one has fetched for the same question.
LEMMA StepHeld ==
    ASSUME TypeOK, Cached, Held, [Next]_vars
    PROVE  Held'
  <1>0. Nil \notin Reqs
    BY NilAssumption
  <1>1. \A q \in Reqs : /\ pc[q] # "idle" => key'[q] = key[q]
                        /\ pc[q] \in Landed => pc'[q] \in Landed
    BY Monotone
  <1>2. \A q \in Reqs : pc[q] \in Landed => key[q] \in Keys /\ key'[q] = key[q]
    <2>1. ASSUME NEW q \in Reqs, pc[q] \in Landed
          PROVE  pc[q] # "idle"
      BY <2>1 DEF Landed
    <2>2. \A q \in Reqs : pc[q] # "idle" => key[q] \in Keys
      BY DEF Held
    <2> QED
      BY <1>1, <2>1, <2>2
  \* What a goroutine holds stays landed and keeps its question.
  <1>3. \A q \in Reqs : got[q] # Nil =>
            /\ pc[q] \in {"read", "write"} /\ got[q] \in Reqs
            /\ pc'[got[q]] \in Landed /\ key'[got[q]] = key[q] /\ key'[q] = key[q]
    <2> SUFFICES ASSUME NEW q \in Reqs, got[q] # Nil
                 PROVE  /\ pc[q] \in {"read", "write"} /\ got[q] \in Reqs
                        /\ pc'[got[q]] \in Landed /\ key'[got[q]] = key[q] /\ key'[q] = key[q]
      OBVIOUS
    <2>1. /\ pc[q] \in {"read", "write"} /\ got[q] \in Reqs
          /\ pc[got[q]] \in Landed /\ key[got[q]] = key[q]
      BY DEF TypeOK, Held
    <2>2. pc[q] # "idle"
      BY <2>1
    <2> QED
      BY <1>1, <1>2, <2>1, <2>2
  <1>4. \A q \in Reqs : pc'[q] # "idle" => key'[q] \in Keys
    <2>1. ASSUME NEW r \in Reqs, NEW k \in Keys, Query(r, k)
          PROVE  \A q \in Reqs : q # r => pc'[q] = pc[q] /\ key'[q] = key[q]
      BY <2>1 DEF TypeOK, Query
    <2>2. ASSUME NEW r \in Reqs, NEW k \in Keys, Query(r, k)
          PROVE  key'[r] = k
      BY <2>2 DEF TypeOK, Query
    <2>3. ASSUME NEW r \in Reqs, Step(r)
          PROVE  \A q \in Reqs : pc[q] = "idle" => pc'[q] = "idle"
      <3>1. CASE Do(r)
        BY <3>1 DEF TypeOK, Do
      <3>2. CASE ExchangeFails(r) \/ ExchangeEmpty(r)
        <4>1. pc[r] = "exchange" /\ (Land(r, Nil, 0) \/ pc' = pc)
          BY <3>2, NothingFetched
        <4> QED
          BY <4>1, LandEffect DEF Aboard
      <3>3. CASE ExchangeAnswer(r)
        BY <3>3, Fetched DEF Aboard
      <3>4. CASE FindANAME(r) \/ WriteTtl(r) \/ A(r)
        BY <3>4 DEF TypeOK, FindANAME, WriteTtl, SetTtl, A
      <3> QED
        BY <2>3, <3>1, <3>2, <3>3, <3>4 DEF Step, Exchange
    <2>4. CASE Tick \/ UNCHANGED vars
      BY <1>1, <2>4 DEF Held, Tick, vars, local
    <2>5. \A q \in Reqs : pc[q] # "idle" => key'[q] \in Keys
      BY <1>1 DEF Held
    <2> QED
      BY <2>1, <2>2, <2>3, <2>4, <2>5 DEF Next
  <1>5. ASSUME NEW q \in Reqs, got'[q] # Nil
        PROVE  /\ pc'[q] \in {"read", "write"}
               /\ pc'[got'[q]] \in Landed /\ key'[got'[q]] = key'[q]
    <2>1. CASE got'[q] = got[q] /\ pc'[q] = pc[q]
      BY <1>3, <1>5, <2>1
    <2>2. ASSUME NEW k \in Keys, Query(q, k), got'[q] = cache[k], pc'[q] = "read"
          PROVE  pc'[got'[q]] \in Landed /\ key'[got'[q]] = key'[q]
      <3>1. cache[k] \in Reqs /\ key[cache[k]] = k /\ pc[cache[k]] \in Landed
        BY SMT, <1>5, <2>2 DEF TypeOK, Cached
      <3>2. key'[q] = k
        BY <2>2 DEF TypeOK, Query
      <3> QED
        BY <1>1, <1>2, <2>2, <3>1, <3>2
    <2>3. ASSUME NEW r \in Reqs, NEW k \in Keys, Query(r, k)
          PROVE  \/ got'[q] = got[q] /\ pc'[q] = pc[q]
                 \/ q = r /\ got'[q] = cache[k] /\ pc'[q] = "read"
      <3>1. CASE q = r
        <4>1. got[q] = Nil
          BY <1>3, <2>3, <3>1 DEF Query
        <4>2. \/ got' = got
              \/ got' = [got EXCEPT ![r] = cache[k]] /\ pc' = [pc EXCEPT ![r] = "read"]
          BY <2>3 DEF Query
        <4> QED
          BY <1>5, <3>1, <4>1, <4>2 DEF TypeOK
      <3>2. CASE q # r
        <4>1. got' = got \/ \E x : got' = [got EXCEPT ![r] = x]
          BY <2>3 DEF Query
        <4>2. \E x : pc' = [pc EXCEPT ![r] = x]
          BY <2>3 DEF Query
        <4> QED
          BY <3>2, <4>1, <4>2 DEF TypeOK
      <3> QED
        BY <3>1, <3>2
    <2>4. ASSUME NEW r \in Reqs, Do(r)
          PROVE  got'[q] = got[q] /\ pc'[q] = pc[q]
      <3>1. got' = got /\ pc[r] = "do"
        BY <2>4 DEF Do
      <3>2. q # r
        BY <1>3, <1>5, <3>1
      <3> QED
        BY <2>4, <3>1, <3>2 DEF TypeOK, Do
    <2>5. ASSUME NEW r \in Reqs, ExchangeFails(r) \/ ExchangeEmpty(r)
          PROVE  got'[q] = got[q] /\ pc'[q] = pc[q]
      BY SMT, <1>5, <2>5, NothingFetched, LandEffect
    <2>6. ASSUME NEW r \in Reqs, ExchangeAnswer(r)
          PROVE  \/ got'[q] = got[q] /\ pc'[q] = pc[q]
                 \/ /\ pc'[q] = "read" /\ pc'[got'[q]] \in Landed
                    /\ key'[got'[q]] = key'[q]
      <3>3. CASE q \in Aboard(r)
        <4>1. pc'[q] = "read" /\ got'[q] = r /\ pc'[r] = "read" /\ key[q] = key[r]
          BY SMT, <2>6, <3>3, Fetched DEF Aboard
        <4>2. key' = key
          BY <2>6, Fetched
        <4> QED
          BY <4>1, <4>2 DEF Landed
      <3>4. CASE q \notin Aboard(r)
        BY <2>6, <3>4, Fetched
      <3> QED
        BY <3>3, <3>4
    <2>7. ASSUME NEW r \in Reqs, FindANAME(r)
          PROVE  got'[q] = got[q] /\ pc'[q] \in {pc[q], "write"}
      BY <2>7 DEF TypeOK, FindANAME
    <2>8. ASSUME NEW r \in Reqs, WriteTtl(r)
          PROVE  got'[q] = got[q] /\ pc'[q] = pc[q]
      BY <1>5, <2>8 DEF TypeOK, WriteTtl, SetTtl
    <2>9. ASSUME NEW r \in Reqs, A(r)
          PROVE  got'[q] = got[q] /\ pc'[q] = pc[q]
      <3>1. got' = got /\ pc[r] = "build"
        BY <2>9 DEF A
      <3>2. q # r
        BY <1>3, <1>5, <3>1
      <3> QED
        BY <2>9, <3>1, <3>2 DEF TypeOK, A
    <2>10. CASE Tick \/ UNCHANGED vars
      BY <2>1, <2>10 DEF Tick, vars, local
    <2>11. CASE got'[q] = got[q] /\ pc'[q] \in {pc[q], "write"}
      BY <1>3, <1>5, <2>11
    <2> QED
      BY <2>2, <2>3, <2>4, <2>5, <2>6, <2>7, <2>8, <2>9, <2>10, <2>11 DEF Next, Step, Exchange
  <1>6. ASSUME NEW q \in Reqs, q \in zero'
        PROVE  pc'[q] \in Landed
    <2>1. CASE q \in zero
      BY <1>1, <2>1 DEF Held
    <2>2. ASSUME NEW r \in Reqs, ExchangeAnswer(r), q \notin zero
          PROVE  pc'[q] \in Landed
      <3>1. q = r
        BY <1>6, <2>2 DEF ExchangeAnswer, Answered
      <3> QED
        BY <2>2, <3>1, Fetched DEF Aboard, Landed
    <2>3. ASSUME NEW r \in Reqs,
                 \/ Do(r) \/ ExchangeFails(r) \/ ExchangeEmpty(r)
                 \/ FindANAME(r) \/ WriteTtl(r) \/ A(r) \/ \E k \in Keys : Query(r, k)
          PROVE  zero' = zero
      BY <2>3 DEF Do, ExchangeFails, ExchangeEmpty, FindANAME, WriteTtl, SetTtl, A, Query, history
    <2>4. CASE Tick \/ UNCHANGED vars
      BY <1>6, <2>1, <2>4 DEF Tick, vars, history
    <2> QED
      BY <1>6, <2>1, <2>2, <2>3, <2>4 DEF Next, Step, Exchange
  <1> QED
    BY <1>4, <1>5, <1>6 DEF Held

\* What Within becomes with a step.
WithinNext(r, t) == Second * t <= limit'[r] \/ (got'[r] \in zero' /\ t <= DefaultTtl)

\* Limits, for the goroutines an action leaves alone: the TTL of what they hold may
\* only have been written by a hit, which knows what is left.
LEMMA StepLimits ==
    ASSUME TypeOK, Cached, Held, Limits, [Next]_vars
    PROVE  Limits'
  <1>0. Nil \notin Reqs /\ clock \in Nat /\ DefaultTtl \in Nat
    BY SMT, NilAssumption, BoundAssumption DEF TypeOK
  <1>1. ASSUME NEW q \in Reqs
        PROVE  limit[q] \in Nat /\ (got[q] # Nil => got[q] \in Reqs /\ rr[got[q]] \in Nat)
    BY DEF TypeOK, Ttl
  <1>2. ASSUME NEW r \in Reqs, NEW k \in Keys, Query(r, k), NEW q \in Reqs
        PROVE  /\ got'[q] # Nil => \A j \in Keys : got'[q] = cache'[j] => until'[j] <= clock' + limit'[q]
               /\ pc'[q] = "read" /\ got'[q] # Nil => WithinNext(q, rr'[got'[q]])
               /\ pc'[q] = "write" => WithinNext(q, ttl'[q])
    <2>1. UNCHANGED <<cache, until, clock, ttl, zero>>
      BY <1>2 DEF Query
    <2>2. CASE cache[k] # Nil /\ clock <= exp[k]
      <3> DEFINE time == IF clock < until[k] THEN until[k] - clock ELSE 0
      <3>1. /\ cache[k] \in Reqs /\ exp[k] \in Nat /\ until[k] \in Nat /\ key[cache[k]] = k
            /\ cache[k] \notin zero => exp[k] = until[k]
            /\ cache[k] \in zero => exp[k] <= clock + Second * DefaultTtl
        BY <2>2 DEF TypeOK, Cached
      <3>2. exp[k] - clock \in Nat /\ time \in Nat /\ until[k] <= clock + time
        BY SMT, <1>0, <2>2, <3>1
      <3>3. Remaining(k) \in Nat /\ Second * Remaining(k) <= exp[k] - clock
        BY <3>2, HalfOf DEF Remaining
      \* A hit on an answer with a TTL of 0 has at most the default left.
      <3>4. cache[k] \in zero => Remaining(k) <= DefaultTtl
        BY SMT, <1>0, <3>1, <3>2, <3>3 DEF Second
      <3>5. /\ rr'[cache[k]] = Remaining(k)
            /\ \A x \in Reqs \ {cache[k]} : rr'[x] = rr[x]
        BY SMT, <1>2, <2>2, <3>1 DEF TypeOK, Query
      <3>6. CASE q = r
        <4>1. got'[q] = cache[k] /\ pc'[q] = "read" /\ limit'[q] = time
          BY <1>2, <2>2, <3>6 DEF TypeOK, Query
        <4>2. \A j \in Keys : cache[j] = cache[k] => j = k
          BY <2>2, <3>1 DEF Cached
        <4>3. cache[k] \notin zero => Second * Remaining(k) <= time
          BY SMT, <1>0, <3>1, <3>2, <3>3 DEF Second
        <4> HIDE DEF time
        <4>4. WithinNext(q, rr'[got'[q]])
          BY <2>1, <3>4, <3>5, <4>1, <4>3 DEF WithinNext
        <4> QED
          BY <2>1, <3>2, <4>1, <4>2, <4>4
      <3>7. CASE q # r
        <4>1. got'[q] = got[q] /\ pc'[q] = pc[q] /\ limit'[q] = limit[q]
          BY <1>2, <2>2, <3>7 DEF TypeOK, Query
        <4>2. ASSUME got[q] = cache[k]
              PROVE  WithinNext(q, rr'[got[q]])
          <5>1. until[k] <= clock + limit[q]
            BY <2>2, <4>2 DEF Limits
          <5>2. cache[k] \notin zero => Second * Remaining(k) <= limit[q]
            BY SMT, <1>0, <1>1, <3>1, <3>2, <3>3, <5>1 DEF Second
          <5> QED
            BY <2>1, <3>4, <3>5, <4>1, <4>2, <5>2 DEF WithinNext
        <4>3. pc[q] = "read" /\ got[q] # Nil => WithinNext(q, rr'[got[q]])
          BY <1>1, <2>1, <3>5, <4>1, <4>2 DEF Limits, Within, WithinNext
        <4>4. pc[q] = "write" => WithinNext(q, ttl[q])
          BY <2>1, <4>1 DEF Limits, Within, WithinNext
        <4> QED
          BY <2>1, <4>1, <4>3, <4>4 DEF Limits
      <3> QED
        BY <3>6, <3>7
    <2>3. CASE ~(cache[k] # Nil /\ clock <= exp[k])
      <3>1. UNCHANGED <<rr, got, limit>> /\ pc'[q] \in {pc[q], "do"}
        BY <1>2, <2>3 DEF TypeOK, Query
      <3> QED
        BY <2>1, <3>1 DEF Limits, Within, WithinNext
    <2> QED
      BY <2>2, <2>3
  <1>3. ASSUME NEW r \in Reqs, ExchangeFails(r) \/ ExchangeEmpty(r)
        PROVE  Limits'
    <2>1. /\ UNCHANGED <<clock, cache, rr, ttl, until, zero>> /\ pc[r] = "exchange"
          /\ Land(r, Nil, 0) \/ UNCHANGED <<pc, got, limit>>
      BY <1>3, NothingFetched
    <2>2. CASE UNCHANGED <<pc, got, limit>>
      BY <2>1, <2>2 DEF Limits, Within
    <2>3. CASE Land(r, Nil, 0)
      <3>1. /\ \A q \in Aboard(r) : pc'[q] = "read" /\ got'[q] = Nil
            /\ \A q \in Reqs \ Aboard(r) :
                  pc'[q] = pc[q] /\ got'[q] = got[q] /\ limit'[q] = limit[q]
        BY SMT, <2>3, LandEffect
      <3> QED
        BY <2>1, <3>1 DEF Limits, Within
    <2> QED
      BY <2>1, <2>2, <2>3
  <1>4. ASSUME NEW r \in Reqs, ExchangeAnswer(r), NEW q \in Reqs
        PROVE  /\ got'[q] # Nil => \A j \in Keys : got'[q] = cache'[j] => until'[j] <= clock' + limit'[q]
               /\ pc'[q] = "read" /\ got'[q] # Nil => WithinNext(q, rr'[got'[q]])
               /\ pc'[q] = "write" => WithinNext(q, ttl'[q])
    <2>1. PICK a \in Answers : Answered(r, a, CachedFor(a.least), Overwritten(r))
      BY <1>4 DEF ExchangeAnswer
    <2>2. /\ a.first \in Nat /\ a.least \in Nat /\ a.least <= a.first
          /\ Second * a.first \in Nat
      BY AnswerTimes
    <2>3. /\ pc[r] = "exchange" /\ key[r] \in Keys /\ UNCHANGED <<clock, ttl>>
          /\ Land(r, r, Second * a.first) /\ zero \subseteq zero'
      BY <2>1 DEF Answered, Held
    <2>4. /\ rr'[r] = a.first /\ \A x \in Reqs \ {r} : rr'[x] = rr[x]
          /\ cache'[key[r]] = r /\ until'[key[r]] = clock + Second * a.least
          /\ \A j \in Keys \ {key[r]} : cache'[j] = cache[j] /\ until'[j] = until[j]
      BY <2>1, <2>3 DEF TypeOK, Answered
    \* Nobody had the goroutine's answer before.
    <2>5. /\ \A x \in Reqs : got[x] # r
          /\ \A j \in Keys : cache[j] # r
      <3>1. pc[r] \notin Landed
        BY <2>3 DEF Landed
      <3>2. \A x \in Reqs : got[x] # Nil => pc[got[x]] \in Landed
        BY DEF Held
      <3>3. \A j \in Keys : cache[j] # Nil => pc[cache[j]] \in Landed
        BY DEF Cached
      <3> QED
        BY <1>0, <3>1, <3>2, <3>3
    <2>6. CASE q \in Aboard(r)
      <3>1. pc'[q] = "read" /\ got'[q] = r /\ limit'[q] = Second * a.first
        <4>1. PICK time \in Nat : time = Second * a.first
          BY <2>2
        <4>2. Land(r, r, time)
          BY <2>3, <4>1
        <4>3. pc'[q] = "read" /\ got'[q] = r /\ limit'[q] = time
          BY SMT, <2>6, <4>2, LandEffect
        <4> QED
          BY <4>1, <4>3
      <3>2. Second * a.first <= Second * a.first
        BY SMT, <2>2
      <3>3. clock + Second * a.least <= clock + Second * a.first
        BY SMT, <1>0, <2>2 DEF Second
      <3>4. \A j \in Keys : got'[q] = cache'[j] => until'[j] <= clock' + limit'[q]
        <4> SUFFICES ASSUME NEW j \in Keys, cache'[j] = r
                     PROVE  until'[j] <= clock + Second * a.first
          BY <2>3, <3>1
        <4>1. j = key[r]
          BY <2>4, <2>5
        <4> QED
          BY <2>4, <3>3, <4>1
      <3>5. WithinNext(q, rr'[got'[q]])
        BY <2>4, <3>1, <3>2 DEF WithinNext
      <3> QED
        BY <3>1, <3>4, <3>5
    <2>7. CASE q \notin Aboard(r)
      <3>1. pc'[q] = pc[q] /\ got'[q] = got[q] /\ limit'[q] = limit[q]
        BY <1>4, <2>7, Fetched
      <3>2. got[q] # r
        BY <2>5
      <3>3. got[q] # Nil => rr'[got[q]] = rr[got[q]]
        BY <1>1, <2>4, <3>2
      <3>4. \A j \in Keys : got[q] = cache'[j] => got[q] = cache[j] /\ until'[j] = until[j]
        BY <2>4, <3>2
      <3>5. \A x : Within(q, x) => WithinNext(q, x)
        BY <2>3, <3>1 DEF Within, WithinNext
      <3> QED
        BY <2>3, <3>1, <3>3, <3>4, <3>5 DEF Limits
    <2> QED
      BY <2>6, <2>7
  <1>5. ASSUME NEW r \in Reqs, FindANAME(r)
        PROVE  Limits'
    <2>1. UNCHANGED <<clock, cache, rr, until, got, limit, zero>>
      BY <1>5 DEF FindANAME, shared, history
    <2>2. ASSUME NEW q \in Reqs
          PROVE  \/ pc'[q] = pc[q] /\ ttl'[q] = ttl[q]
                 \/ /\ pc[q] = "read" /\ pc'[q] = "write"
                    /\ ttl'[q] = IF got[q] = Nil THEN 0 ELSE rr[got[q]]
      BY <1>5 DEF TypeOK, FindANAME
    <2>3. ASSUME NEW q \in Reqs, pc[q] = "read", pc'[q] = "write",
                 ttl'[q] = IF got[q] = Nil THEN 0 ELSE rr[got[q]]
          PROVE  Within(q, ttl'[q])
      <3>1. CASE got[q] = Nil
        <4>1. Second * 0 <= limit[q]
          BY SMT, <1>1 DEF Second
        <4> QED
          BY <2>3, <3>1, <4>1 DEF Within
      <3>2. CASE got[q] # Nil
        BY <2>3, <3>2 DEF Limits
      <3> QED
        BY <3>1, <3>2
    <2>4. ASSUME NEW q \in Reqs
          PROVE  /\ pc'[q] = "read" => pc[q] = "read"
                 /\ pc'[q] = "write" => Within(q, ttl'[q])
      BY <2>2, <2>3 DEF Limits
    <2> QED
      BY <2>1, <2>4 DEF Limits, Within
  <1>6. ASSUME NEW r \in Reqs, WriteTtl(r)
        PROVE  Limits'
    <2>1. UNCHANGED <<clock, cache, rr, until, ttl, zero>>
      BY <1>6 DEF WriteTtl, SetTtl
    <2>2. ASSUME NEW q \in Reqs
          PROVE  \/ pc'[q] = pc[q] /\ got'[q] = got[q] /\ limit'[q] = limit[q]
                 \/ pc'[q] = "build" /\ got'[q] = Nil
      BY <1>6 DEF TypeOK, WriteTtl, SetTtl
    <2> QED
      BY <2>1, <2>2 DEF Limits, Within
  <1>7. ASSUME NEW r \in Reqs, Do(r) \/ A(r)
        PROVE  Limits'
    <2>1. UNCHANGED <<clock, cache, rr, until, ttl, got, limit, zero>>
      BY <1>7 DEF Do, A, shared, history
    <2>2. ASSUME NEW q \in Reqs
          PROVE  pc'[q] \in {pc[q], "exchange", "wait", "done"}
      BY <1>7 DEF TypeOK, Do, A
    <2> QED
      BY <2>1, <2>2 DEF Limits, Within
  <1>8. CASE Tick
    <2>1. UNCHANGED <<cache, rr, until, ttl, got, limit, pc, zero>> /\ clock' = clock + 1
      BY <1>8 DEF Tick, local, history
    <2>2. ASSUME NEW q \in Reqs, NEW j \in Keys, until[j] <= clock + limit[q]
          PROVE  until[j] <= clock' + limit[q]
      <3>1. until[j] \in Nat
        BY DEF TypeOK
      <3> QED
        BY SMT, <1>0, <1>1, <2>1, <2>2, <3>1
    <2> QED
      BY <2>1, <2>2 DEF Limits, Within
  <1>9. CASE UNCHANGED vars
    BY <1>9 DEF Limits, Within, vars, shared, local, history
  <1>10. ASSUME NEW r \in Reqs, ExchangeAnswer(r)
         PROVE  Limits'
    BY <1>4, <1>10 DEF Limits, Within, WithinNext
  <1>11. ASSUME NEW r \in Reqs, NEW k \in Keys, Query(r, k)
         PROVE  Limits'
    BY <1>2, <1>11 DEF Limits, Within, WithinNext
  <1> QED
    BY <1>3, <1>5, <1>6, <1>7, <1>8, <1>9, <1>10, <1>11 DEF Next, Step, Exchange

\* Once 0 was written for a question, it was written (HandleRequest).
LEMMA ZeroedStays ==
    ASSUME TypeOK, [Next]_vars, NEW k \in Keys, Zeroed(k)
    PROVE  Zeroed(k)'
  <1>1. PICK q \in Reqs : key[q] = k /\ pc[q] \in {"build", "done"} /\ ttl[q] = 0
    BY DEF Zeroed
  <1>2. key'[q] = k
    BY <1>1, Monotone
  <1>3. pc'[q] \in {"build", "done"} /\ ttl'[q] = ttl[q]
    <2>1. ASSUME NEW r \in Reqs, ExchangeFails(r) \/ ExchangeEmpty(r)
          PROVE  pc'[q] = pc[q] /\ ttl' = ttl
      <3>1. /\ ttl' = ttl /\ pc[r] = "exchange"
            /\ Land(r, Nil, 0) \/ UNCHANGED <<pc, got, limit>>
        BY <2>1, NothingFetched
      <3>2. q \notin Aboard(r)
        BY <1>1, <3>1 DEF Aboard
      <3> QED
        BY <3>1, <3>2, LandEffect
    <2>2. ASSUME NEW r \in Reqs, ExchangeAnswer(r)
          PROVE  pc'[q] = pc[q] /\ ttl' = ttl
      <3>1. q \notin Aboard(r)
        BY <1>1, <2>2, Fetched DEF Aboard
      <3> QED
        BY <2>2, <3>1, Fetched
    <2>3. ASSUME NEW r \in Reqs,
                 \/ Do(r) \/ FindANAME(r) \/ WriteTtl(r) \/ \E j \in Keys : Query(r, j)
          PROVE  pc'[q] = pc[q] /\ ttl'[q] = ttl[q]
      BY SMTT(30), <1>1, <2>3 DEF TypeOK, Do, FindANAME, WriteTtl, SetTtl, Query
    <2>4. ASSUME NEW r \in Reqs, A(r)
          PROVE  pc'[q] \in {pc[q], "done"} /\ ttl' = ttl
      BY <2>4 DEF TypeOK, A
    <2>5. CASE Tick \/ UNCHANGED vars
      BY <1>1, <2>5 DEF Tick, vars, local
    <2> QED
      BY <1>1, <2>1, <2>2, <2>3, <2>4, <2>5 DEF Next, Step, Exchange
  <1> QED
    BY <1>1, <1>2, <1>3 DEF Zeroed

\* Mosts, in its four parts; a goroutine's part only moves with its pc.
LEMMA StepMosts ==
    ASSUME TypeOK, Places, Cached, Held, Mosts, [Next]_vars
    PROVE  Mosts'
  <1>0. Nil \notin Reqs /\ clock \in Nat /\ DefaultTtl \in Nat
    BY SMT, NilAssumption, BoundAssumption DEF TypeOK
  <1>1. ASSUME NEW q \in Reqs
        PROVE  /\ rr[q] \in Nat /\ ttl[q] \in Nat
               /\ pc[q] # "idle" => /\ key[q] \in Keys /\ key'[q] = key[q] /\ pc'[q] # "idle"
                                    /\ most[key[q]] \in Nat /\ most'[key[q]] \in Nat
                                    /\ field[key[q]] \in Nat
    <2>1. rr[q] \in Nat /\ ttl[q] \in Nat /\ \A k \in Keys : field[k] \in Nat
      BY DEF TypeOK, Ttl
    <2>2. pc[q] # "idle" => key[q] \in Keys
      BY DEF Held
    <2> QED
      BY <2>1, <2>2, MostTypes, Monotone
  \* The TTL in a goroutine's own answer.
  <1>2. ASSUME NEW q \in Reqs
        PROVE  /\ pc'[q] \notin Landed => rr'[q] = 0
               /\ pc'[q] \in Landed => GivenNext(key'[q], rr'[q])
    <2>1. CASE rr'[q] = rr[q]
      <3>1. CASE pc[q] \in Landed
        <4>1. pc'[q] \in Landed /\ pc[q] # "idle"
          BY <3>1, Monotone DEF Landed
        <4> QED
          BY <1>1, <2>1, <3>1, <4>1, GivenStays DEF Mosts
      <3>2. CASE pc[q] \notin Landed
        <4>1. rr'[q] = 0
          BY <2>1, <3>2 DEF Mosts
        <4>2. pc'[q] \in Landed => most'[key'[q]] \in Nat
          <5>1. pc'[q] # "idle" => key'[q] \in Keys
            BY StepHeld DEF Held
          <5>2. \A k \in Keys : most'[k] \in Nat
            BY MostTypes
          <5> QED
            BY <5>1, <5>2 DEF Landed
        <4>3. pc'[q] \in Landed => rr'[q] <= most'[key'[q]]
          BY SMT, <4>1, <4>2
        <4> QED
          BY <4>1, <4>3 DEF GivenNext
      <3> QED
        BY <3>1, <3>2
    <2>2. ASSUME NEW r \in Reqs, NEW k \in Keys, Query(r, k), rr'[q] # rr[q]
          PROVE  pc'[q] \in Landed /\ GivenNext(key'[q], rr'[q])
      <3>1. cache[k] # Nil /\ clock <= exp[k] /\ q = cache[k] /\ rr'[q] = Remaining(k)
        BY <2>2 DEF TypeOK, Query
      <3>2. /\ key[q] = k /\ pc[q] \in Landed /\ exp[k] \in Nat /\ most[k] \in Nat
            /\ q \notin zero => exp[k] <= clock + Second * most[k]
            /\ q \in zero => exp[k] <= clock + Second * DefaultTtl
        BY <3>1 DEF TypeOK, Cached, Ttl
      <3>3. exp[k] - clock \in Nat
        BY SMT, <1>0, <3>1, <3>2
      <3>4. Remaining(k) \in Nat /\ Second * Remaining(k) <= exp[k] - clock
        BY <3>3, HalfOf DEF Remaining
      <3>5. /\ q \notin zero => Remaining(k) <= most[k]
            /\ q \in zero => Remaining(k) <= DefaultTtl
        BY SMT, <1>0, <3>2, <3>3, <3>4 DEF Second
      <3>6. pc[q] # "idle" /\ pc'[q] \in Landed
        BY <3>2, Monotone DEF Landed
      <3>7. Given(k, Remaining(k))
        BY <3>2, <3>5 DEF Given
      <3>8. key'[q] = k
        BY <1>1, <3>2, <3>6
      <3> QED
        BY <3>1, <3>4, <3>6, <3>7, <3>8, GivenStays
    <2>3. ASSUME NEW r \in Reqs, ExchangeAnswer(r), rr'[q] # rr[q]
          PROVE  pc'[q] \in Landed /\ GivenNext(key'[q], rr'[q])
      <3>1. PICK a \in Answers : Answered(r, a, CachedFor(a.least), Overwritten(r))
        BY <2>3 DEF ExchangeAnswer
      <3>2. a.first \in Nat
        BY AnswerTimes
      <3>3. q = r /\ rr'[q] = a.first /\ key' = key /\ pc[r] = "exchange"
        BY <2>3, <3>1 DEF TypeOK, Answered
      <3>4. key[q] \in Keys /\ most[key[q]] \in Nat
        BY <1>1, <3>3
      <3>5. a.first <= most'[key[q]]
        BY SMT, <3>1, <3>2, <3>3, <3>4 DEF TypeOK, Answered
      <3>6. pc'[q] = "read"
        BY <2>3, <3>3, Fetched DEF Aboard
      <3> QED
        BY <3>3, <3>5, <3>6 DEF Landed, GivenNext
    <2>4. ASSUME NEW r \in Reqs,
                 \/ Do(r) \/ ExchangeFails(r) \/ ExchangeEmpty(r)
                 \/ FindANAME(r) \/ WriteTtl(r) \/ A(r)
          PROVE  rr' = rr
      BY <2>4 DEF Do, ExchangeFails, ExchangeEmpty, FindANAME, WriteTtl, SetTtl, A, shared
    <2>5. CASE Tick \/ UNCHANGED vars
      BY <2>1, <2>5 DEF Tick, vars, shared
    <2> QED
      BY <2>1, <2>2, <2>3, <2>4, <2>5 DEF Next, Step, Exchange
  \* The TTL on its way into the record.
  <1>3. ASSUME NEW q \in Reqs, pc'[q] \in {"write", "build", "done"}
        PROVE  GivenNext(key'[q], ttl'[q])
    <2>1. \/ pc[q] \in {"write", "build", "done"} /\ ttl'[q] = ttl[q]
          \/ /\ pc[q] = "read"
             /\ ttl'[q] = IF got[q] = Nil THEN 0 ELSE rr[got[q]]
      <3>1. ASSUME NEW r \in Reqs, ExchangeFails(r) \/ ExchangeEmpty(r)
            PROVE  pc'[q] = pc[q] /\ ttl' = ttl
        BY <1>3, <3>1, NothingFetched, LandEffect
      <3>2. ASSUME NEW r \in Reqs, ExchangeAnswer(r)
            PROVE  pc'[q] = pc[q] /\ ttl' = ttl
        BY <1>3, <3>2, Fetched
      <3>3. ASSUME NEW r \in Reqs, Do(r) \/ \E j \in Keys : Query(r, j)
            PROVE  pc'[q] = pc[q] /\ ttl' = ttl
        <4>1. ttl' = ttl /\ \E v \in {"do", "exchange", "wait", "read"} : pc' = [pc EXCEPT ![r] = v]
          BY <3>3 DEF Do, Query
        <4>2. pc \in [Reqs -> Pcs]
          BY DEF TypeOK, Pcs
        <4> QED
          BY <1>3, <4>1, <4>2
      <3>4. ASSUME NEW r \in Reqs, FindANAME(r)
            PROVE  \/ pc'[q] = pc[q] /\ ttl'[q] = ttl[q]
                   \/ /\ pc[q] = "read"
                      /\ ttl'[q] = IF got[q] = Nil THEN 0 ELSE rr[got[q]]
        BY <3>4 DEF TypeOK, FindANAME
      <3>5. ASSUME NEW r \in Reqs, WriteTtl(r) \/ A(r)
            PROVE  pc[q] \in {pc'[q], "write", "build"} /\ ttl' = ttl
        BY <3>5 DEF TypeOK, WriteTtl, SetTtl, A
      <3>6. CASE Tick \/ UNCHANGED vars
        BY <1>3, <3>6 DEF Tick, vars, local
      <3> QED
        BY <1>3, <3>1, <3>2, <3>3, <3>4, <3>5, <3>6 DEF Next, Step, Exchange
    <2>2. CASE pc[q] \in {"write", "build", "done"} /\ ttl'[q] = ttl[q]
      <3>1. pc[q] # "idle" /\ Given(key[q], ttl[q])
        BY <2>2 DEF Mosts
      <3> QED
        BY <1>1, <2>2, <3>1, GivenStays
    <2>3. CASE pc[q] = "read" /\ ttl'[q] = IF got[q] = Nil THEN 0 ELSE rr[got[q]]
      <3>1. CASE got[q] = Nil
        <4>1. 0 <= most'[key[q]]
          BY SMT, <1>1, <2>3
        <4> QED
          BY <1>1, <2>3, <3>1, <4>1 DEF GivenNext
      <3>2. CASE got[q] # Nil
        <4>1. got[q] \in Reqs /\ pc[got[q]] \in Landed /\ key[got[q]] = key[q]
          BY <3>2 DEF TypeOK, Held
        <4>2. Given(key[q], rr[got[q]]) /\ rr[got[q]] \in Nat
          BY <1>1, <4>1 DEF Mosts
        <4> QED
          BY <1>1, <2>3, <3>2, <4>2, GivenStays
      <3> QED
        BY <3>1, <3>2
    <2> QED
      BY <2>1, <2>2, <2>3
  \* The TTL in the record.
  <1>4. ASSUME NEW q \in Reqs, pc'[q] \in {"build", "done"}, ~Zeroed(key[q])'
        PROVE  field'[key'[q]] # 0 /\ GivenNext(key'[q], field'[key'[q]])
    <2>1. CASE pc[q] \in {"build", "done"} /\ field'[key[q]] = field[key[q]]
      <3>1. key[q] \in Keys /\ key'[q] = key[q]
        BY <1>1, <2>1
      <3>2. ~Zeroed(key[q])
        <4>1. PICK k \in Keys : k = key[q] /\ k = key'[q]
          BY <3>1
        <4>2. ~Zeroed(k)'
          BY <1>4, <4>1 DEF Zeroed
        <4>3. ~Zeroed(k)
          BY <4>2, ZeroedStays
        <4> QED
          BY <4>1, <4>3 DEF Zeroed
      <3>3. field[key[q]] # 0 /\ Given(key[q], field[key[q]])
        BY <2>1, <3>2 DEF Mosts
      <3>4. field[key[q]] \in Nat
        <4>1. pc[q] # "idle"
          BY <2>1
        <4> QED
          BY <1>1, <4>1
      <3> QED
        BY <2>1, <3>1, <3>3, <3>4, GivenStays
    <2>2. ASSUME NEW r \in Reqs, WriteTtl(r)
          PROVE  \/ pc[q] \in {"build", "done"} /\ field'[key[q]] = field[key[q]]
                 \/ field'[key'[q]] # 0 /\ GivenNext(key'[q], field'[key'[q]])
      <3>1. /\ pc[r] = "write" /\ pc'[r] = "build" /\ ttl' = ttl /\ key' = key /\ most' = most
            /\ field' = [field EXCEPT ![key[r]] = ttl[r]]
            /\ q # r => pc'[q] = pc[q]
        BY <2>2 DEF TypeOK, WriteTtl, SetTtl
      <3>2. /\ key[r] \in Keys /\ key[q] \in Keys /\ ttl[r] \in Nat
            /\ GivenNext(key[r], ttl[r])
        <4>1. pc[q] # "idle" /\ pc[r] # "idle"
          BY <1>4, <3>1
        <4>2. key[r] \in Keys /\ key[q] \in Keys /\ ttl[r] \in Nat
          BY <1>1, <3>1, <4>1
        <4>3. Given(key[r], ttl[r])
          BY <3>1 DEF Mosts
        <4> QED
          BY <4>2, <4>3, GivenStays
      <3>3. CASE key[q] = key[r]
        <4>1. field'[key[q]] = ttl[r]
          BY <3>1, <3>2, <3>3 DEF TypeOK
        <4>2. ttl[r] # 0
          <5>1. key'[r] = key'[q] /\ pc'[r] \in {"build", "done"} /\ ttl'[r] = ttl[r]
            BY <3>1, <3>3
          <5> QED
            BY <1>4, <5>1 DEF Zeroed
        <4> QED
          BY <3>1, <3>2, <3>3, <4>1, <4>2
      <3>4. CASE key[q] # key[r]
        BY <1>4, <3>1, <3>2, <3>4 DEF TypeOK
      <3> QED
        BY <3>3, <3>4
    <2>3. ASSUME NEW r \in Reqs, ExchangeFails(r) \/ ExchangeEmpty(r)
          PROVE  pc'[q] = pc[q] /\ field' = field
      BY <1>4, <2>3, NothingFetched, LandEffect
    <2>4. ASSUME NEW r \in Reqs, ExchangeAnswer(r)
          PROVE  pc'[q] = pc[q] /\ field' = field
      BY <1>4, <2>4, Fetched
    <2>5. ASSUME NEW r \in Reqs, Do(r) \/ FindANAME(r) \/ \E j \in Keys : Query(r, j)
          PROVE  pc'[q] = pc[q] /\ field' = field
      BY SMT, <1>4, <2>5 DEF TypeOK, Do, FindANAME, Query, shared
    <2>6. ASSUME NEW r \in Reqs, A(r)
          PROVE  pc[q] \in {pc'[q], "build"} /\ field' = field
      BY <2>6 DEF TypeOK, A, shared
    <2>7. CASE Tick \/ UNCHANGED vars
      BY <1>4, <2>1, <2>7 DEF Tick, vars, shared, local
    <2> QED
      BY <1>4, <2>1, <2>2, <2>3, <2>4, <2>5, <2>6, <2>7 DEF Next, Step, Exchange
  <1> QED
    BY <1>2, <1>3, <1>4 DEF Mosts, Given, GivenNext

\* ReplyTtlIsSomeones: A copies a TTL that was given, or one that max_ttl cuts.
LEMMA StepReply ==
    ASSUME TypeOK, Places, Cached, Held, Mosts, ReplyTtlIsSomeones, [Next]_vars
    PROVE  ReplyTtlIsSomeones'
  <1> SUFFICES ASSUME NEW q \in Reqs, pc'[q] = "done", ~Zeroed(key[q])'
               PROVE  GivenNext(key'[q], reply'[q])
    BY DEF ReplyTtlIsSomeones, Given, GivenNext
  <1>1. /\ key[q] \in Keys /\ key'[q] = key[q] /\ ~Zeroed(key[q])
        /\ \/ pc[q] = "done" /\ reply'[q] = reply[q]
           \/ /\ pc[q] = "build" /\ reply'[q] = getTtl(field[key[q]])
    <2>1. ASSUME NEW r \in Reqs, ExchangeFails(r) \/ ExchangeEmpty(r)
          PROVE  pc'[q] = pc[q] /\ reply' = reply
      BY <2>1, NothingFetched, LandEffect
    <2>2. ASSUME NEW r \in Reqs, ExchangeAnswer(r)
          PROVE  pc'[q] = pc[q] /\ reply' = reply
      BY <2>2, Fetched
    <2>3. ASSUME NEW r \in Reqs,
                 \/ Do(r) \/ FindANAME(r) \/ WriteTtl(r) \/ \E j \in Keys : Query(r, j)
          PROVE  pc'[q] = pc[q] /\ reply' = reply
      BY SMT, <2>3 DEF TypeOK, Do, FindANAME, WriteTtl, SetTtl, Query
    <2>4. ASSUME NEW r \in Reqs, A(r)
          PROVE  \/ pc'[q] = pc[q] /\ reply'[q] = reply[q]
                 \/ pc[q] = "build" /\ reply'[q] = getTtl(field[key[q]])
      BY <2>4 DEF TypeOK, A
    <2>5. ASSUME Tick \/ UNCHANGED vars
          PROVE  pc' = pc /\ reply' = reply
      BY <2>5 DEF Tick, vars, local
    <2>6. \/ pc[q] = "done" /\ reply'[q] = reply[q]
          \/ pc[q] = "build" /\ reply'[q] = getTtl(field[key[q]])
      BY <2>1, <2>2, <2>3, <2>4, <2>5 DEF Next, Step, Exchange
    <2>7. key[q] \in Keys /\ key'[q] = key[q]
      BY <2>6, Monotone DEF Held
    <2>8. ~Zeroed(key[q])
      <3>1. PICK k \in Keys : k = key[q] /\ k = key'[q]
        BY <2>7
      <3>2. ~Zeroed(k)'
        BY <3>1 DEF Zeroed
      <3>3. ~Zeroed(k)
        BY <3>2, ZeroedStays
      <3> QED
        BY <3>1, <3>3 DEF Zeroed
    <2> QED
      BY <2>6, <2>7, <2>8
  <1>2. /\ most[key[q]] \in Nat /\ reply[q] \in Nat /\ field[key[q]] \in Nat /\ MaxTtl \in Nat
    BY <1>1, BoundAssumption DEF TypeOK, Ttl
  <1>3. CASE pc[q] = "done" /\ reply'[q] = reply[q]
    <2>1. Given(key[q], reply[q])
      BY <1>1, <1>3 DEF ReplyTtlIsSomeones
    <2> QED
      BY <1>1, <1>2, <1>3, <2>1, GivenStays
  <1>4. CASE pc[q] = "build" /\ reply'[q] = getTtl(field[key[q]])
    <2>1. field[key[q]] # 0 /\ Given(key[q], field[key[q]])
      BY <1>1, <1>4 DEF Mosts
    <2>2. getTtl(field[key[q]]) \in Nat /\ getTtl(field[key[q]]) <= field[key[q]]
      BY SMT, <1>2, <2>1 DEF getTtl
    <2>3. \A x \in Nat : field[key[q]] <= x => getTtl(field[key[q]]) <= x
      BY SMT, <1>2, <2>2
    <2>4. Given(key[q], getTtl(field[key[q]]))
      <3>1. DefaultTtl \in Nat
        BY BoundAssumption
      <3> QED
        BY <1>2, <2>1, <2>3, <3>1 DEF Given
    <2> QED
      BY <1>1, <1>4, <2>2, <2>4, GivenStays
  <1> QED
    BY <1>1, <1>3, <1>4
-----------------------------------------------------------------------------
\* The starting state.
LEMMA InitIInv == Init => IInv
  <1> SUFFICES ASSUME Init PROVE IInv
    OBVIOUS
  <1>1. TypeOK
    <2>1. /\ Servers \in Seq(Listed) /\ 1 \in 1 .. Len(Servers) + 1 /\ 0 \in 0 .. MaxClock
      BY SMT, ServersAssumption, ServersLength, BoundAssumption
    <2> QED
      BY <2>1 DEF Init, TypeOK, Ttl
  <1>2. Places /\ Cached /\ Held /\ Limits
    <2>1. ASSUME NEW r \in Reqs, NEW j \in 2 .. n[r] - 1
          PROVE  FALSE
      <3>1. n[r] = 1
        BY DEF Init
      <3> QED
        BY SMT, <2>1, <3>1
    <2> QED
      BY <2>1 DEF Init, Places, Cached, Held, Limits
  <1>3. Mosts /\ ReplyTtlIsSomeones
    BY DEF Init, Mosts, ReplyTtlIsSomeones, Landed
  <1> QED
    BY <1>1, <1>2, <1>3 DEF IInv

\* Every step keeps the invariant.
LEMMA StepIInv == IInv /\ [Next]_vars => IInv'
  BY StepType, StepPlaces, StepCached, StepHeld, StepLimits, StepMosts, StepReply DEF IInv

\* The inductive invariant of the upstream resolver.
THEOREM Invariance == Spec => []IInv
  BY InitIInv, StepIInv, PTL DEF Spec

\* The types, and that the list of connections keeps its length (Upstream.Query).
THEOREM TypeCorrect == Spec => []TypeOK
  <1>1. IInv => TypeOK
    BY DEF IInv
  <1> QED
    BY <1>1, Invariance, PTL

\* Query gives up only after every upstream but the first was asked, for any number
\* of flights that rewrite the list meanwhile.
THEOREM FailureIsComplete == Spec => []FailureMeansAllDown
  <1>1. IInv => FailureMeansAllDown
    <2> SUFFICES ASSUME IInv, NEW r \in Reqs, n[r] > Len(Servers), NEW j \in 2 .. Len(Servers)
                 PROVE  Servers[j] \in tried[r]
      BY DEF FailureMeansAllDown
    <2>1. j \in 2 .. n[r] - 1
      BY SMT, ServersLength DEF IInv, TypeOK
    <2> QED
      BY <2>1 DEF IInv, Places
  <1> QED
    BY <1>1, Invariance, PTL

\* FindANAME returns no more than the answer's own time, although hits rewrite the
\* TTLs of the RRs that it reads, and no more than DefaultTtl for an answer that came
\* with a TTL of 0.
THEOREM TtlIsBounded == Spec => []TtlWithinLifetime
  <1>1. IInv => TtlWithinLifetime
    BY DEF IInv, Limits, Within, TtlWithinLifetime
  <1> QED
    BY <1>1, Invariance, PTL

\* A reply has at most the longest TTL given for its question, or DefaultTtl if 0 was
\* given, unless 0 was written into the record.
THEOREM ReplyTtlIsGiven == Spec => []ReplyTtlIsSomeones
  <1>1. IInv => ReplyTtlIsSomeones
    BY DEF IInv
  <1> QED
    BY <1>1, Invariance, PTL
-----------------------------------------------------------------------------
\* A key in flight has one leader, which still has a connection to ask; whoever
\* waits, waits for a flight that is still there (inflight.Do).
Flies(r) ==
    /\ pc[r] = "exchange" => flight[key[r]] = r /\ n[r] <= Len(Servers)
    /\ pc[r] = "wait" => flight[key[r]] # Nil
    /\ pc[r] \in {"idle", "do", "wait"} => n[r] = 1
Flights ==
    /\ \A k \in Keys : flight[k] # Nil => pc[flight[k]] = "exchange" /\ key[flight[k]] = k
    /\ \A r \in Reqs : Flies(r)

\* The leader of a flight (inflight.Do).
LEMMA Leader ==
    ASSUME TypeOK, Flights, NEW k \in Keys, flight[k] # Nil
    PROVE  flight[k] \in Reqs /\ pc[flight[k]] = "exchange" /\ key[flight[k]] = k
  <1>1. flight[k] \in Reqs \cup {Nil}
    BY DEF TypeOK
  <1>2. pc[flight[k]] = "exchange" /\ key[flight[k]] = k
    BY DEF Flights
  <1> QED
    BY <1>1, <1>2

\* Flights, after a flight has landed.
LEMMA LandedFlights ==
    ASSUME TypeOK, Held, Flights, NEW r \in Reqs, NEW answer \in Reqs \cup {Nil}, NEW time \in Nat,
           pc[r] = "exchange", Land(r, answer, time), key' = key,
           \A q \in Reqs \ {r} : n'[q] = n[q]
    PROVE  Flights'
  <1>0. Nil \notin Reqs /\ key[r] \in Keys /\ flight[key[r]] = r
    BY NilAssumption DEF Held, Flights, Flies
  <1>1. /\ \A q \in Aboard(r) : pc'[q] = "read"
        /\ \A q \in Reqs \ Aboard(r) : pc'[q] = pc[q]
    BY LandEffect
  <1>2. flight'[key[r]] = Nil /\ \A k \in Keys \ {key[r]} : flight'[k] = flight[k]
    BY <1>0 DEF Land, LandFor, TypeOK
  <1>3. r \in Aboard(r) /\ \A q \in Reqs : pc[q] = "wait" /\ key[q] = key[r] => q \in Aboard(r)
    BY DEF Aboard
  <1>4. ASSUME NEW k \in Keys, flight'[k] # Nil
        PROVE  pc'[flight'[k]] = "exchange" /\ key'[flight'[k]] = k
    <2>1. k # key[r] /\ flight'[k] = flight[k]
      BY <1>2, <1>4
    <2>2. flight[k] \in Reqs /\ pc[flight[k]] = "exchange" /\ key[flight[k]] = k
      BY <1>4, <2>1, Leader
    <2>3. flight[k] \notin Aboard(r)
      BY <2>1, <2>2 DEF Aboard
    <2> QED
      BY <1>1, <2>1, <2>2, <2>3
  <1>5. ASSUME NEW q \in Reqs
        PROVE  Flies(q)'
    <2>0. Flies(q)
      BY DEF Flights
    <2>1. CASE q \in Aboard(r)
      BY <1>1, <2>1 DEF Flies
    <2>2. CASE q \notin Aboard(r)
      <3>1. q # r /\ pc'[q] = pc[q] /\ n'[q] = n[q] /\ key'[q] = key[q]
        BY <1>1, <1>3, <2>2
      <3>2. ASSUME pc[q] \in {"exchange", "wait"}
            PROVE  flight'[key[q]] = flight[key[q]]
        <4>1. key[q] \in Keys
          BY <3>2 DEF Held
        <4>2. key[q] # key[r]
          BY <1>0, <1>3, <2>0, <2>2, <3>1, <3>2 DEF Flies
        <4> QED
          BY <1>2, <4>1, <4>2
      <3> QED
        BY <2>0, <3>1, <3>2 DEF Flies
    <2> QED
      BY <2>1, <2>2
  <1> QED
    BY <1>4, <1>5 DEF Flights

\* Flights, after a step of one goroutine that leads no flight and ends none.
LEMMA AloneMoves ==
    ASSUME TypeOK, Flights, NEW r \in Reqs, pc[r] # "exchange", flight' = flight, Flies(r)',
           \A q \in Reqs \ {r} : pc'[q] = pc[q] /\ key'[q] = key[q] /\ n'[q] = n[q]
    PROVE  Flights'
  <1>1. ASSUME NEW k \in Keys, flight'[k] # Nil
        PROVE  pc'[flight'[k]] = "exchange" /\ key'[flight'[k]] = k
    <2>1. flight[k] \in Reqs /\ pc[flight[k]] = "exchange" /\ key[flight[k]] = k
      BY <1>1, Leader
    <2> QED
      BY <2>1
  <1>2. ASSUME NEW q \in Reqs \ {r}
        PROVE  Flies(q)'
    <2>1. Flies(q)
      BY DEF Flights
    <2> QED
      BY <2>1 DEF Flies
  <1> QED
    BY <1>1, <1>2 DEF Flights

\* Flights is kept by every step.
LEMMA StepFlights ==
    ASSUME TypeOK, Held, Flights, [Next]_vars
    PROVE  Flights'
  <1>0. Nil \notin Reqs /\ 1 <= Len(Servers)
    BY SMT, NilAssumption, ServersLength
  <1>1. ASSUME NEW r \in Reqs, NEW k \in Keys, Query(r, k)
        PROVE  Flights'
    <2>1. /\ pc[r] = "idle" /\ flight' = flight /\ n' = n /\ pc'[r] \in {"read", "do"}
          /\ \A q \in Reqs \ {r} : pc'[q] = pc[q] /\ key'[q] = key[q]
      BY <1>1 DEF Query, TypeOK
    <2>2. Flies(r)'
      BY <2>1 DEF Flights, Flies
    <2> QED
      BY <2>1, <2>2, AloneMoves
  <1>2. ASSUME NEW r \in Reqs, Do(r)
        PROVE  Flights'
    <2>1. /\ pc[r] = "do" /\ n' = n /\ key' = key /\ key[r] \in Keys
          /\ \A q \in Reqs \ {r} : pc'[q] = pc[q]
      BY <1>2 DEF Do, TypeOK, Held
    <2>2. n[r] = 1
      BY <2>1 DEF Flights, Flies
    <2>3. CASE flight[key[r]] # Nil
      <3>1. flight' = flight /\ pc'[r] = "wait"
        BY <1>2, <2>3 DEF Do, TypeOK
      <3>2. Flies(r)'
        BY <2>1, <2>2, <2>3, <3>1 DEF Flies
      <3> QED
        BY <2>1, <3>1, <3>2, AloneMoves
    <2>4. CASE flight[key[r]] = Nil
      <3>1. /\ flight'[key[r]] = r /\ pc'[r] = "exchange"
            /\ \A l \in Keys \ {key[r]} : flight'[l] = flight[l]
        BY <1>2, <2>1, <2>4 DEF Do, TypeOK
      <3>2. \A l \in Keys \ {key[r]} : flight[l] # Nil => flight[l] \in Reqs \ {r}
        BY <2>1, Leader
      <3>3. ASSUME NEW l \in Keys, flight'[l] # Nil
            PROVE  pc'[flight'[l]] = "exchange" /\ key'[flight'[l]] = l
        <4>1. CASE l = key[r]
          BY <2>1, <3>1, <4>1
        <4>2. CASE l # key[r]
          <5>1. flight'[l] = flight[l] /\ flight[l] \in Reqs \ {r}
            BY <3>1, <3>2, <3>3, <4>2
          <5>2. pc[flight[l]] = "exchange" /\ key[flight[l]] = l
            BY <3>3, <5>1, Leader
          <5> QED
            BY <2>1, <5>1, <5>2
        <4> QED
          BY <4>1, <4>2
      <3>4. ASSUME NEW q \in Reqs \ {r}
            PROVE  Flies(q)'
        <4>0. Flies(q) /\ pc'[q] = pc[q] /\ n'[q] = n[q] /\ key'[q] = key[q]
          BY <2>1 DEF Flights
        <4>1. CASE pc[q] \in {"exchange", "wait"}
          <5>1. key[q] \in Keys
            BY <4>1 DEF Held
          <5>2. flight[key[q]] # Nil
            BY <1>0, <4>0, <4>1 DEF Flies
          <5>3. flight'[key[q]] = flight[key[q]]
            BY <2>4, <3>1, <5>1, <5>2
          <5> QED
            BY <4>0, <5>3 DEF Flies
        <4>2. CASE pc[q] \notin {"exchange", "wait"}
          BY <4>0, <4>2 DEF Flies
        <4> QED
          BY <4>1, <4>2
      <3>5. Flies(r)'
        BY <1>0, <2>1, <2>2, <3>1 DEF Flies
      <3> QED
        BY <3>3, <3>4, <3>5 DEF Flights
    <2> QED
      BY <2>3, <2>4
  <1>3. ASSUME NEW r \in Reqs, ExchangeFails(r)
        PROVE  Flights'
    <2>1. /\ pc[r] = "exchange" /\ key' = key /\ n[r] <= Len(Servers)
          /\ n'[r] = n[r] + 1 /\ \A q \in Reqs \ {r} : n'[q] = n[q]
      BY <1>3 DEF ExchangeFails, TypeOK
    <2>2. CASE n[r] = Len(connections)
      <3>1. Land(r, Nil, 0) /\ 0 \in Nat
        BY SMT, <1>3, <2>2 DEF ExchangeFails
      <3> QED
        BY <2>1, <3>1, LandedFlights
    <2>3. CASE n[r] # Len(connections)
      <3>1. flight' = flight /\ pc' = pc
        BY <1>3, <2>3 DEF ExchangeFails
      <3>2. n'[r] <= Len(Servers)
        BY SMT, <2>1, <2>3, ServersLength DEF TypeOK
      <3>3. \A q \in Reqs : Flies(q)'
        BY <2>1, <3>1, <3>2 DEF Flights, Flies
      <3> QED
        BY <2>1, <3>1, <3>3 DEF Flights
    <2> QED
      BY <2>2, <2>3
  <1>4. ASSUME NEW r \in Reqs, ExchangeEmpty(r)
        PROVE  Flights'
    <2>1. pc[r] = "exchange" /\ key' = key /\ n' = n /\ Land(r, Nil, 0) /\ 0 \in Nat
      BY SMT, <1>4 DEF ExchangeEmpty
    <2> QED
      BY <2>1, LandedFlights
  <1>5. ASSUME NEW r \in Reqs, ExchangeAnswer(r)
        PROVE  Flights'
    <2>1. PICK a \in Answers : Answered(r, a, CachedFor(a.least), Overwritten(r))
      BY <1>5 DEF ExchangeAnswer
    <2>2. Second * a.first \in Nat
      BY AnswerTimes
    <2>3. pc[r] = "exchange" /\ key' = key /\ n' = n /\ Land(r, r, Second * a.first)
      BY <2>1 DEF Answered
    <2> QED
      BY <2>2, <2>3, LandedFlights
  <1>6. ASSUME NEW r \in Reqs, FindANAME(r) \/ WriteTtl(r) \/ A(r)
        PROVE  Flights'
    <2>1. /\ pc[r] \in {"read", "write", "build"} /\ pc'[r] \in {"write", "build", "done"}
          /\ flight' = flight /\ key' = key
          /\ \A q \in Reqs \ {r} : pc'[q] = pc[q] /\ n'[q] = n[q]
      BY <1>6 DEF FindANAME, WriteTtl, SetTtl, A, TypeOK, shared
    <2>2. Flies(r)'
      BY <2>1 DEF Flies
    <2> QED
      BY <2>1, <2>2, AloneMoves
  <1>7. CASE Tick \/ UNCHANGED vars
    BY <1>7 DEF Tick, vars, shared, local, Flights, Flies
  <1> QED
    BY <1>1, <1>2, <1>3, <1>4, <1>5, <1>6, <1>7 DEF Next, Step, Exchange

\* The guards of Step(r).
Ready(r) ==
    \/ pc[r] \in {"do", "read", "write", "build"}
    \/ pc[r] = "exchange" /\ n[r] <= Len(connections)

\* Whoever is in the middle of a question can go on, or waits for the leader of a
\* flight that can.
NobodyIsStranded ==
    \A r \in Reqs : pc[r] \notin {"idle", "done"} =>
        \/ Ready(r)
        \/ /\ pc[r] = "wait"
           /\ \E q \in Reqs : pc[q] = "exchange" /\ key[q] = key[r] /\ Ready(q)

\* No waiter is left behind by its flight (inflight.Do in Upstream.Query): what the
\* fairness of EveryQueryReturns is applied to is always there.
THEOREM NobodyIsStrandedHolds == Spec => []NobodyIsStranded
  <1>1. Init => Flights
    <2>1. ASSUME Init
          PROVE  /\ \A k \in Keys : flight[k] = Nil
                 /\ \A r \in Reqs : pc[r] = "idle" /\ n[r] = 1
      BY <2>1 DEF Init
    <2> QED
      BY <2>1 DEF Flights, Flies
  <1>2. IInv /\ Flights /\ [Next]_vars => Flights'
    BY StepFlights DEF IInv
  <1>3. IInv /\ Flights => NobodyIsStranded
    <2> SUFFICES ASSUME IInv, Flights, NEW r \in Reqs, pc[r] \notin {"idle", "done"}, ~Ready(r)
                 PROVE  /\ pc[r] = "wait"
                        /\ \E q \in Reqs : pc[q] = "exchange" /\ key[q] = key[r] /\ Ready(q)
      BY DEF NobodyIsStranded
    <2>1. \A q \in Reqs : pc[q] = "exchange" => Ready(q)
      BY DEF Ready, Flights, Flies, IInv, TypeOK
    <2>2. pc[r] = "wait" /\ key[r] \in Keys
      BY <2>1 DEF Ready, IInv, TypeOK, Held
    <2>3. flight[key[r]] # Nil
      BY <2>2 DEF Flights, Flies
    <2>4. flight[key[r]] \in Reqs /\ pc[flight[key[r]]] = "exchange" /\ key[flight[key[r]]] = key[r]
      BY <2>2, <2>3, Leader DEF IInv
    <2> QED
      BY <2>1, <2>2, <2>4
  <1> QED
    BY <1>1, <1>2, <1>3, Invariance, PTL DEF Spec
-----------------------------------------------------------------------------
\* How many steps of its own a goroutine has left at most, at p with m connections
\* to go from.
LeftAt(p, m) ==
    CASE p = "idle" -> Len(Servers) + 6
      [] p = "do" -> Len(Servers) + 5
      [] p = "exchange" -> Len(Servers) + 5 - m
      [] p = "wait" -> 4
      [] p = "read" -> 3
      [] p = "write" -> 2
      [] p = "build" -> 1
      [] OTHER -> 0
Left(r) == LeftAt(pc[r], n[r])

\* LeftAt, place by place.
LEMMA LeftValues ==
    ASSUME NEW m
    PROVE  /\ LeftAt("idle", m) = Len(Servers) + 6 /\ LeftAt("do", m) = Len(Servers) + 5
           /\ LeftAt("exchange", m) = Len(Servers) + 5 - m
           /\ LeftAt("wait", m) = 4 /\ LeftAt("read", m) = 3 /\ LeftAt("write", m) = 2
           /\ LeftAt("build", m) = 1 /\ LeftAt("done", m) = 0
  BY SMT DEF LeftAt

\* Left counts down, from a number that depends only on the list of upstreams.
LEMMA LeftBounds ==
    ASSUME NEW p \in Pcs, NEW m \in 1 .. Len(Servers) + 1
    PROVE  LeftAt(p, m) \in 0 .. Len(Servers) + 6
  <1>1. Len(Servers) \in Nat
    BY ServersLength
  <1> QED
    BY SMT, <1>1, LeftValues DEF Pcs

\* LeftAt falls along the way of a goroutine.
LEMMA LeftFalls ==
    ASSUME NEW m \in 1 .. Len(Servers) + 1, NEW l \in 1 .. Len(Servers) + 1
    PROVE  /\ LeftAt("do", l) < LeftAt("idle", m) /\ LeftAt("read", l) < LeftAt("idle", m)
           /\ LeftAt("exchange", l) < LeftAt("do", m) /\ LeftAt("wait", l) < LeftAt("do", m)
           /\ l = m + 1 => LeftAt("exchange", l) < LeftAt("exchange", m)
           /\ LeftAt("read", l) < LeftAt("exchange", m) /\ LeftAt("read", l) < LeftAt("wait", m)
           /\ LeftAt("write", l) < LeftAt("read", m) /\ LeftAt("build", l) < LeftAt("write", m)
           /\ LeftAt("done", l) < LeftAt("build", m)
  <1>1. Len(Servers) \in Nat
    BY ServersLength
  <1> QED
    BY SMT, <1>1, LeftValues

\* Every step of a goroutine counts, and nobody else's step sets it back.
StepCounts ==
    \A r \in Reqs : /\ Left(r)' <= Left(r)
                    /\ Step(r) \/ (\E k \in Keys : Query(r, k)) => Left(r)' < Left(r)

\* The goroutines that a step moves, and how far.
LEMMA Moves ==
    ASSUME TypeOK, NEW r \in Reqs, Step(r) \/ \E k \in Keys : Query(r, k)
    PROVE  /\ \/ pc[r] = "idle" /\ pc'[r] \in {"do", "read"}
              \/ pc[r] = "do" /\ pc'[r] \in {"exchange", "wait"} /\ n'[r] = n[r]
              \/ pc[r] = "exchange" /\ pc'[r] = "exchange" /\ n'[r] = n[r] + 1
              \/ pc[r] = "exchange" /\ pc'[r] = "read"
              \/ pc[r] = "read" /\ pc'[r] = "write"
              \/ pc[r] = "write" /\ pc'[r] = "build"
              \/ pc[r] = "build" /\ pc'[r] = "done"
           /\ \A q \in Reqs \ {r} :
                 n'[q] = n[q] /\ (pc'[q] = pc[q] \/ (pc[q] = "wait" /\ pc'[q] = "read"))
  <1>1. CASE \E k \in Keys : Query(r, k)
    <2>1. PICK k \in Keys : Query(r, k)
      BY <1>1
    <2>2. pc[r] = "idle" /\ n' = n
          /\ (pc' = [pc EXCEPT ![r] = "do"] \/ pc' = [pc EXCEPT ![r] = "read"])
      BY <2>1 DEF Query
    <2>3. pc \in [Reqs -> Pcs]
      BY DEF TypeOK, Pcs
    <2>4. pc'[r] \in {"do", "read"} /\ \A q \in Reqs \ {r} : pc'[q] = pc[q]
      BY <2>2, <2>3
    <2> QED
      BY <2>2, <2>4
  <1>2. CASE Do(r)
    BY <1>2 DEF Do, TypeOK
  <1>3. CASE Exchange(r)
    <2>1. /\ pc[r] = "exchange" /\ \A q \in Reqs \ {r} : n'[q] = n[q]
          /\ \/ pc' = pc /\ n'[r] = n[r] + 1
             \/ \E answer \in Reqs \cup {Nil}, time \in Nat : Land(r, answer, time)
      <3>1. CASE ExchangeFails(r)
        <4>1. 0 \in Nat /\ (Land(r, Nil, 0) \/ pc' = pc)
          BY SMT, <3>1 DEF ExchangeFails
        <4>2. pc[r] = "exchange" /\ n'[r] = n[r] + 1 /\ \A q \in Reqs \ {r} : n'[q] = n[q]
          BY <3>1 DEF ExchangeFails, TypeOK
        <4> QED
          BY <4>1, <4>2
      <3>2. CASE ExchangeEmpty(r)
        <4>1. 0 \in Nat
          BY SMT
        <4> QED
          BY <3>2, <4>1 DEF ExchangeEmpty
      <3>3. CASE ExchangeAnswer(r)
        <4>1. PICK a \in Answers : Answered(r, a, CachedFor(a.least), Overwritten(r))
          BY <3>3 DEF ExchangeAnswer
        <4>2. Second * a.first \in Nat
          BY AnswerTimes
        <4>3. pc[r] = "exchange" /\ n' = n /\ Land(r, r, Second * a.first)
          BY <4>1 DEF Answered
        <4> QED
          BY <4>2, <4>3
      <3> QED
        BY <1>3, <3>1, <3>2, <3>3 DEF Exchange
    <2>2. CASE pc' = pc /\ n'[r] = n[r] + 1
      BY <2>1, <2>2
    <2>3. CASE \E answer \in Reqs \cup {Nil}, time \in Nat : Land(r, answer, time)
      <3>1. /\ \A q \in Aboard(r) : pc'[q] = "read"
            /\ \A q \in Reqs \ Aboard(r) : pc'[q] = pc[q]
        BY <2>3, LandEffect
      <3> QED
        BY <2>1, <3>1 DEF Aboard
    <2> QED
      BY <2>1, <2>2, <2>3
  <1>4. CASE FindANAME(r) \/ WriteTtl(r) \/ A(r)
    BY <1>4 DEF FindANAME, WriteTtl, SetTtl, A, TypeOK
  <1> QED
    BY <1>1, <1>2, <1>3, <1>4 DEF Step

\* A question takes at most Len(Servers) + 6 steps of its own goroutine, whatever
\* the others do: each one lowers Left, which nobody else raises (Upstream.Query,
\* FindANAME, HandleRequest).
THEOREM StepsCount == Spec => [][StepCounts]_vars
  <1>1. ASSUME IInv, [Next]_vars
        PROVE  [StepCounts]_vars
    <2>0. TypeOK /\ TypeOK' /\ Len(Servers) \in Nat
      BY <1>1, StepIInv, ServersLength DEF IInv
    <2>1. \A q \in Reqs : /\ n[q] \in 1 .. Len(Servers) + 1 /\ n'[q] \in 1 .. Len(Servers) + 1
                          /\ Left(q) \in 0 .. Len(Servers) + 6 /\ Left(q)' \in 0 .. Len(Servers) + 6
      BY <2>0, LeftBounds DEF TypeOK, Pcs, Left
    <2>2. ASSUME NEW r \in Reqs, Step(r) \/ \E k \in Keys : Query(r, k)
          PROVE  Left(r)' < Left(r)
      <3>1. \/ pc[r] = "idle" /\ pc'[r] \in {"do", "read"}
            \/ pc[r] = "do" /\ pc'[r] \in {"exchange", "wait"} /\ n'[r] = n[r]
            \/ pc[r] = "exchange" /\ pc'[r] = "exchange" /\ n'[r] = n[r] + 1
            \/ pc[r] = "exchange" /\ pc'[r] = "read"
            \/ pc[r] = "read" /\ pc'[r] = "write"
            \/ pc[r] = "write" /\ pc'[r] = "build"
            \/ pc[r] = "build" /\ pc'[r] = "done"
        BY <2>0, <2>2, Moves
      <3>2. LeftAt(pc'[r], n'[r]) < LeftAt(pc[r], n[r])
        BY <2>1, <3>1, LeftFalls
      <3> QED
        BY <3>2 DEF Left
    <2>3. ASSUME NEW r \in Reqs, Step(r) \/ (\E k \in Keys : Query(r, k)), NEW q \in Reqs \ {r}
          PROVE  Left(q)' <= Left(q)
      <3>1. n'[q] = n[q] /\ (pc'[q] = pc[q] \/ (pc[q] = "wait" /\ pc'[q] = "read"))
        BY <2>0, <2>3, Moves
      <3>2. CASE pc'[q] = pc[q]
        <4>1. Left(q)' = Left(q)
          BY <3>1, <3>2 DEF Left
        <4> QED
          BY SMT, <2>0, <2>1, <4>1
      <3>3. CASE pc[q] = "wait" /\ pc'[q] = "read"
        <4>1. Left(q)' < Left(q)
          BY <2>1, <3>3, LeftFalls DEF Left
        <4> QED
          BY SMT, <2>0, <2>1, <4>1
      <3> QED
        BY <3>1, <3>2, <3>3
    <2>4. ASSUME Tick \/ UNCHANGED vars, NEW q \in Reqs
          PROVE  Left(q)' <= Left(q)
      <3>1. pc' = pc /\ n' = n
        BY <2>4 DEF Tick, vars, local
      <3>2. Left(q)' = Left(q)
        BY <3>1 DEF Left
      <3> QED
        BY SMT, <2>0, <2>1, <3>2
    <2>5. \A r \in Reqs : Left(r)' < Left(r) => Left(r)' <= Left(r)
      BY SMT, <2>0, <2>1
    <2>6. \A r \in Reqs : Left(r)' <= Left(r)
      BY <1>1, <2>2, <2>3, <2>4, <2>5 DEF Next
    <2> QED
      BY <2>2, <2>6 DEF StepCounts
  <1> QED
    BY <1>1, Invariance, PTL DEF Spec
=============================================================================
