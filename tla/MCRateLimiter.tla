--------------------------- MODULE MCRateLimiter ---------------------------
(* Instances of RateLimiter for TLC. *)
EXTENDS RateLimiter, FiniteSets

CONSTANTS t1, t2, l1, l2, l3, l4, client, hasty, friend, foe

\* States are the same if they differ in names (which goroutine, which Limiter
\* object) or in what nobody reads again: of a Limiter only what is left after its
\* pending leak counts, of an expired entry nothing, of an idle goroutine not its
\* last key, of a client that is not patient not its last answer.  (A size that
\* exceeds its bound does so when it is written, with no leak pending.)  There is
\* always a free Limiter: two clients and two goroutines use at most four.
Left(x) == Leak(size[x], now - last[x])
Entry(k) == IF cache[k] # Nil /\ now <= expires[k] THEN <<Left(cache[k]), expires[k]>> ELSE Nil
Goroutine(t) ==
    <<pc[t], IF pc[t] = "idle" THEN Nil ELSE key[t],
      IF l[t] = Nil THEN Nil ELSE <<Left(l[t]), l[t] = cache[key[t]]>>>>
View ==
    <<now, [k \in Keys |-> Entry(k)],
      {<<Goroutine(t), Cardinality({u \in Threads : Goroutine(u) = Goroutine(t)})>> : t \in Threads},
      Cardinality({l[t] : t \in Threads}), [k \in Patient |-> answer[k]], ideal>>
=============================================================================
