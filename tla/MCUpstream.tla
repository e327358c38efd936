----------------------------- MODULE MCUpstream -----------------------------
(***************************************************************************)
(* Two upstreams; answers whose RRs have the same TTL, different TTLs, and *)
(* the TTL 0.                                                              *)
(***************************************************************************)
EXTENDS Upstream, TLC

CONSTANTS r1, r2, r3, k1, k2, u1, u2

TwoServers == <<u1, u2>>
SomeTtls == {[first |-> 1, least |-> 1], [first |-> 2, least |-> 1], [first |-> 0, least |-> 0]}
Symmetry == Permutations(Reqs) \cup Permutations(Keys)
=============================================================================
