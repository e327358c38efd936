---------------------------- MODULE LeakyBucket ----------------------------
(***************************************************************************)
(* What the rate limiter promises (README, "rate limit"): a client on the  *)
(* white list is always admitted and one on the black list never; every    *)
(* other client has a bucket that leaks one unit per unit of time.  A      *)
(* request is admitted while the bucket holds at most Depth, and then adds *)
(* Cost to it.                                                             *)
(***************************************************************************)
EXTENDS Naturals

CONSTANTS Clients, WhiteList, BlackList, Cost, Depth

VARIABLES
    level,      \* content of each client's bucket
    answer      \* what became of the latest request of each client

Leak(n) == IF n > 0 THEN n - 1 ELSE 0

Init ==
    /\ level = [c \in Clients |-> 0]
    /\ answer = [c \in Clients |-> "none"]

\* A request arrives.
Ask(c) ==
    /\ answer[c] # "asked"
    /\ answer' = [answer EXCEPT ![c] = "asked"]
    /\ UNCHANGED level

Reply(c, result) == answer[c] = "asked" /\ answer' = [answer EXCEPT ![c] = result]

Listed(c) ==
    /\ \/ c \in BlackList /\ Reply(c, "no")
       \/ c \in WhiteList \ BlackList /\ Reply(c, "yes")
    /\ UNCHANGED level

Admit(c) ==
    /\ c \notin WhiteList \cup BlackList
    /\ level[c] <= Depth
    /\ level' = [level EXCEPT ![c] = @ + Cost]
    /\ Reply(c, "yes")

Refuse(c) ==
    /\ c \notin WhiteList \cup BlackList
    /\ level[c] > Depth
    /\ Reply(c, "no")
    /\ UNCHANGED level

Tick ==
    /\ level' = [c \in Clients |-> Leak(level[c])]
    /\ UNCHANGED answer

Next ==
    \/ Tick
    \/ \E c \in Clients : Ask(c) \/ Listed(c) \/ Admit(c) \/ Refuse(c)

Spec == Init /\ [][Next]_<<level, answer>>
=============================================================================
