------------------------- MODULE HealthcheckProofs -------------------------
(***************************************************************************)
(* Proofs about Healthcheck: types, and that a status is earned, for any   *)
(* number of workers and readers, any configurations and any failures of   *)
(* redis.  The second needs that a check is over before the next one is    *)
(* due (HealthcheckOverlap.cfg shows why) and that the history variable    *)
(* counts at least as far as the configured counts.                        *)
(***************************************************************************)
EXTENDS Healthcheck, SequenceTheorems, TLAPS

\* A leaf goes to Zenon unless it names SMT, for arithmetic and for records and
\* functions given by their values, or PTL, for the temporal steps.
USE ZenonT(60)

\* Transfer holds a configuration from the record to the expiry.
Carried == tpc \in {"load", "store", "expire"} => newConf \in Configs

\* What Start queues and a worker holds went through loadItem.
Held(i) == i \in Item /\ i.conf.down <= 0
Copies ==
    /\ \A k \in 1 .. Len(queue) : Held(queue[k])
    /\ \A w \in Workers : job[w] # Nil => Held(job[w])
-----------------------------------------------------------------------------
\* No item is Nil.
LEMMA ItemIsNotNil == Nil \notin Item /\ Nil \notin Configs
  BY NilAssumption, ConfigAssumption DEF Item

\* loadItem changes the sign of down_count only.
LEMMA LoadKeeps ==
    ASSUME NEW i \in Item
    PROVE  LET j == [i EXCEPT !.conf.down = -Abs(@)]
           IN  Held(j) /\ j.status = i.status /\ j.conf.up = i.conf.up /\ j.conf.down = -Abs(i.conf.down)
  BY SMT DEF Item, Config, Held, Abs

\* Another success keeps the item within its counts (statusUp).
LEMMA UpKeeps ==
    ASSUME NEW i, Held(i)
    PROVE  LET j == [statusUp(i) EXCEPT !.due = FALSE]
           IN  /\ j \in Item /\ j.conf = i.conf
               /\ j.status = IF i.status < 0 THEN 1
                             ELSE IF i.status < i.conf.up THEN i.status + 1 ELSE i.conf.up
  <1> DEFINE n == IF i.status < 0 THEN 1
                  ELSE IF i.status < i.conf.up THEN i.status + 1 ELSE i.conf.up
  <1>1. /\ i \in [conf: Config, status: Int, due: BOOLEAN] /\ i.conf.down <= 0
        /\ -Abs(i.conf.down) <= i.status \/ i.status = -1
        /\ i.status <= i.conf.up \/ i.status = 1
    BY DEF Held, Item
  <1>2. i.conf.up \in Nat /\ i.conf.down \in Int /\ i.status \in Int
    BY <1>1 DEF Config
  <1>3. /\ n \in Int
        /\ -Abs(i.conf.down) <= n \/ n = -1
        /\ n <= i.conf.up \/ n = 1
    BY SMT, <1>1, <1>2 DEF Abs
  <1>4. [statusUp(i) EXCEPT !.due = FALSE] = [[i EXCEPT !.status = n] EXCEPT !.due = FALSE]
    BY DEF statusUp
  <1> HIDE DEF n
  <1>5. LET j == [[i EXCEPT !.status = n] EXCEPT !.due = FALSE]
        IN  /\ j \in [conf: Config, status: Int, due: BOOLEAN]
            /\ j.conf = i.conf /\ j.status = n
    BY <1>1, <1>3
  <1>6. [[i EXCEPT !.status = n] EXCEPT !.due = FALSE] \in Item
    BY <1>3, <1>5 DEF Item
  <1> QED
    BY <1>4, <1>5, <1>6 DEF n

\* Another failure does, too, because down_count is not positive (statusDown).
LEMMA DownKeeps ==
    ASSUME NEW i, Held(i)
    PROVE  LET j == [statusDown(i) EXCEPT !.due = FALSE]
           IN  /\ j \in Item /\ j.conf = i.conf
               /\ j.status = IF i.status > 0 THEN -1
                             ELSE IF i.status > i.conf.down THEN i.status - 1 ELSE i.conf.down
  <1> DEFINE n == IF i.status > 0 THEN -1
                  ELSE IF i.status > i.conf.down THEN i.status - 1 ELSE i.conf.down
  <1>1. /\ i \in [conf: Config, status: Int, due: BOOLEAN] /\ i.conf.down <= 0
        /\ -Abs(i.conf.down) <= i.status \/ i.status = -1
        /\ i.status <= i.conf.up \/ i.status = 1
    BY DEF Held, Item
  <1>2. i.conf.up \in Nat /\ i.conf.down \in Int /\ i.status \in Int
    BY <1>1 DEF Config
  <1>3. /\ n \in Int
        /\ -Abs(i.conf.down) <= n \/ n = -1
        /\ n <= i.conf.up \/ n = 1
    BY SMT, <1>1, <1>2 DEF Abs
  <1>4. [statusDown(i) EXCEPT !.due = FALSE] = [[i EXCEPT !.status = n] EXCEPT !.due = FALSE]
    BY DEF statusDown
  <1> HIDE DEF n
  <1>5. LET j == [[i EXCEPT !.status = n] EXCEPT !.due = FALSE]
        IN  /\ j \in [conf: Config, status: Int, due: BOOLEAN]
            /\ j.conf = i.conf /\ j.status = n
    BY <1>1, <1>3
  <1>6. [[i EXCEPT !.status = n] EXCEPT !.due = FALSE] \in Item
    BY <1>3, <1>5 DEF Item
  <1> QED
    BY <1>4, <1>5, <1>6 DEF n

\* A new item of Transfer.
LEMMA FreshItem ==
    ASSUME NEW c \in Configs
    PROVE  [conf |-> c, status |-> 0, due |-> TRUE] \in Item
  BY SMT, ConfigAssumption DEF Item, Config, Abs
-----------------------------------------------------------------------------
\* What the steps do to the item and its copies: Transfer replaces the item, the
\* key expires, time passes, Start queues a copy, a worker takes it, and stores
\* it with its result.
Replaced ==
    /\ tpc = "store" /\ item' = [conf |-> newConf, status |-> 0, due |-> TRUE]
    /\ UNCHANGED <<queue, job, streak>>
Expired == item' = Nil /\ UNCHANGED <<queue, job, streak>>
Due == item # Nil /\ item' = [item EXCEPT !.due = TRUE] /\ UNCHANGED <<queue, job, streak>>
Queued ==
    /\ item # Nil /\ Len(queue) < MaxPending /\ (Overlap \/ ~Outstanding)
    /\ queue' = Append(queue, loadItem)
    /\ UNCHANGED <<item, job, streak>>
Taken(w) ==
    /\ job[w] = Nil /\ queue # <<>>
    /\ job' = [job EXCEPT ![w] = Head(queue)] /\ queue' = Tail(queue)
    /\ UNCHANGED <<item, streak>>
Checked(w, ok) ==
    /\ job[w] # Nil /\ job' = [job EXCEPT ![w] = Nil] /\ UNCHANGED queue
    /\ \/ /\ item' = [(IF ok THEN statusUp(job[w]) ELSE statusDown(job[w])) EXCEPT !.due = FALSE]
          /\ streak' = Extended(ok)
       \/ UNCHANGED <<item, streak>>
Quiet == UNCHANGED <<item, queue, job, streak>>

\* Every step is one of these.
LEMMA Shapes ==
    ASSUME [Next]_vars
    PROVE  \/ Quiet \/ Replaced \/ Expired \/ Due \/ Queued
           \/ \E w \in Workers : Taken(w) \/ \E ok \in Outcomes : Checked(w, ok)
  <1>1. CASE \/ WriteRecord \/ TransferRecord \/ TransferLoad \/ TransferExpire \/ TransferQuit
             \/ StartKeys \/ StartQuit \/ CacheExpires \/ ShutDown
    BY <1>1 DEF WriteRecord, TransferRecord, TransferLoad, TransferExpire, TransferQuit, StartKeys,
                StartQuit, CacheExpires, ShutDown, Quiet, redis, pool
  <1>2. CASE \E r \in Readers : GetStatusMiss(r) \/ GetStatusSet(r)
    BY <1>2 DEF GetStatusMiss, GetStatusSet, Quiet, redis, pool
  <1>3. CASE TransferStore
    BY <1>3 DEF TransferStore, TransferStoreIf, storeItem, Replaced, Quiet, redis, pool
  <1>4. CASE KeyExpires \/ CheckIsDue
    BY <1>4 DEF KeyExpires, CheckIsDue, Expired, Due, redis, pool
  <1>5. CASE StartTick
    BY <1>5 DEF StartTick, Queued, Quiet, redis
  <1>6. ASSUME NEW w \in Workers, Take(w)
        PROVE  Taken(w)
    BY <1>6 DEF Take, Taken, redis
  <1>7. ASSUME NEW w \in Workers, NEW ok \in Outcomes, HandleHealthCheck(w, ok)
        PROVE  Checked(w, ok)
    BY <1>7 DEF HandleHealthCheck, CheckWith, Checked, storeItem, redis
  <1>8. CASE UNCHANGED vars
    BY <1>8 DEF vars, Quiet, redis, pool
  <1> QED
    BY <1>1, <1>2, <1>3, <1>4, <1>5, <1>6, <1>7, <1>8 DEF Next, Transfer, Start, Check
-----------------------------------------------------------------------------
\* Types of the item, its copies and the history.
Items ==
    /\ item \in Item \cup {Nil}
    /\ queue \in Seq(Item) /\ Len(queue) <= MaxPending
    /\ job \in [Workers -> Item \cup {Nil}]
    /\ streak \in -MaxStreak .. MaxStreak

\* The queue after Start has queued a copy (StartTick).
LEMMA QueueAppend ==
    ASSUME Items, NEW i \in Item
    PROVE  /\ Append(queue, i) \in Seq(Item) /\ Len(Append(queue, i)) = Len(queue) + 1
           /\ Append(queue, i)[Len(queue) + 1] = i
           /\ \A k \in 1 .. Len(queue) : Append(queue, i)[k] = queue[k]
  BY SMT, AppendProperties DEF Items

\* The queue after a worker has taken the first copy (Take).
LEMMA QueueTail ==
    ASSUME Items, queue # <<>>
    PROVE  /\ Len(queue) \in Nat /\ Len(queue) >= 1 /\ Head(queue) = queue[1]
           /\ Tail(queue) \in Seq(Item) /\ Len(Tail(queue)) = Len(queue) - 1
           /\ \A k \in 1 .. Len(Tail(queue)) : Tail(queue)[k] = queue[k + 1]
  BY SMT, HeadTailProperties, EmptySeq DEF Items

\* A worker's result is an item again (HandleHealthCheck).
LEMMA ResultIsItem ==
    ASSUME NEW i, Held(i), NEW ok \in BOOLEAN
    PROVE  [(IF ok THEN statusUp(i) ELSE statusDown(i)) EXCEPT !.due = FALSE] \in Item
  <1>1. CASE ok = TRUE
    BY <1>1, UpKeeps
  <1>2. CASE ok = FALSE
    BY <1>2, DownKeeps
  <1> QED
    BY <1>1, <1>2

\* Extended counts within its bound.
LEMMA ExtendedBounds ==
    ASSUME streak \in -MaxStreak .. MaxStreak, NEW ok \in BOOLEAN
    PROVE  Extended(ok) \in -MaxStreak .. MaxStreak
  BY SMT, BoundAssumption DEF Extended

\* Every step keeps the types of the item and its copies, and that the copies
\* have a down_count that is not positive.
LEMMA StepItems ==
    ASSUME Items, Copies, Carried, [Next]_vars
    PROVE  Items' /\ Copies'
  <1>0. Nil \notin Item /\ Outcomes \subseteq BOOLEAN
    BY ItemIsNotNil, SwitchAssumption
  <1>1. CASE Quiet
    BY <1>1 DEF Quiet, Items, Copies
  <1>2. CASE Replaced
    <2>1. item' \in Item
      BY <1>2, FreshItem DEF Replaced, Carried
    <2> QED
      BY <1>2, <2>1 DEF Replaced, Items, Copies
  <1>3. CASE Expired
    BY <1>3 DEF Expired, Items, Copies
  <1>4. CASE Due
    <2>1. item \in Item
      BY <1>4 DEF Due, Items
    <2>2. [item EXCEPT !.due = TRUE] \in Item
      BY <2>1 DEF Item
    <2> QED
      BY <1>4, <2>2 DEF Due, Items, Copies
  <1>5. CASE Queued
    <2>1. item \in Item
      BY <1>5 DEF Queued, Items
    <2>2. Held(loadItem)
      BY <1>5, <2>1, LoadKeeps DEF Queued, loadItem
    <2>3. PICK i \in Item : i = loadItem
      BY <2>2 DEF Held
    <2>4. /\ queue' \in Seq(Item) /\ Len(queue') = Len(queue) + 1
          /\ queue'[Len(queue) + 1] = i
          /\ \A k \in 1 .. Len(queue) : queue'[k] = queue[k]
      BY <1>5, <2>3, QueueAppend DEF Queued
    <2>5. Len(queue) \in Nat
      BY SMT DEF Items
    <2>6. Len(queue') <= MaxPending
      BY SMT, <1>5, <2>4, <2>5, BoundAssumption DEF Queued
    <2>7. \A k \in 1 .. Len(queue') : Held(queue'[k])
      <3>1. \A k \in 1 .. Len(queue') : k \in 1 .. Len(queue) \/ k = Len(queue) + 1
        BY SMT, <2>4, <2>5
      <3> QED
        BY <2>2, <2>3, <2>4, <3>1 DEF Copies
    <2> QED
      BY <1>5, <2>4, <2>6, <2>7 DEF Queued, Items, Copies
  <1>6. ASSUME NEW w \in Workers, Taken(w)
        PROVE  Items' /\ Copies'
    <2>1. /\ Len(queue) \in Nat /\ Len(queue) >= 1 /\ Head(queue) = queue[1]
          /\ queue' \in Seq(Item) /\ Len(queue') = Len(queue) - 1
          /\ \A k \in 1 .. Len(queue') : queue'[k] = queue[k + 1]
      BY <1>6, QueueTail DEF Taken
    <2>2. Held(Head(queue))
      BY SMT, <2>1 DEF Copies
    <2>3. \A k \in 1 .. Len(queue') : Held(queue'[k])
      <3>1. \A k \in 1 .. Len(queue') : k + 1 \in 1 .. Len(queue)
        BY SMT, <2>1
      <3> QED
        BY <2>1, <3>1 DEF Copies
    <2>4. Len(queue') <= MaxPending
      BY SMT, <2>1, BoundAssumption DEF Items
    <2>5. /\ job' \in [Workers -> Item \cup {Nil}]
          /\ job'[w] = Head(queue) /\ \A v \in Workers \ {w} : job'[v] = job[v]
      BY <1>6, <2>2 DEF Taken, Items, Held
    <2> QED
      BY <1>6, <2>1, <2>2, <2>3, <2>4, <2>5 DEF Taken, Items, Copies
  <1>7. ASSUME NEW w \in Workers, NEW ok \in Outcomes, Checked(w, ok)
        PROVE  Items' /\ Copies'
    <2>1. Held(job[w]) /\ ok \in BOOLEAN
      BY <1>0, <1>7 DEF Checked, Copies
    <2>2. item' \in Item \cup {Nil}
      BY <1>7, <2>1, ResultIsItem DEF Checked, Items
    <2>3. streak' \in -MaxStreak .. MaxStreak
      BY <1>7, <2>1, ExtendedBounds DEF Checked, Items
    <2>4. /\ job' \in [Workers -> Item \cup {Nil}]
          /\ job'[w] = Nil /\ \A v \in Workers \ {w} : job'[v] = job[v]
      BY <1>7 DEF Checked, Items
    <2> QED
      BY <1>7, <2>2, <2>3, <2>4 DEF Checked, Items, Copies
  <1> QED
    BY <1>1, <1>2, <1>3, <1>4, <1>5, <1>6, <1>7, Shapes
-----------------------------------------------------------------------------
\* The variables of Transfer, of Start, and of the readers.
Transfers ==
    /\ record \in Configs \cup {Off, NoRecord} /\ writes \in 0 .. MaxWrites
    /\ tpc \in {"record", "load", "store", "expire", "done"}
    /\ newConf \in Configs \cup {Nil} /\ oldItem \in Item \cup {Nil}
    /\ Carried
Starts == spc \in {"keys", "wait", "done"}
Reads == cached \in Int \cup {Nil} /\ fetched \in [Readers -> Int \cup {Nil}]
Flags == ttl \in BOOLEAN /\ listed \in BOOLEAN /\ quit \in BOOLEAN

\* Only the record's owner and Transfer change Transfer's variables.
LEMMA StepTransfers ==
    ASSUME Transfers, Items, [Next]_vars
    PROVE  Transfers'
  <1>1. CASE WriteRecord
    BY SMT, <1>1, BoundAssumption DEF WriteRecord, Transfers, Carried, transfer
  <1>2. CASE TransferQuit \/ TransferRecord
    BY <1>2 DEF TransferQuit, TransferRecord, Transfers, Carried
  <1>3. CASE TransferLoad
    <2>1. loadItem \in Item \cup {Nil}
      BY LoadKeeps DEF loadItem, Items, Held
    <2> QED
      BY <1>3, <2>1 DEF TransferLoad, Transfers, Carried
  <1>4. CASE TransferStore \/ TransferExpire
    BY <1>4 DEF TransferStore, TransferStoreIf, TransferExpire, Transfers, Carried
  <1>5. CASE UNCHANGED <<record, writes, transfer>>
    BY <1>5 DEF Transfers, Carried, transfer
  <1>6. CASE \/ KeyExpires \/ CheckIsDue \/ StartKeys \/ StartTick \/ StartQuit \/ CacheExpires \/ ShutDown
             \/ UNCHANGED vars
    BY <1>5, <1>6 DEF KeyExpires, CheckIsDue, StartKeys, StartTick, StartQuit, CacheExpires,
                ShutDown, vars
  <1>7. CASE \/ \E w \in Workers : Check(w)
             \/ \E r \in Readers : GetStatusMiss(r) \/ GetStatusSet(r)
    BY <1>5, <1>7 DEF Check, Take, HandleHealthCheck, CheckWith, GetStatusMiss, GetStatusSet
  <1> QED
    BY <1>1, <1>2, <1>3, <1>4, <1>6, <1>7 DEF Next, Transfer, Start

\* Start goes from listing to waiting and back, until it quits.
LEMMA StepStarts ==
    ASSUME Starts, [Next]_vars
    PROVE  Starts'
  BY DEF Starts, Next, vars, WriteRecord, KeyExpires, CheckIsDue, Transfer, TransferRecord, TransferLoad,
         TransferStore, TransferStoreIf, TransferExpire, TransferQuit, Start, StartKeys, StartTick, StartQuit,
         Check, Take, HandleHealthCheck, CheckWith, GetStatusMiss, GetStatusSet, CacheExpires,
         ShutDown, start

\* Readers fetch and cache statuses (getStatus).
LEMMA StepReads ==
    ASSUME Reads, Items, [Next]_vars
    PROVE  Reads'
  <1>1. ASSUME NEW r \in Readers, GetStatusMiss(r)
        PROVE  Reads'
    <2>1. item # Nil => item.status \in Int
      BY DEF Items, Item
    <2> QED
      BY SMT, <1>1, <2>1 DEF GetStatusMiss, Reads
  <1>2. ASSUME NEW r \in Readers, GetStatusSet(r)
        PROVE  Reads'
    BY <1>2 DEF GetStatusSet, Reads
  <1>3. CASE CacheExpires
    BY <1>3 DEF CacheExpires, Reads
  <1>4. CASE UNCHANGED requests
    BY <1>4 DEF Reads, requests
  <1>5. CASE \/ WriteRecord \/ KeyExpires \/ CheckIsDue \/ Transfer \/ TransferQuit \/ Start \/ StartQuit
             \/ ShutDown \/ (\E w \in Workers : Check(w)) \/ UNCHANGED vars
    BY <1>4, <1>5 DEF WriteRecord, KeyExpires, CheckIsDue, Transfer, TransferRecord, TransferLoad,
         TransferStore, TransferStoreIf, TransferExpire, TransferQuit, Start, StartKeys, StartTick, StartQuit,
         Check, Take, HandleHealthCheck, CheckWith, ShutDown, vars
  <1> QED
    BY <1>1, <1>2, <1>3, <1>5 DEF Next

\* Nothing but truth values is assigned to the flags.
LEMMA StepFlags ==
    ASSUME Flags, [Next]_vars
    PROVE  Flags'
  BY DEF Flags, Next, vars, WriteRecord, KeyExpires, CheckIsDue, Transfer, TransferRecord, TransferLoad,
         TransferStore, TransferStoreIf, TransferExpire, TransferQuit, Start, StartKeys, StartTick, StartQuit,
         Check, Take, HandleHealthCheck, CheckWith, GetStatusMiss, GetStatusSet, CacheExpires,
         ShutDown, start, redis, storeItem
-----------------------------------------------------------------------------
\* The inductive invariant for the types.
TInv == Transfers /\ Starts /\ Reads /\ Flags /\ Items /\ Copies

\* It holds of a health checker that has just been started.
LEMMA InitTInv == Init => TInv
  <1> SUFFICES ASSUME Init
               PROVE  TInv
    OBVIOUS
  <1>1. Transfers /\ Starts /\ Reads
    BY SMT, BoundAssumption DEF Init, Transfers, Carried, Starts, Reads
  <1>2. Flags
    BY DEF Init, Flags
  <1>3. queue \in Seq(Item) /\ Len(queue) = 0
    BY SMT DEF Init
  <1>4. Items
    BY SMT, <1>3, BoundAssumption DEF Init, Items
  <1>5. Copies
    BY SMT, <1>3 DEF Init, Copies
  <1> QED
    BY <1>1, <1>2, <1>4, <1>5 DEF TInv

\* The invariant of the types of Transfer, Start, the workers and the readers.
THEOREM Invariance == Spec => []TInv
  <1>1. TInv /\ [Next]_vars => TInv'
    BY StepTransfers, StepStarts, StepReads, StepFlags, StepItems DEF TInv, Transfers
  <1> QED
    BY <1>1, InitTInv, PTL DEF Spec

\* TypeOK: no copy of an item, in redis, in the queue or with a worker, has a
\* status beyond its own counts, although configurations change under the checks.
THEOREM TypeCorrect == Spec => []TypeOK
  <1>1. TInv => TypeOK
    BY DEF TInv, TypeOK, Transfers, Starts, Reads, Flags, Items
  <1> QED
    BY <1>1, Invariance, PTL
-----------------------------------------------------------------------------
\* The counts are within the bound of the history variable.
Small(i) == i.conf.up <= MaxStreak /\ Abs(i.conf.down) <= MaxStreak

\* A status that the stored results bear out.
Earned(i) ==
    /\ i.status > 0 => streak >= i.status
    /\ i.status < 0 => streak <= i.status

\* At most one check is outstanding.
One ==
    /\ Len(queue) <= 1
    /\ queue # <<>> => \A w \in Workers : job[w] = Nil
    /\ \A v, w \in Workers : job[v] # Nil /\ job[w] # Nil => v = w

\* The item and all its copies are earned: a worker stores a copy that was taken
\* before other results came in, so the item's own status is not enough.
EInv ==
    /\ item # Nil => Small(item) /\ Earned(item)
    /\ \A k \in 1 .. Len(queue) : Small(queue[k]) /\ Earned(queue[k])
    /\ \A w \in Workers : job[w] # Nil => Small(job[w]) /\ Earned(job[w])
    /\ One

\* A worker that counts on from an earned copy stores an earned item
\* (HandleHealthCheck, statusUp, statusDown).
LEMMA ResultIsEarned ==
    ASSUME Items, NEW i, Held(i), Small(i), Earned(i), NEW ok \in BOOLEAN,
           streak' = Extended(ok),
           NEW j, j = [(IF ok THEN statusUp(i) ELSE statusDown(i)) EXCEPT !.due = FALSE]
    PROVE  /\ Small(j)
           /\ j.status > 0 => streak' >= j.status
           /\ j.status < 0 => streak' <= j.status
  <1>1. /\ i.conf.up \in Nat /\ i.conf.down \in Int /\ i.status \in Int /\ i.conf.down <= 0
        /\ streak \in Int /\ -MaxStreak <= streak /\ streak <= MaxStreak /\ MaxStreak \in Nat
        /\ i.conf.up <= MaxStreak /\ -MaxStreak <= i.conf.down
    BY SMTT(30), BoundAssumption DEF Held, Item, Config, Items, Small, Abs
  <1>2. CASE ok = TRUE
    <2>1. /\ j.conf = i.conf
          /\ j.status = IF i.status < 0 THEN 1
                        ELSE IF i.status < i.conf.up THEN i.status + 1 ELSE i.conf.up
      BY <1>2, UpKeeps
    <2>2. streak' = IF streak < 0 THEN 1 ELSE IF streak < MaxStreak THEN streak + 1 ELSE streak
      BY <1>2 DEF Extended
    <2> QED
      BY SMT, <1>1, <2>1, <2>2 DEF Small, Earned
  <1>3. CASE ok = FALSE
    <2>1. /\ j.conf = i.conf
          /\ j.status = IF i.status > 0 THEN -1
                        ELSE IF i.status > i.conf.down THEN i.status - 1 ELSE i.conf.down
      BY <1>3, DownKeeps
    <2>2. streak' = IF streak > 0 THEN -1 ELSE IF streak > -MaxStreak THEN streak - 1 ELSE streak
      BY <1>3 DEF Extended
    <2> QED
      BY SMT, <1>1, <2>1, <2>2 DEF Small, Earned
  <1> QED
    BY <1>2, <1>3

\* Every step keeps the copies earned: only a worker's result changes the streak,
\* and then no other copy is under way.
LEMMA StepEInv ==
    ASSUME ~Overlap, \A c \in Configs : c.up <= MaxStreak /\ Abs(c.down) <= MaxStreak,
           TInv, EInv, [Next]_vars
    PROVE  EInv'
  <1>0. /\ Items /\ Copies /\ Carried /\ Nil \notin Item /\ Outcomes \subseteq BOOLEAN
        /\ Len(queue) \in Nat
    BY SMT, ItemIsNotNil, SwitchAssumption DEF TInv, Transfers, Items
  <1>1. CASE Quiet
    BY <1>1 DEF Quiet, EInv, Earned, One
  <1>2. CASE Replaced
    <2>1. item'.status = 0 /\ item'.conf = newConf /\ newConf \in Configs
      BY <1>0, <1>2 DEF Replaced, Carried
    <2>2. Small(item)' /\ Earned(item)'
      BY SMT, <2>1 DEF Small, Earned
    <2> QED
      BY <1>2, <2>2 DEF Replaced, EInv, Earned, One
  <1>3. CASE Expired
    BY <1>3 DEF Expired, EInv, Earned, One
  <1>4. CASE Due
    <2>1. item \in Item
      BY <1>0, <1>4 DEF Due, Items
    <2>2. item'.status = item.status /\ item'.conf = item.conf
      BY <1>4, <2>1 DEF Due, Item
    <2> QED
      BY <1>4, <2>2 DEF Due, EInv, Small, Earned, One
  <1>5. CASE Queued
    <2>1. item \in Item
      BY <1>0, <1>5 DEF Queued, Items
    <2>2. PICK i \in Item : /\ i = loadItem /\ i.status = item.status /\ i.conf.up = item.conf.up
                            /\ i.conf.down = -Abs(item.conf.down)
      BY <1>5, <2>1, LoadKeeps DEF Queued, loadItem, Held
    <2>3. Small(i) /\ Earned(i)
      <3>1. item.conf.down \in Int
        BY <2>1 DEF Item, Config
      <3> QED
        BY SMT, <1>5, <2>2, <3>1 DEF Queued, EInv, Small, Earned, Abs
    <2>4. queue = <<>> /\ \A w \in Workers : job[w] = Nil
      BY <1>5 DEF Queued, Outstanding
    <2>5. Len(queue') = 1 /\ queue'[1] = i
      <3>1. Len(queue) = 0
        BY <2>4
      <3> QED
        BY SMT, <1>0, <1>5, <2>2, <3>1, QueueAppend DEF Queued
    <2>6. UNCHANGED <<item, job, streak>>
      BY <1>5 DEF Queued
    <2>7. \A k \in 1 .. Len(queue') : Small(queue'[k]) /\ Earned(queue[k])'
      BY SMT, <2>3, <2>5, <2>6 DEF Small, Earned
    <2> QED
      BY SMT, <2>4, <2>5, <2>6, <2>7 DEF EInv, Small, Earned, One
  <1>6. ASSUME NEW w \in Workers, Taken(w)
        PROVE  EInv'
    <2>1. /\ Head(queue) = queue[1] /\ Len(queue) = 1
          /\ queue' \in Seq(Item) /\ Len(queue') = 0
      BY SMT, <1>0, <1>6, QueueTail DEF Taken, EInv, One
    <2>2. /\ job'[w] = queue[1] /\ \A v \in Workers \ {w} : job'[v] = Nil
      BY <1>0, <1>6, <2>1 DEF Taken, Items, EInv, One
    <2>3. Small(queue[1]) /\ Earned(queue[1]) /\ UNCHANGED <<item, streak>>
      BY SMT, <1>6, <2>1 DEF EInv, Taken
    <2>4. queue' = <<>>
      BY <2>1, EmptySeq
    <2> QED
      BY SMT, <2>1, <2>2, <2>3, <2>4 DEF EInv, Small, Earned, One
  <1>7. ASSUME NEW w \in Workers, NEW ok \in Outcomes, Checked(w, ok)
        PROVE  EInv'
    <2>1. Held(job[w]) /\ Small(job[w]) /\ Earned(job[w]) /\ ok \in BOOLEAN
      BY <1>0, <1>7 DEF Checked, Copies, EInv
    <2>2. \A v \in Workers : job'[v] = Nil
      BY <1>0, <1>7 DEF Checked, Items, EInv, One
    <2>3. queue = <<>> /\ queue' = queue /\ Len(queue) = 0
      BY <1>7 DEF Checked, EInv, One
    <2>4. item' # Nil => Small(item)' /\ Earned(item)'
      <3>1. CASE UNCHANGED <<item, streak>>
        BY <3>1 DEF EInv, Small, Earned
      <3>2. CASE /\ item' = [(IF ok THEN statusUp(job[w]) ELSE statusDown(job[w])) EXCEPT !.due = FALSE]
                 /\ streak' = Extended(ok)
        <4>1. PICK j : j = item'
          OBVIOUS
        <4>2. Small(j) /\ (j.status > 0 => streak' >= j.status) /\ (j.status < 0 => streak' <= j.status)
          BY <1>0, <2>1, <3>2, <4>1, ResultIsEarned
        <4> QED
          BY <4>1, <4>2 DEF Small, Earned
      <3> QED
        BY <1>7, <3>1, <3>2 DEF Checked
    <2> QED
      BY SMT, <2>2, <2>3, <2>4 DEF EInv, One
  <1> QED
    BY <1>1, <1>2, <1>3, <1>4, <1>5, <1>6, <1>7, Shapes

\* StatusIsEarned: a status n says that the last |n| stored results agree, for any
\* number of workers and whatever Transfer, an expiry and a failing redis do, if a
\* check is over before the next one is due.
THEOREM StatusIsEarnedHolds ==
    ASSUME ~Overlap, \A c \in Configs : c.up <= MaxStreak /\ Abs(c.down) <= MaxStreak
    PROVE  Spec => []StatusIsEarned
  <1>1. Init => EInv
    <2> SUFFICES ASSUME Init
                 PROVE  EInv
      OBVIOUS
    <2>1. item = Nil /\ queue = <<>> /\ Len(queue) = 0 /\ \A w \in Workers : job[w] = Nil
      BY DEF Init
    <2> QED
      BY SMT, <2>1 DEF EInv, One
  <1>2. TInv /\ EInv /\ [Next]_vars => EInv'
    BY StepEInv
  <1>3. EInv => StatusIsEarned
    BY DEF EInv, Earned, StatusIsEarned
  <1> QED
    BY <1>1, <1>2, <1>3, Invariance, PTL DEF Spec
=============================================================================
