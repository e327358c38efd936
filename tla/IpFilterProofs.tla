--------------------------- MODULE IpFilterProofs ---------------------------
(***************************************************************************)
(* Proofs about IpFilter, for any number of addresses, any thresholds, and *)
(* any answers of getStatus: what FilterHealthcheck keeps and drops, that  *)
(* the geo filters bring nothing back, that they select what the README    *)
(* says, and that OrderIps shares the first place as the order asks.       *)
(***************************************************************************)
EXTENDS IpFilter, SequenceTheorems, FiniteSetTheorems, WellFoundedInduction, TLAPS

\* A leaf goes to Zenon unless it names SMT, for arithmetic and for records and
\* functions given by their values, or PTL, for the temporal steps.
USE ZenonT(60)

\* The loop variables, and the mask behind and ahead of the second loop.
Loops ==
    /\ pc \in {"max", "mask", "geo", "order", "done", "panic"}
    /\ i \in Nat \ {0} /\ min \in Int
    /\ mask \in Mask /\ healthy \in Mask
    /\ first \in Seq(Int) /\ second \in Seq(Int)
    /\ pc = "max" => /\ Len(first) = i - 1 /\ i <= N + 1 /\ second = <<>>
                     /\ \A k \in Ips : mask[k] = White
    /\ pc = "mask" => /\ Len(first) = N /\ Len(second) = i - 1 /\ i <= N + 1
                      /\ \A k \in Ips : IF k < i THEN mask[k] = IF second[k] >= min THEN White ELSE Black
                                        ELSE mask[k] = White

\* min in the first loop: the best status so far, or down_count.
Best ==
    pc = "max" =>
        /\ DownCount <= min
        /\ \A k \in Ips : k < i => first[k] <= min
        /\ min = DownCount \/ \E k \in Ips : k < i /\ min = first[k]

\* min in the second loop: nothing above the best status, and above down_count
\* if any address was.
Least ==
    pc = "mask" =>
        /\ \A k \in Ips : (\A j \in Ips : first[j] <= first[k]) /\ DownCount <= first[k] => min <= first[k]
        /\ \A k \in Ips : first[k] > DownCount => min > DownCount

\* What is not black now was white after the health check.
Revived ==
    /\ pc = "geo" => \A k \in Ips : healthy[k] = mask[k] /\ mask[k] # Grey
    /\ pc \in {"order", "done"} => \A k \in Ips : mask[k] # Black => healthy[k] = White

IInv == Loops /\ Best /\ Least /\ Revived
-----------------------------------------------------------------------------
\* Appending, position by position.
LEMMA Appended ==
    ASSUME NEW s \in Seq(Int), NEW e \in Int
    PROVE  /\ Append(s, e) \in Seq(Int) /\ Len(Append(s, e)) = Len(s) + 1
           /\ Append(s, e)[Len(s) + 1] = e
           /\ \A k \in 1 .. Len(s) : Append(s, e)[k] = s[k]
  BY SMT, AppendProperties

\* Same (getSameCountry, getSameASN) returns a mask, and whitens or greys nothing black.
LEMMA SameKeeps ==
    ASSUME NEW source, NEW lists, NEW m \in Mask
    PROVE  /\ Same(source, lists, m) \in Mask
           /\ \A k \in Ips : Same(source, lists, m)[k] # Black => m[k] # Black
  <1> DEFINE marked == IF source = Unknown THEN m
                       ELSE [k \in Ips |-> IF m[k] # White THEN Black
                                           ELSE IF source \in lists[k] THEN White ELSE Grey]
  <1> DEFINE last == [k \in Ips |-> IF marked[k] # Black /\ (lists[k] = {} \/ Unknown \in lists[k])
                                    THEN White ELSE Black]
  <1>1. marked \in Mask /\ \A k \in Ips : marked[k] # Black => m[k] # Black
    BY SMT DEF Mask, White, Grey, Black
  <1>2. last \in Mask /\ \A k \in Ips : last[k] # Black => marked[k] # Black
    BY DEF Mask, White, Black
  <1>3. Same(source, lists, m) \in {marked, last}
    BY DEF Same
  <1> QED
    BY <1>1, <1>2, <1>3

\* GetMinimumDistance as well.
LEMMA DistanceKeeps ==
    ASSUME NEW g, NEW m \in Mask
    PROVE  /\ GetMinimumDistance(g, m) \in Mask
           /\ \A k \in Ips : GetMinimumDistance(g, m)[k] # Black => m[k] # Black
  BY SMT DEF GetMinimumDistance, Mask, White, Grey, Black

\* The geo filter that GeoFilter applies, whichever it is.
LEMMA GeoKeeps ==
    ASSUME Loops, GeoFilter
    PROVE  /\ mask' \in Mask /\ pc' \in {"order", "panic"}
           /\ \A k \in Ips : mask'[k] # Black => mask[k] # Black
  <1>0. mask \in Mask
    BY DEF Loops
  <1>1. PICK g \in Geos :
           /\ pc' \in {"order", "panic"}
           /\ mask' \in {mask, GetSameASN(g, mask), GetSameCountry(g, mask),
                         GetSameCountry(g, GetSameASN(g, mask)), GetMinimumDistance(g, mask)}
    BY DEF GeoFilter
  <1>2. \A m \in Mask : /\ GetSameASN(g, m) \in Mask
                        /\ \A k \in Ips : GetSameASN(g, m)[k] # Black => m[k] # Black
    BY SameKeeps DEF GetSameASN
  <1>3. \A m \in Mask : /\ GetSameCountry(g, m) \in Mask
                        /\ \A k \in Ips : GetSameCountry(g, m)[k] # Black => m[k] # Black
    BY SameKeeps DEF GetSameCountry
  <1>4. /\ GetMinimumDistance(g, mask) \in Mask
        /\ \A k \in Ips : GetMinimumDistance(g, mask)[k] # Black => mask[k] # Black
    BY <1>0, DistanceKeeps
  <1> QED
    BY <1>0, <1>1, <1>2, <1>3, <1>4
-----------------------------------------------------------------------------
\* The first loop (FilterHealthcheckMax).
LEMMA StepMax ==
    ASSUME IInv, FilterHealthcheckMax
    PROVE  IInv'
  <1>0. N \in Nat /\ DownCount \in Int /\ Statuses \subseteq Int
    BY CountAssumption
  <1>1. PICK status \in Statuses :
           /\ first' = Append(first, status)
           /\ min' = IF mask[i] = White /\ status > min THEN status ELSE min
    BY DEF FilterHealthcheckMax
  <1>2. /\ pc = "max" /\ i <= N /\ i' = i + 1
        /\ UNCHANGED <<pc, mask, second, healthy>>
    BY DEF FilterHealthcheckMax
  <1>3. /\ i \in Nat \ {0} /\ min \in Int /\ mask \in Mask /\ healthy \in Mask
        /\ first \in Seq(Int) /\ Len(first) = i - 1 /\ second = <<>>
        /\ \A k \in Ips : mask[k] = White
    BY <1>2 DEF IInv, Loops
  <1>4. status \in Int /\ i \in Ips
    BY SMT, <1>0, <1>2, <1>3 DEF Ips
  <1>5. min' = IF status > min THEN status ELSE min
    BY <1>1, <1>3, <1>4
  <1>6. /\ first' \in Seq(Int) /\ Len(first') = i /\ first'[i] = status
        /\ \A k \in Ips : k < i => first'[k] = first[k]
    <2>1. Len(first) + 1 = i /\ \A k \in Ips : k < i => k \in 1 .. Len(first)
      BY SMT, <1>0, <1>3 DEF Ips
    <2> QED
      BY <1>1, <1>3, <1>4, <2>1, Appended
  <1>7. Loops'
    <2>1. i' \in Nat \ {0} /\ min' \in Int /\ Len(first') = i' - 1 /\ i' <= N + 1
      BY SMT, <1>0, <1>2, <1>3, <1>4, <1>5, <1>6
    <2>2. second' \in Seq(Int)
      BY <1>2 DEF IInv, Loops
    <2> QED
      BY <1>2, <1>3, <1>6, <2>1, <2>2 DEF Loops
  <1>8. Best'
    <2>1. /\ DownCount <= min
          /\ \A k \in Ips : k < i => first[k] <= min
          /\ min = DownCount \/ \E k \in Ips : k < i /\ min = first[k]
      BY <1>2 DEF IInv, Best
    <2>2. \A k \in Ips : k \in Int /\ (k < i => k \in 1 .. Len(first))
      BY SMT, <1>0, <1>3 DEF Ips
    <2>3. \A k \in Ips : k < i => first[k] \in Int
      BY <1>3, <2>2, ElementOfSeq
    <2>4. DownCount <= min' /\ min <= min' /\ status <= min'
      BY SMT, <1>0, <1>3, <1>4, <1>5, <2>1
    <2>5. min' \in Int
      BY <1>3, <1>4, <1>5
    <2>6. ASSUME NEW k \in Ips, k < i + 1
          PROVE  first'[k] <= min'
      <3>1. CASE k = i
        BY <1>6, <2>4, <3>1
      <3>2. CASE k # i
        <4>1. k < i
          BY SMT, <1>3, <2>2, <2>6, <3>2
        <4>2. first'[k] = first[k] /\ first[k] <= min /\ first[k] \in Int
          BY <1>6, <2>1, <2>3, <4>1
        <4> QED
          BY SMT, <1>3, <2>4, <2>5, <4>2
      <3> QED
        BY <3>1, <3>2
    <2>7. min' = DownCount \/ \E k \in Ips : k < i + 1 /\ min' = first'[k]
      <3>1. CASE status > min
        <4>1. min' = first'[i] /\ i < i + 1
          BY SMT, <1>3, <1>5, <1>6, <3>1
        <4> QED
          BY <1>4, <4>1
      <3>2. CASE ~(status > min)
        <4>1. min' = min
          BY <1>5, <3>2
        <4>2. \A k \in Ips : k < i => k < i + 1
          BY SMT, <1>3, <2>2
        <4> QED
          BY <1>6, <2>1, <4>1, <4>2
      <3> QED
        BY <3>1, <3>2
    <2> QED
      BY <1>2, <2>4, <2>6, <2>7 DEF Best
  <1> QED
    BY <1>2, <1>7, <1>8 DEF IInv, Least, Revived

\* Between the loops (FilterHealthcheckMin).
LEMMA StepMin ==
    ASSUME IInv, FilterHealthcheckMin
    PROVE  IInv'
  <1>0. N \in Nat /\ DownCount \in Int /\ UpCount \in Int
    BY CountAssumption
  <1>1. /\ pc = "max" /\ pc' = "mask" /\ i > N /\ i' = 1
        /\ min' = IF min < UpCount - 1 /\ min > DownCount THEN DownCount + 1 ELSE min
        /\ UNCHANGED <<mask, first, second, healthy>>
    BY DEF FilterHealthcheckMin, LowerTo
  <1>2. /\ i \in Nat \ {0} /\ i <= N + 1 /\ min \in Int /\ first \in Seq(Int) /\ second = <<>>
        /\ Len(first) = i - 1 /\ \A k \in Ips : mask[k] = White
    BY <1>1 DEF IInv, Loops
  <1>3. i = N + 1 /\ Len(first) = N /\ \A k \in Ips : k \in Int /\ k < i /\ ~(k < 1) /\ k \in 1 .. Len(first)
    BY SMT, <1>0, <1>1, <1>2 DEF Ips
  <1>4. \A k \in Ips : first[k] \in Int
    BY <1>2, <1>3, ElementOfSeq
  <1>5. min' \in Int
    BY SMT, <1>0, <1>1, <1>2
  <1>6. Loops'
    <2>1. Len(second') = i' - 1 /\ i' <= N + 1 /\ i' \in Nat \ {0}
      BY SMT, <1>0, <1>1, <1>2, EmptySeq
    <2>2. \A k \in Ips : ~(k < i') /\ mask'[k] = White
      BY <1>1, <1>2, <1>3
    <2>3. mask' \in Mask /\ healthy' \in Mask /\ second' \in Seq(Int)
      BY <1>1 DEF IInv, Loops
    <2> QED
      BY <1>1, <1>2, <1>3, <1>5, <2>1, <2>2, <2>3 DEF Loops
  <1>7. Least'
    <2>1. /\ DownCount <= min
          /\ \A k \in Ips : first[k] <= min
          /\ min = DownCount \/ \E k \in Ips : min = first[k]
      BY <1>1, <1>3 DEF IInv, Best
    <2>2. min' <= min /\ (min > DownCount => min' > DownCount)
      BY SMT, <1>0, <1>1, <1>2, <1>5
    <2>3. ASSUME NEW k \in Ips, \A j \in Ips : first[j] <= first[k], DownCount <= first[k]
          PROVE  min' <= first[k]
      <3>1. min <= first[k]
        BY <2>1, <2>3
      <3> QED
        BY SMT, <1>2, <1>4, <1>5, <2>2, <3>1
    <2>4. ASSUME NEW k \in Ips, first[k] > DownCount
          PROVE  min' > DownCount
      <3>1. min > DownCount
        BY SMT, <1>0, <1>2, <1>4, <2>1, <2>4
      <3> QED
        BY <2>2, <3>1
    <2> QED
      BY <1>1, <2>3, <2>4 DEF Least
  <1> QED
    BY <1>1, <1>6, <1>7 DEF IInv, Best, Revived

\* The second loop (FilterHealthcheckMask).
LEMMA StepMask ==
    ASSUME IInv, FilterHealthcheckMask
    PROVE  IInv'
  <1>0. N \in Nat /\ Statuses \subseteq Int
    BY CountAssumption
  <1>1. PICK status \in Statuses :
           /\ second' = Append(second, status)
           /\ mask' = [mask EXCEPT ![i] = IF @ = White /\ ~(status < min) THEN White ELSE Black]
    BY DEF FilterHealthcheckMask, MaskFrom
  <1>2. /\ pc = "mask" /\ i <= N /\ i' = i + 1
        /\ UNCHANGED <<pc, min, first, healthy>>
    BY DEF FilterHealthcheckMask, MaskFrom
  <1>3. /\ i \in Nat \ {0} /\ min \in Int /\ mask \in Mask /\ healthy \in Mask
        /\ first \in Seq(Int) /\ Len(first) = N
        /\ second \in Seq(Int) /\ Len(second) = i - 1
    BY <1>2 DEF IInv, Loops
  <1>4. \A k \in Ips : IF k < i THEN mask[k] = IF second[k] >= min THEN White ELSE Black
                       ELSE mask[k] = White
    BY <1>2 DEF IInv, Loops
  <1>5. status \in Int /\ i \in Ips /\ \A k \in Ips : k \in Int
    BY SMT, <1>0, <1>2, <1>3 DEF Ips
  <1>6. /\ second' \in Seq(Int) /\ Len(second') = i /\ second'[i] = status
        /\ \A k \in Ips : k < i => second'[k] = second[k]
    <2>1. Len(second) + 1 = i /\ \A k \in Ips : k < i => k \in 1 .. Len(second)
      BY SMT, <1>0, <1>3 DEF Ips
    <2>2. /\ Append(second, status) \in Seq(Int)
          /\ Len(Append(second, status)) = Len(second) + 1
          /\ Append(second, status)[Len(second) + 1] = status
          /\ \A k \in 1 .. Len(second) : Append(second, status)[k] = second[k]
      BY <1>3, <1>5, Appended
    <2> QED
      BY <1>1, <2>1, <2>2
  <1>7. /\ mask' \in Mask
        /\ mask'[i] = IF mask[i] = White /\ ~(status < min) THEN White ELSE Black
        /\ \A k \in Ips \ {i} : mask'[k] = mask[k]
    BY <1>1, <1>3, <1>5 DEF Mask, White, Black
  <1>8. mask[i] = White
    BY SMT, <1>3, <1>4, <1>5
  <1>9. ASSUME NEW k \in Ips
        PROVE  IF k < i + 1 THEN mask'[k] = IF second'[k] >= min THEN White ELSE Black
               ELSE mask'[k] = White
    <2>1. CASE k = i
      <3>1. k < i + 1 /\ (second'[i] >= min <=> ~(status < min))
        BY SMT, <1>3, <1>5, <1>6, <2>1
      <3> QED
        BY <1>7, <1>8, <2>1, <3>1
    <2>2. CASE k # i
      <3>1. k < i + 1 <=> k < i
        BY SMT, <1>3, <1>5, <2>2
      <3> QED
        BY <1>4, <1>6, <1>7, <2>2, <3>1
    <2> QED
      BY <2>1, <2>2
  <1>10. Loops'
    <2>1. i' \in Nat \ {0} /\ Len(second') = i' - 1 /\ i' <= N + 1
      BY SMT, <1>0, <1>2, <1>3, <1>6
    <2> QED
      BY <1>2, <1>3, <1>6, <1>7, <1>9, <2>1 DEF Loops
  <1> QED
    BY <1>2, <1>10 DEF IInv, Best, Least, Revived

\* FilterHealthcheck returns.
LEMMA StepReturn ==
    ASSUME IInv, FilterHealthcheckReturn
    PROVE  IInv'
  <1>1. /\ pc' = "geo" /\ healthy' = mask /\ mask' = mask
        /\ i' = 1 /\ min' = DownCount /\ first' = <<>> /\ second' = <<>>
    BY DEF FilterHealthcheckReturn
  <1>2. \A k \in Ips : mask[k] # Grey
    <2>1. CASE pc = "max"
      BY SMT, <2>1 DEF IInv, Loops, White, Grey
    <2>2. CASE pc = "mask"
      BY SMT, <2>2 DEF IInv, Loops, White, Grey, Black
    <2> QED
      BY <2>1, <2>2 DEF FilterHealthcheckReturn
  <1>3. Loops'
    <2>1. mask \in Mask /\ DownCount \in Int /\ <<>> \in Seq(Int)
      BY SMT, CountAssumption DEF IInv, Loops
    <2> QED
      BY SMT, <1>1, <2>1 DEF Loops
  <1> QED
    BY <1>1, <1>2, <1>3 DEF IInv, Best, Least, Revived

\* The geo filter.
LEMMA StepGeo ==
    ASSUME IInv, GeoFilter
    PROVE  IInv'
  <1>1. pc = "geo" /\ UNCHANGED <<i, min, first, second, healthy>>
    BY DEF GeoFilter
  <1>2. /\ mask' \in Mask /\ pc' \in {"order", "panic"}
        /\ \A k \in Ips : mask'[k] # Black => mask[k] # Black
    BY GeoKeeps DEF IInv
  <1>3. Loops'
    BY <1>1, <1>2 DEF IInv, Loops
  <1>4. ASSUME NEW k \in Ips, mask'[k] # Black
        PROVE  healthy[k] = White
    <2>1. mask[k] # Black /\ mask[k] # Grey /\ healthy[k] = mask[k]
      BY <1>1, <1>2, <1>4 DEF IInv, Revived
    <2>2. mask[k] \in {White, Grey, Black}
      BY DEF IInv, Loops, Mask
    <2> QED
      BY <2>1, <2>2
  <1> QED
    BY <1>1, <1>2, <1>3, <1>4 DEF IInv, Best, Least, Revived

\* Every step keeps the invariant.
LEMMA StepIInv == IInv /\ [Next]_vars => IInv'
  <1> SUFFICES ASSUME IInv, [Next]_vars PROVE IInv'
    OBVIOUS
  <1>1. CASE FilterReturn
    <2>1. /\ pc = "order" /\ pc' = "done"
          /\ UNCHANGED <<mask, i, min, first, second, healthy>>
      BY <1>1 DEF FilterReturn
    <2> QED
      BY <2>1 DEF IInv, Loops, Best, Least, Revived
  <1>2. CASE UNCHANGED vars
    BY <1>2 DEF vars, IInv, Loops, Best, Least, Revived
  <1> QED
    BY <1>1, <1>2, StepMax, StepMin, StepMask, StepReturn, StepGeo DEF Next

\* The starting state.
LEMMA InitIInv == Init => IInv
  <1> SUFFICES ASSUME Init PROVE IInv
    OBVIOUS
  <1>0. N \in Nat /\ DownCount \in Int
    BY CountAssumption
  <1>1. Loops
    <2>1. Len(<<>>) = 0 /\ <<>> \in Seq(Int) /\ 1 <= N + 1
      BY SMT, <1>0, EmptySeq
    <2>2. mask \in Mask /\ \A k \in Ips : mask[k] = White
      BY DEF Init, Mask
    <2> QED
      BY SMT, <1>0, <2>1, <2>2 DEF Init, Loops
  <1>2. \A k \in Ips : ~(k < 1)
    BY SMT, <1>0 DEF Ips
  <1> QED
    BY SMT, <1>0, <1>1, <1>2 DEF Init, IInv, Best, Least, Revived

\* The inductive invariant of the address filter.
THEOREM Invariance == Spec => []IInv
  BY InitIInv, StepIInv, PTL DEF Spec

\* FilterHealthcheck keeps an address that was the best and became no worse.
THEOREM BestAddressIsKept == Spec => []BestIsKept
  <1>1. IInv => BestIsKept
    <2> SUFFICES ASSUME IInv, Checked, NEW k \in Ips,
                        \A j \in Ips : first[j] <= first[k],
                        DownCount <= first[k], first[k] <= second[k]
                 PROVE  mask[k] = White
      BY DEF BestIsKept
    <2>1. /\ N \in Nat /\ pc = "mask" /\ i > N /\ i \in Nat /\ min \in Int /\ i <= N + 1
          /\ first \in Seq(Int) /\ Len(first) = N /\ second \in Seq(Int) /\ Len(second) = i - 1
      BY CountAssumption DEF IInv, Loops, Checked
    <2>2. k < i /\ k \in 1 .. Len(first) /\ k \in 1 .. Len(second)
      BY SMT, <2>1 DEF Ips
    <2>3. first[k] \in Int /\ second[k] \in Int
      BY <2>1, <2>2, ElementOfSeq
    <2>4. min <= first[k]
      BY <2>1 DEF IInv, Least
    <2>5. second[k] >= min
      BY SMT, <2>1, <2>3, <2>4
    <2> QED
      BY <2>1, <2>2, <2>5 DEF IInv, Loops
  <1> QED
    BY <1>1, Invariance, PTL

\* An address that is down is not served while another is not.
THEOREM DownAddressIsNotServed == Spec => []DownIsNotServed
  <1>1. IInv => DownIsNotServed
    <2> SUFFICES ASSUME IInv, Checked, \E j \in Ips : first[j] > DownCount,
                        NEW k \in Ips, mask[k] = White
                 PROVE  second[k] > DownCount
      BY DEF DownIsNotServed
    <2>1. /\ N \in Nat /\ DownCount \in Int /\ pc = "mask" /\ i > N /\ i \in Nat /\ min \in Int
          /\ i <= N + 1 /\ second \in Seq(Int) /\ Len(second) = i - 1
      BY CountAssumption DEF IInv, Loops, Checked
    <2>2. k < i /\ k \in 1 .. Len(second)
      BY SMT, <2>1 DEF Ips
    <2>3. second[k] \in Int
      BY <2>1, <2>2, ElementOfSeq
    <2>4. min > DownCount
      BY <2>1 DEF IInv, Least
    <2>5. second[k] >= min
      BY SMT, <2>1, <2>2 DEF IInv, Loops, White, Black
    <2> QED
      BY SMT, <2>1, <2>3, <2>4, <2>5
  <1> QED
    BY <1>1, Invariance, PTL

\* No geo filter brings back what the health check took out.
THEOREM NoneIsRevived == Spec => []NoDownAddressIsRevived
  <1>1. IInv => NoDownAddressIsRevived
    BY SMT DEF IInv, Revived, NoDownAddressIsRevived, White, Black
  <1> QED
    BY <1>1, Invariance, PTL
-----------------------------------------------------------------------------
\* The white addresses are finitely many.
LEMMA WhitesFinite ==
    ASSUME NEW m
    PROVE  /\ Whites(m) \subseteq Ips /\ IsFiniteSet(Whites(m))
           /\ Cardinality(Whites(m)) \in Nat
  <1>1. IsFiniteSet(Ips)
    BY SMT, CountAssumption, FS_Interval DEF Ips
  <1>2. Whites(m) \in SUBSET Ips
    BY DEF Whites
  <1>3. IsFiniteSet(Whites(m))
    BY <1>1, <1>2, FS_Subset
  <1> QED
    BY <1>2, <1>3, FS_CardinalityType

\* GetSameCountry and GetSameASN select from the white addresses what the README
\* says, if no grey ones are left over for a client from nowhere.
LEMMA SameIsSuited ==
    ASSUME NEW source, NEW lists, NEW m \in Mask, source # Nil,
           source # Unknown \/ \A k \in Ips : m[k] # Grey
    PROVE  Whites(Same(source, lists, m)) = Suited(source, lists, Whites(m))
  <1> DEFINE marked == [k \in Ips |-> IF m[k] # White THEN Black
                                      ELSE IF source \in lists[k] THEN White ELSE Grey]
             Anywhere(f) == [k \in Ips |-> IF f[k] # Black /\ (lists[k] = {} \/ Unknown \in lists[k])
                                           THEN White ELSE Black]
             own == {k \in Whites(m) : source \in lists[k]}
             loose == {k \in Whites(m) : lists[k] = {} \/ Unknown \in lists[k]}
  <1>1. Whites(marked) = own
    BY SMT DEF Whites, White, Grey, Black
  <1>2. Whites(Anywhere(marked)) = loose
    BY SMT DEF Whites, White, Grey, Black
  <1>3. CASE source = Unknown
    <2>1. Same(source, lists, m) = Anywhere(m)
      BY <1>3 DEF Same
    <2>2. \A k \in Ips : m[k] # Black <=> m[k] = White
      BY SMT, <1>3 DEF Mask, White, Grey, Black
    <2>3. Whites(Anywhere(m)) = loose
      BY <2>2 DEF Whites, White, Black
    <2> QED
      BY <1>3, <2>1, <2>3 DEF Suited
  <1>4. CASE source # Unknown
    <2>1. Same(source, lists, m) = IF Whites(marked) # {} THEN marked ELSE Anywhere(marked)
      BY <1>4 DEF Same
    <2> HIDE DEF marked, Anywhere
    <2> QED
      BY <1>1, <1>2, <1>4, <2>1 DEF Suited
  <1> QED
    BY <1>3, <1>4

\* If every white address has an entry in dists, the white addresses come first.
LEMMA InRangeMeansFirst ==
    ASSUME NEW g, NEW m, ~OutOfRange(g, m)
    PROVE  Whites(m) = 1 .. Cardinality(Whites(m))
  <1> DEFINE c == Cardinality(Whites(m))
  <1>1. c \in Nat /\ IsFiniteSet(Whites(m))
    BY WhitesFinite
  <1>2. Whites(m) \in SUBSET (1 .. c)
    BY DEF OutOfRange, dists
  <1>3. IsFiniteSet(1 .. c) /\ Cardinality(1 .. c) = c
    BY SMT, <1>1, FS_Interval
  <1> QED
    BY <1>2, <1>3, FS_Subset

\* Then each of them is compared by its own distance.
LEMMA DistancesAreTheirs ==
    ASSUME NEW g, NEW m, NEW c \in Nat, Whites(m) = 1 .. c
    PROVE  dists(g, m) = [n \in 1 .. c |-> g.distances[n]]
  <1>1. Cardinality(Whites(m)) = c
    BY SMT, FS_Interval
  <1>2. ASSUME NEW k \in 1 .. c
        PROVE  place(k, m) = k
    <2>1. {j \in Whites(m) : j <= k} = 1 .. k
      BY SMT
    <2>2. Cardinality(1 .. k) = k
      BY SMT, FS_Interval
    <2> QED
      BY <2>1, <2>2 DEF place
  <1>3. ASSUME NEW n \in 1 .. c
        PROVE  (CHOOSE k \in Whites(m) : place(k, m) = n) = n
    BY <1>2
  <1> DEFINE at(n) == CHOOSE k \in Whites(m) : place(k, m) = n
  <1>4. dists(g, m) = [n \in 1 .. c |-> g.distances[at(n)]]
    BY <1>1 DEF dists
  <1>5. \A n \in 1 .. c : at(n) = n
    BY <1>3
  <1> HIDE DEF at
  <1> QED
    BY <1>4, <1>5

\* GetMinimumDistance selects the nearest, where it does not index out of range.
LEMMA DistanceIsNearest ==
    ASSUME NEW g, NEW m \in Mask, g.country # Nil, ~OutOfRange(g, m)
    PROVE  Whites(GetMinimumDistance(g, m)) =
               {k \in Whites(m) : \A j \in Whites(m) : g.distances[k] <= g.distances[j]}
  <1> DEFINE c == Cardinality(Whites(m))
             d == [n \in 1 .. c |-> g.distances[n]]
  <1>1. c \in Nat /\ Whites(m) = 1 .. c
    BY WhitesFinite, InRangeMeansFirst
  <1>2. dists(g, m) = d
    BY <1>1, DistancesAreTheirs
  <1>3. GetMinimumDistance(g, m) =
           [k \in Ips |-> IF m[k] # White THEN Black
                          ELSE IF \A n \in 1 .. c : d[k] <= d[n] THEN White ELSE Grey]
    BY <1>2 DEF GetMinimumDistance
  <1> HIDE DEF d, c
  <1>4. Whites(GetMinimumDistance(g, m)) = {k \in Whites(m) : \A n \in 1 .. c : d[k] <= d[n]}
    BY SMT, <1>3 DEF Whites, White, Grey, Black
  <1>5. \A k \in Whites(m) : d[k] = g.distances[k]
    BY <1>1 DEF d
  <1> QED
    BY <1>1, <1>4, <1>5

\* One of GetSameASN and GetSameCountry, from a mask without grey addresses.
LEMMA GetSameIsSuited ==
    ASSUME NEW g, NEW m \in Mask
    PROVE  /\ (\A k \in Ips : m[k] # Grey) => Whites(GetSameASN(g, m)) = Suited(g.asn, g.asns, Whites(m))
           /\ (\A k \in Ips : m[k] # Grey) \/ g.country # Unknown =>
                 Whites(GetSameCountry(g, m)) = Suited(g.country, g.countries, Whites(m))
  <1>1. ASSUME \A k \in Ips : m[k] # Grey
        PROVE  Whites(GetSameASN(g, m)) = Suited(g.asn, g.asns, Whites(m))
    <2>1. CASE g.asn = Nil
      BY <2>1 DEF GetSameASN, Suited
    <2>2. CASE g.asn # Nil
      BY <1>1, <2>2, SameIsSuited DEF GetSameASN
    <2> QED
      BY <2>1, <2>2
  <1>2. ASSUME (\A k \in Ips : m[k] # Grey) \/ g.country # Unknown
        PROVE  Whites(GetSameCountry(g, m)) = Suited(g.country, g.countries, Whites(m))
    <2>1. CASE g.country = Nil
      BY <2>1 DEF GetSameCountry, Suited
    <2>2. CASE g.country # Nil
      BY <1>2, <2>2, SameIsSuited DEF GetSameCountry
    <2> QED
      BY <2>1, <2>2
  <1> QED
    BY <1>1, <1>2

\* The switch in Filter applies to the healthy addresses what geo_filter asks for.
LEMMA StepDocumented ==
    ASSUME IInv, GeoFilter
    PROVE  GeoIsAsDocumented'
  <1> SUFFICES ASSUME pc' = "order", ~Departs(geo')
               PROVE  Whites(mask') = Documented(geo', Whites(healthy'))
    BY DEF GeoIsAsDocumented
  <1>1. PICK g \in Geos :
           /\ geo' = g
           /\ ~(g.filter = "location" /\ g.country # Nil /\ OutOfRange(g, mask))
           /\ mask' = CASE g.filter = "asn" -> GetSameASN(g, mask)
                        [] g.filter = "country" -> GetSameCountry(g, mask)
                        [] g.filter = "asn+country" -> GetSameCountry(g, GetSameASN(g, mask))
                        [] g.filter = "location" -> GetMinimumDistance(g, mask)
                        [] OTHER -> mask
    BY DEF GeoFilter
  <1>2. /\ mask \in Mask /\ healthy' = healthy
        /\ \A k \in Ips : healthy[k] = mask[k] /\ mask[k] # Grey
    BY DEF IInv, Loops, Revived, GeoFilter
  <1> DEFINE S == Whites(mask)
  <1>3. Whites(healthy') = S
    BY <1>2 DEF Whites
  <1>4. ~(g.filter = "asn+country" /\ g.country = Unknown)
    BY <1>1 DEF Departs
  <1>5. CASE g.filter = "asn"
    <2>1. mask' = GetSameASN(g, mask)
      BY <1>1, <1>5
    <2>2. Documented(g, S) = Suited(g.asn, g.asns, S)
      BY <1>5 DEF Documented
    <2> QED
      BY <1>1, <1>2, <1>3, <2>1, <2>2, GetSameIsSuited
  <1>6. CASE g.filter = "country"
    <2>1. mask' = GetSameCountry(g, mask)
      BY <1>1, <1>6
    <2>2. Documented(g, S) = Suited(g.country, g.countries, S)
      BY <1>6 DEF Documented
    <2> QED
      BY <1>1, <1>2, <1>3, <2>1, <2>2, GetSameIsSuited
  <1>7. CASE g.filter = "asn+country"
    <2>1. mask' = GetSameCountry(g, GetSameASN(g, mask))
      BY <1>1, <1>7
    <2>2. Documented(g, S) = Suited(g.country, g.countries, Suited(g.asn, g.asns, S))
      BY <1>7 DEF Documented
    <2>3. GetSameASN(g, mask) \in Mask
      BY <1>2, SameKeeps DEF GetSameASN
    <2>4. Whites(GetSameASN(g, mask)) = Suited(g.asn, g.asns, S)
      BY <1>2, GetSameIsSuited
    <2>5. Whites(mask') = Suited(g.country, g.countries, Whites(GetSameASN(g, mask)))
      BY <1>4, <1>7, <2>1, <2>3, GetSameIsSuited
    <2> QED
      BY <1>1, <1>3, <2>2, <2>4, <2>5
  <1>8. CASE g.filter = "location"
    <2>1. mask' = GetMinimumDistance(g, mask)
      BY <1>1, <1>8
    <2>2. CASE g.country = Nil
      <3>1. mask' = mask
        BY <2>1, <2>2 DEF GetMinimumDistance
      <3>2. Documented(g, S) = S
        BY <1>8, <2>2 DEF Documented
      <3> QED
        BY <1>1, <1>3, <3>1, <3>2
    <2>3. CASE g.country # Nil
      <3>1. Documented(g, S) = {k \in S : \A j \in S : g.distances[k] <= g.distances[j]}
        BY <1>8, <2>3 DEF Documented
      <3> QED
        BY SMT, <1>1, <1>2, <1>3, <1>8, <2>1, <2>3, <3>1, DistanceIsNearest
    <2> QED
      BY <2>2, <2>3
  <1>9. CASE g.filter \notin {"asn", "country", "asn+country", "location"}
    <2>1. mask' = mask
      BY <1>1, <1>9
    <2>2. Documented(g, S) = S
      BY <1>9 DEF Documented
    <2> QED
      BY <1>1, <1>3, <2>1, <2>2
  <1> QED
    BY <1>5, <1>6, <1>7, <1>8, <1>9

\* The geo filters, if they return, select from the healthy addresses what the
\* README says of geo_filter, but for a client with an isp and no country.
THEOREM GeoFilterIsAsDocumented == Spec => []GeoIsAsDocumented
  <1>1. Init => GeoIsAsDocumented
    BY DEF Init, GeoIsAsDocumented
  <1>2. IInv /\ GeoIsAsDocumented /\ [Next]_vars => GeoIsAsDocumented'
    <2> SUFFICES ASSUME IInv, GeoIsAsDocumented, [Next]_vars
                 PROVE  GeoIsAsDocumented'
      OBVIOUS
    <2>1. CASE GeoFilter
      BY <2>1, StepDocumented
    <2>2. CASE FilterHealthcheckMax \/ FilterHealthcheckMin \/ FilterHealthcheckMask
               \/ FilterHealthcheckReturn \/ FilterReturn
      <3>1. pc' # "order"
        BY <2>2 DEF FilterHealthcheckMax, FilterHealthcheckMin, LowerTo, FilterHealthcheckMask,
                    MaskFrom, FilterHealthcheckReturn, FilterReturn
      <3> QED
        BY <3>1 DEF GeoIsAsDocumented
    <2>3. CASE UNCHANGED vars
      BY <2>3 DEF vars, GeoIsAsDocumented
    <2> QED
      BY <2>1, <2>2, <2>3 DEF Next
  <1> QED
    BY <1>1, <1>2, Invariance, PTL DEF Spec
-----------------------------------------------------------------------------
\* A non-empty set of natural numbers has a least element: the loops of OrderIps
\* stop at the first address that passes their test.
LEMMA LeastOf ==
    ASSUME NEW T, T \subseteq Nat, T # {}
    PROVE  \E m \in T : \A k \in T : m <= k
  <1> DEFINE R == OpToRel(<, Nat)
  <1>1. IsWellFoundedOn(R, Nat)
    BY NatLessThanWellFounded
  <1>2. PICK x \in T : \A y \in T : ~(<<y, x>> \in R)
    <2> HIDE DEF R
    <2> QED BY <1>1, WFMin
  <1>3. \A y \in T : ~(y < x)
    <2> SUFFICES ASSUME NEW y \in T, y < x
                 PROVE  <<y, x>> \in R
      BY <1>2
    <2> QED
      BY DEF OpToRel
  <1> QED
    BY SMT, <1>3

\* Counting up from 0 reaches every natural number: what each pass of a loop
\* preserves holds after any number of passes.
LEMMA CountUp ==
    ASSUME NEW S, 0 \in S, \A n \in Nat : n \in S => n + 1 \in S
    PROVE  Nat \subseteq S
  <1> SUFFICES ASSUME Nat \ S # {}
               PROVE  FALSE
    OBVIOUS
  <1> DEFINE T == Nat \ S
  <1>1. PICK m \in T : \A k \in T : m <= k
    <2>1. T \subseteq Nat /\ T # {}
      OBVIOUS
    <2> HIDE DEF T
    <2> QED BY <2>1, LeastOf
  <1>2. m # 0
    OBVIOUS
  <1>3. m - 1 \in Nat /\ (m - 1) + 1 = m /\ ~(m <= m - 1)
    BY SMT, <1>2
  <1>4. m - 1 \notin S
    BY <1>3
  <1> QED
    BY <1>1, <1>3, <1>4

\* sums is the loop that adds up the weights.
LEMMA SumsLoop ==
    ASSUME NEW weights, NEW white
    PROVE  sums(weights, white) =
             [k \in 0 .. N |-> IF k = 0 THEN 0
                               ELSE sums(weights, white)[k - 1] + IF k \in white THEN weights[k] ELSE 0]
  <1> DEFINE w(k) == IF k \in white THEN weights[k] ELSE 0
             Loop(n, F) == F = [k \in 0 .. n |-> IF k = 0 THEN 0 ELSE F[k - 1] + w(k)]
             S == {n \in Nat : \E F : Loop(n, F)}
  <1>1. 0 \in S
    <2> DEFINE F == [k \in 0 .. 0 |-> 0]
    <2>1. Loop(0, F)
      <3>1. \A k \in 0 .. 0 : k = 0
        BY SMT
      <3>2. [k \in 0 .. 0 |-> IF k = 0 THEN 0 ELSE F[k - 1] + w(k)] = [k \in 0 .. 0 |-> 0]
        BY <3>1
      <3> QED BY <3>2
    <2> HIDE DEF F, Loop
    <2> QED BY <2>1
  <1>2. ASSUME NEW n \in Nat, n \in S
        PROVE  n + 1 \in S
    <2>1. PICK F : Loop(n, F)
      BY <1>2
    <2> HIDE DEF w
    <2> DEFINE G == [k \in 0 .. n + 1 |-> IF k = n + 1 THEN F[n] + w(n + 1) ELSE F[k]]
    <2>2. /\ \A k \in 0 .. n + 1 : k = n + 1 \/ k \in 0 .. n
          /\ \A k \in 0 .. n + 1 : k = 0 \/ (k - 1 \in 0 .. n + 1 /\ k - 1 # n + 1)
          /\ \A k \in 0 .. n : k \in 0 .. n + 1 /\ k # n + 1
          /\ n + 1 # 0 /\ (n + 1) - 1 = n
      BY SMT
    <2>3. \A k \in 0 .. n : F[k] = IF k = 0 THEN 0 ELSE F[k - 1] + w(k)
      <3> HIDE DEF G
      <3> QED BY <2>1
    <2>4. \A k \in 0 .. n + 1 : k # 0 => G[k - 1] = F[k - 1]
      BY <2>2
    <2>5. ASSUME NEW k \in 0 .. n + 1
          PROVE  G[k] = IF k = 0 THEN 0 ELSE G[k - 1] + w(k)
      <3>1. CASE k = n + 1
        BY <3>1, <2>2, <2>4
      <3>2. CASE k \in 0 .. n
        BY <3>2, <2>2, <2>3, <2>4
      <3> QED BY <2>2, <3>1, <3>2
    <2>6. Loop(n + 1, G)
      <3>1. G = [k \in 0 .. n + 1 |-> G[k]]
        OBVIOUS
      <3> HIDE DEF G
      <3> QED BY <2>5, <3>1
    <2> HIDE DEF G, Loop
    <2>7. n + 1 \in Nat
      BY SMT
    <2> QED BY <2>6, <2>7
  <1>3. N \in S
    <2> HIDE DEF S
    <2> QED BY <1>1, <1>2, CountUp, CountAssumption
  <1>4. PICK F : Loop(N, F)
    BY <1>3
  <1> QED
    BY <1>4 DEF sums

\* One pass of the adding loop.
LEMMA SumsStep ==
    ASSUME NEW weights \in [Ips -> Nat], NEW white, white \subseteq Ips
    PROVE  /\ sums(weights, white)[0] = 0
           /\ \A k \in 0 .. N : sums(weights, white)[k] \in Nat
           /\ \A k \in white : sums(weights, white)[k] = sums(weights, white)[k - 1] + weights[k]
           /\ \A k \in Ips \ white : sums(weights, white)[k] = sums(weights, white)[k - 1]
  <1> DEFINE f == sums(weights, white)
             w(k) == IF k \in white THEN weights[k] ELSE 0
  <1>0. N \in Nat
    BY CountAssumption
  <1>1. /\ 0 \in 0 .. N /\ \A k \in Ips : k \in 0 .. N /\ k # 0 /\ k - 1 \in 0 .. N
        /\ \A n \in Nat : n + 1 # 0 /\ (n + 1) - 1 = n
        /\ \A n \in Nat : n + 1 <= N => n <= N /\ n + 1 \in Ips /\ n + 1 \in 0 .. N
        /\ \A k \in 0 .. N : k \in Nat /\ k <= N
    BY SMT, <1>0 DEF Ips
  <1>2. \A k \in 0 .. N : f[k] = IF k = 0 THEN 0 ELSE f[k - 1] + w(k)
    <2>1. f = [k \in 0 .. N |-> IF k = 0 THEN 0 ELSE f[k - 1] + w(k)]
      BY SMT, SumsLoop
    <2> HIDE DEF f, w
    <2> QED BY <2>1
  <1>3. \A k \in Ips : w(k) \in Nat
    BY SMT
  <1>4. f[0] = 0 /\ \A k \in Ips : f[k] = f[k - 1] + w(k)
    <2> HIDE DEF f, w
    <2> QED BY <1>1, <1>2
  <1>5. \A k \in 0 .. N : f[k] \in Nat
    <2> DEFINE S == {n \in Nat : n <= N => f[n] \in Nat}
    <2> HIDE DEF f, w
    <2>1. 0 \in S
      BY SMT, <1>4
    <2>2. ASSUME NEW n \in Nat, n \in S
          PROVE  n + 1 \in S
      <3>1. n + 1 \in Nat
        BY SMT
      <3>2. ASSUME n + 1 <= N
            PROVE  f[n + 1] \in Nat
        <4>1. f[n] \in Nat /\ w(n + 1) \in Nat /\ f[n + 1] = f[n] + w(n + 1)
          BY <1>1, <1>3, <1>4, <2>2, <3>2
        <4> QED BY SMT, <4>1
      <3> QED BY <3>1, <3>2
    <2>3. Nat \subseteq S
      <3> HIDE DEF S
      <3> QED BY <2>1, <2>2, CountUp
    <2> QED BY <1>1, <2>3
  <1>6. \A k \in Ips \ white : f[k] = f[k - 1]
    <2> TAKE k \in Ips \ white
    <2>1. f[k] = f[k - 1] + 0
      BY <1>4
    <2>2. f[k - 1] \in Nat
      BY <1>1, <1>5
    <2> HIDE DEF f
    <2> QED BY SMT, <2>1, <2>2
  <1> QED
    BY <1>4, <1>5, <1>6

\* No pass of the adding loop lowers the sum.
LEMMA SumsGrow ==
    ASSUME NEW weights \in [Ips -> Nat], NEW white, white \subseteq Ips,
           NEW j \in 0 .. N, NEW k \in 0 .. N, j <= k
    PROVE  sums(weights, white)[j] <= sums(weights, white)[k]
  <1> DEFINE f == sums(weights, white)
             S == {n \in Nat : j <= n /\ n <= N => f[j] <= f[n]}
  <1>0. N \in Nat
    BY CountAssumption
  <1>1. /\ \A n \in 0 .. N : f[n] \in Nat
        /\ \A n \in white : f[n] = f[n - 1] + weights[n]
        /\ \A n \in Ips \ white : f[n] = f[n - 1]
        /\ \A n \in Ips : weights[n] \in Nat
    BY SumsStep
  <1> HIDE DEF f
  <1>2. 0 \in S
    BY SMT, <1>1
  <1>3. ASSUME NEW n \in Nat, n \in S
        PROVE  n + 1 \in S
    <2>1. n + 1 \in Nat
      BY SMT
    <2>2. ASSUME j <= n + 1, n + 1 <= N
          PROVE  f[j] <= f[n + 1]
      <3>1. n + 1 \in Ips /\ n \in 0 .. N /\ n + 1 \in 0 .. N /\ (n + 1) - 1 = n
        BY SMT, <1>0, <2>2 DEF Ips
      <3>2. f[j] \in Nat /\ f[n] \in Nat /\ f[n + 1] \in Nat /\ weights[n + 1] \in Nat
        BY <1>1, <3>1
      <3>3. f[n + 1] = f[n] \/ f[n + 1] = f[n] + weights[n + 1]
        BY <1>1, <3>1
      <3>4. CASE j = n + 1
        BY SMT, <3>2, <3>4
      <3>5. CASE j <= n
        <4>1. n <= N
          BY SMT, <3>1
        <4>2. f[j] <= f[n]
          BY <1>3, <3>5, <4>1
        <4> QED BY SMT, <4>2, <3>2, <3>3
      <3> QED BY SMT, <2>2, <3>4, <3>5
    <2> QED BY <2>1, <2>2
  <1>4. Nat \subseteq S
    <2> HIDE DEF S
    <2> QED BY <1>2, <1>3, CountUp
  <1>5. k \in Nat /\ k <= N
    BY SMT
  <1> QED
    BY <1>4, <1>5 DEF f

\* Between white addresses the sum stands still: what bounds it at the white
\* addresses up to p bounds it at p.
LEMMA SumsBound ==
    ASSUME NEW weights \in [Ips -> Nat], NEW white, white \subseteq Ips,
           NEW x \in Nat, NEW p \in 0 .. N,
           \A j \in white : j <= p => sums(weights, white)[j] <= x
    PROVE  sums(weights, white)[p] <= x
  <1> DEFINE f == sums(weights, white)
             S == {n \in Nat : n <= p => f[n] <= x}
  <1>0. N \in Nat /\ p \in Nat /\ p <= N
    BY SMT, CountAssumption
  <1>1. /\ f[0] = 0
        /\ \A n \in Ips \ white : f[n] = f[n - 1]
        /\ \A j \in white : j <= p => f[j] <= x
    BY SumsStep
  <1> HIDE DEF f
  <1>2. 0 \in S
    BY SMT, <1>1
  <1>3. ASSUME NEW n \in Nat, n \in S
        PROVE  n + 1 \in S
    <2>1. n + 1 \in Nat
      BY SMT
    <2>2. ASSUME n + 1 <= p
          PROVE  f[n + 1] <= x
      <3>1. n + 1 \in Ips /\ (n + 1) - 1 = n /\ n <= p
        BY SMT, <1>0, <2>2 DEF Ips
      <3>2. CASE n + 1 \in white
        BY <1>1, <2>2, <3>2
      <3>3. CASE n + 1 \notin white
        BY <1>1, <1>3, <3>1, <3>3
      <3> QED BY <3>2, <3>3
    <2> QED BY <2>1, <2>2
  <1>4. Nat \subseteq S
    <2> HIDE DEF S
    <2> QED BY <1>2, <1>3, CountUp
  <1>5. p <= p
    BY SMT, <1>0
  <1> QED
    BY <1>0, <1>4, <1>5 DEF f

\* The remainder of the clock.
LEMMA Remainder ==
    ASSUME NEW a \in Nat, NEW d \in Nat, d > 0
    PROVE  a % d \in 0 .. d - 1 /\ (a < d => a % d = a)
  BY SMT

\* The weighted loop of OrderIps stops at a white address, and at k exactly when
\* the clock's remainder lies in the stretch that the weight of k adds to the sum.
LEMMA WeightedIndex ==
    ASSUME NEW o \in Order, NEW white, white \subseteq Ips, sum(o.weights, white) > 0
    PROVE  /\ WeightIndex(o, white, 0) \in white
           /\ \A k \in white :
                 WeightIndex(o, white, 0) = k <=>
                     /\ sums(o.weights, white)[k - 1] <= o.now % sum(o.weights, white)
                     /\ o.now % sum(o.weights, white) < sums(o.weights, white)[k]
  <1> DEFINE f == sums(o.weights, white)
             x == o.now % sum(o.weights, white)
             stop(k) == x - f[k] < 0 /\ \A j \in white : j < k => ~(x - f[j] < 0)
             T == {k \in white : x < f[k]}
  <1>0. N \in Nat /\ o.weights \in [Ips -> Nat] /\ o.now \in Nat
    BY SMT, CountAssumption DEF Order
  <1>1. /\ \A k \in 0 .. N : f[k] \in Nat
        /\ \A k \in 0 .. N : k \in Nat
        /\ \A k \in Ips : k \in 0 .. N /\ k - 1 \in 0 .. N /\ k \in Nat
        /\ \A k \in Ips : \A j \in Ips : j < k <=> j <= k - 1
        /\ \A j \in Ips : j <= N
        /\ N \in 0 .. N
    <2>1. \A k \in 0 .. N : f[k] \in Nat
      BY <1>0, SumsStep
    <2> HIDE DEF f
    <2> QED BY SMT, <1>0, <2>1 DEF Ips
  <1>2. x \in Nat /\ x < f[N]
    <2>1. f[N] = sum(o.weights, white)
      BY DEF sum
    <2>2. f[N] \in Nat /\ f[N] > 0
      BY <1>1, <2>1
    <2>3. o.now % f[N] \in 0 .. f[N] - 1
      <3> HIDE DEF f
      <3> QED BY <1>0, <2>2, Remainder
    <2>4. x = o.now % f[N]
      BY <2>1
    <2> HIDE DEF f, x
    <2> QED BY SMT, <2>2, <2>3, <2>4
  <1>3. WeightIndex(o, white, 0) = CHOOSE k \in white : stop(k)
    BY DEF WeightIndex
  <1>4. \A p \in 0 .. N : (\A j \in white : j <= p => f[j] <= x) => f[p] <= x
    <2> HIDE DEF x
    <2> QED BY <1>0, <1>2, SumsBound
  <1>5. \A j \in 0 .. N, k \in 0 .. N : j <= k => f[j] <= f[k]
    BY <1>0, SumsGrow
  <1> HIDE DEF f, x
  <1>6. \A k \in white : x - f[k] < 0 <=> x < f[k]
    BY SMT, <1>1, <1>2
  <1>7. \A k \in white : ~(x < f[k]) <=> f[k] <= x
    BY SMT, <1>1, <1>2
  <1>8. ASSUME NEW k \in white
        PROVE  stop(k) <=> f[k - 1] <= x /\ x < f[k]
    <2>1. ASSUME stop(k) PROVE f[k - 1] <= x /\ x < f[k]
      <3>1. \A j \in white : j <= k - 1 => f[j] <= x
        BY <1>1, <1>6, <1>7, <2>1
      <3>2. f[k - 1] <= x
        BY <1>1, <1>4, <3>1
      <3> QED BY <1>6, <2>1, <3>2
    <2>2. ASSUME f[k - 1] <= x, x < f[k] PROVE stop(k)
      <3>1. ASSUME NEW j \in white, j < k PROVE ~(x - f[j] < 0)
        <4>1. j \in 0 .. N /\ k - 1 \in 0 .. N /\ j <= k - 1
          BY <1>1, <3>1
        <4>2. f[j] <= f[k - 1] /\ f[j] \in Nat /\ f[k - 1] \in Nat
          BY <1>1, <1>5, <4>1
        <4> QED BY SMT, <1>2, <2>2, <4>2
      <3> QED BY <1>6, <2>2, <3>1
    <2> QED BY <2>1, <2>2
  <1>9. \E k \in white : stop(k)
    <2>1. T # {}
      <3>1. ~(f[N] <= x)
        BY SMT, <1>1, <1>2
      <3> QED BY <1>1, <1>4, <1>7, <3>1
    <2>2. T \subseteq Nat
      BY <1>1
    <2>3. PICK k \in T : \A j \in T : k <= j
      <3> HIDE DEF T
      <3> QED BY <2>1, <2>2, LeastOf
    <2>4. \A j \in white : j < k => j \notin T
      BY SMT, <1>1, <2>3
    <2> QED BY <1>6, <2>3, <2>4
  <1>10. ASSUME NEW j \in white, NEW k \in white, stop(j), stop(k)
         PROVE  j = k
    <2>1. ~(j < k) /\ ~(k < j)
      BY <1>10
    <2>2. j \in Nat /\ k \in Nat
      BY <1>1
    <2> HIDE DEF stop
    <2> QED BY SMT, <2>1, <2>2
  <1>11. /\ WeightIndex(o, white, 0) \in white
         /\ \A k \in white : WeightIndex(o, white, 0) = k <=> stop(k)
    <2> HIDE DEF stop
    <2> QED BY <1>3, <1>9, <1>10
  <1> QED
    BY <1>8, <1>11 DEF f, x

\* How many white addresses are in front of k.
Rank(white, k) == Cardinality({j \in white : j < k})

\* Every number below the count is the number of white addresses in front of
\* exactly one white address: the loop that counts r down to 0 stops there.
LEMMA Ranked ==
    ASSUME NEW white, white \subseteq Ips
    PROVE  /\ IsFiniteSet(white) /\ Cardinality(white) \in Nat
           /\ \A k \in white : Rank(white, k) \in 0 .. Cardinality(white) - 1
           /\ \A k \in white, l \in white : k < l => Rank(white, k) < Rank(white, l)
           /\ \A k \in white, l \in white : Rank(white, k) = Rank(white, l) => k = l
           /\ \A r \in 0 .. Cardinality(white) - 1 : \E k \in white : Rank(white, k) = r
  <1> DEFINE front(k) == {j \in white : j < k}
             rank == [k \in white |-> Cardinality(front(k))]
             ranks == {rank[k] : k \in white}
             c == Cardinality(white)
  <1>1. IsFiniteSet(white) /\ c \in Nat /\ \A k \in white : k \in Nat
    <2>1. IsFiniteSet(1 .. N) /\ \A k \in 1 .. N : k \in Nat
      BY SMT, FS_Interval, CountAssumption
    <2>2. IsFiniteSet(white) /\ \A k \in white : k \in Nat
      BY <2>1, FS_Subset DEF Ips
    <2> QED BY <2>2, FS_CardinalityType
  <1>2. \A k \in white : IsFiniteSet(front(k)) /\ rank[k] \in Nat /\ rank[k] = Cardinality(front(k))
    <2> TAKE k \in white
    <2>1. front(k) \in SUBSET white
      OBVIOUS
    <2>2. IsFiniteSet(front(k))
      <3> HIDE DEF front
      <3> QED BY <1>1, <2>1, FS_Subset
    <2>3. Cardinality(front(k)) \in Nat
      <3> HIDE DEF front
      <3> QED BY <2>2, FS_CardinalityType
    <2> QED BY <2>2, <2>3
  <1>3. ASSUME NEW S, S \in SUBSET white, NEW T, T \in SUBSET S, NEW e \in S, e \notin T
        PROVE  Cardinality(T) < Cardinality(S)
    <2>1. IsFiniteSet(S)
      BY <1>1, <1>3, FS_Subset
    <2>2. Cardinality(T) <= Cardinality(S) /\ Cardinality(T) # Cardinality(S) /\ IsFiniteSet(T)
      BY <1>3, <2>1, FS_Subset
    <2>3. Cardinality(T) \in Nat /\ Cardinality(S) \in Nat
      BY SMT, <2>1, <2>2, FS_CardinalityType
    <2> QED BY SMT, <2>2, <2>3
  <1>4. \A k \in white : rank[k] \in 0 .. c - 1
    <2> TAKE k \in white
    <2>1. front(k) \in SUBSET white /\ k \notin front(k)
      BY SMT, <1>1
    <2>2. Cardinality(front(k)) < c
      <3> HIDE DEF front
      <3> QED BY <1>3, <2>1
    <2> HIDE DEF front, c, rank
    <2> QED BY SMT, <1>1, <1>2, <2>2
  <1>5. ASSUME NEW k \in white, NEW l \in white, k < l
        PROVE  rank[k] < rank[l] /\ rank[k] # rank[l]
    <2>1. front(k) \in SUBSET front(l) /\ k \in front(l) /\ k \notin front(k) /\ front(l) \in SUBSET white
      BY SMT, <1>1, <1>5
    <2>2. Cardinality(front(k)) < Cardinality(front(l))
      <3> HIDE DEF front
      <3> QED BY <1>3, <2>1
    <2> HIDE DEF front, rank
    <2> QED BY SMT, <1>2, <2>2
  <1>6. \A k \in white, l \in white : rank[k] = rank[l] => k = l
    <2> HIDE DEF rank
    <2>1. \A k \in white, l \in white : k = l \/ k < l \/ l < k
      BY SMT, <1>1
    <2> QED BY <1>5, <2>1
  <1>7. ranks = 0 .. c - 1
    <2> HIDE DEF rank
    <2>1. rank \in Bijection(white, ranks)
      <3>1. rank \in [white -> ranks]
        BY DEF rank
      <3> QED BY <1>6, <3>1 DEF Bijection, Injection, Surjection, IsInjective
    <2>2. Cardinality(ranks) = c
      <3> HIDE DEF ranks
      <3> QED BY <1>1, <2>1, FS_Bijection DEF ExistsBijection
    <2>3. ranks \in SUBSET (0 .. c - 1)
      BY <1>4
    <2>4. IsFiniteSet(0 .. c - 1) /\ Cardinality(0 .. c - 1) = c
      <3>1. 0 \in Int /\ c - 1 \in Int
        BY SMT, <1>1
      <3>2. IsFiniteSet(0 .. c - 1) /\ Cardinality(0 .. c - 1) = IF 0 > c - 1 THEN 0 ELSE (c - 1) - 0 + 1
        <4> HIDE DEF c
        <4> QED BY <3>1, FS_Interval
      <3> HIDE DEF c
      <3> QED BY SMT, <1>1, <3>2
    <2> HIDE DEF ranks
    <2> QED BY <2>2, <2>3, <2>4, FS_Subset
  <1>8. \A k \in white : rank[k] = Rank(white, k)
    BY DEF Rank
  <1> HIDE DEF rank
  <1>9. \A k \in white : Rank(white, k) \in 0 .. c - 1
    BY <1>4, <1>8
  <1>10. ASSUME NEW k \in white, NEW l \in white, k < l
         PROVE  Rank(white, k) < Rank(white, l)
    <2>1. rank[k] < rank[l]
      BY <1>5, <1>10
    <2> QED
      BY <1>8, <2>1
  <1>11. \A k \in white, l \in white : Rank(white, k) = Rank(white, l) => k = l
    BY <1>6, <1>8
  <1>12. \A r \in 0 .. c - 1 : \E k \in white : Rank(white, k) = r
    BY <1>7, <1>8
  <1> QED
    BY <1>1, <1>9, <1>10, <1>11, <1>12

\* The round robin loop of OrderIps stops at the white address with as many white
\* ones in front of it as the clock's remainder says.
LEMMA RoundRobinIndex ==
    ASSUME NEW white, white \subseteq Ips, white # {}, NEW now \in Nat
    PROVE  LET k == CHOOSE k \in white : Rank(white, k) = now % Cardinality(white)
           IN  k \in white /\ \A l \in white : k = l <=> Rank(white, l) = now % Cardinality(white)
  <1>1. Cardinality(white) \in Nat /\ Cardinality(white) > 0
    <2>1. IsFiniteSet(white) /\ Cardinality(white) \in Nat /\ Cardinality(white) # 0
      BY Ranked, FS_EmptySet
    <2> QED BY SMT, <2>1
  <1>2. now % Cardinality(white) \in 0 .. Cardinality(white) - 1
    BY <1>1, Remainder
  <1>3. \E k \in white : Rank(white, k) = now % Cardinality(white)
    BY <1>2, Ranked
  <1>4. \A k \in white, l \in white : Rank(white, k) = Rank(white, l) => k = l
    BY Ranked
  <1> QED
    BY <1>3, <1>4

\* index (the loop OrderIps takes) finds a white address.
LEMMA IndexIsWhite ==
    ASSUME NEW o \in Order, NEW white, white \subseteq Ips, white # {}
    PROVE  index(o, white) \in white
  <1>1. o.now \in Nat /\ o.order \in {"weighted", "rr", "none"} /\ o.weights \in [Ips -> Nat]
    BY SMT DEF Order
  <1>2. sum(o.weights, white) \in Nat
    <2>1. N \in 0 .. N
      BY SMT, CountAssumption
    <2> QED BY <1>1, <2>1, SumsStep DEF sum
  <1>3. CASE o.order = "weighted" /\ sum(o.weights, white) > 0
    <2>1. index(o, white) = WeightIndex(o, white, 0)
      BY SMT, <1>2, <1>3 DEF index
    <2> QED BY <1>3, <2>1, WeightedIndex
  <1>4. CASE o.order = "rr" \/ (o.order = "weighted" /\ sum(o.weights, white) = 0)
    <2>1. ~(o.order = "weighted" /\ sum(o.weights, white) > 0)
      BY SMT, <1>2, <1>4
    <2>2. index(o, white) = CHOOSE k \in white : Rank(white, k) = o.now % Cardinality(white)
      BY <1>4, <2>1 DEF index, Rank
    <2> QED BY <1>1, <2>2, RoundRobinIndex
  <1>5. CASE o.order = "none"
    <2>1. index(o, white) = CHOOSE k \in white : \A j \in white : k <= j
      BY SMT, <1>5 DEF index
    <2>2. white \subseteq Nat
      BY SMT DEF Ips
    <2>3. \E k \in white : \A j \in white : k <= j
      BY <2>2, LeastOf
    <2> QED BY <2>1, <2>3
  <1>6. sum(o.weights, white) = 0 \/ sum(o.weights, white) > 0
    BY SMT, <1>2
  <1> QED
    BY <1>1, <1>3, <1>4, <1>5, <1>6

\* The address that the two appending loops look at in their n-th pass.
Turn(start, n) == IF start + n - 1 <= N THEN start + n - 1 ELSE start + n - 1 - N

\* The passes that see a white address.
Seen(start, m) == {p \in Ips : m[Turn(start, p)] = White}

\* appended is the two loops that append the white addresses.
LEMMA AppendedLoop ==
    ASSUME NEW start, NEW m
    PROVE  appended(start, m) =
             [n \in 0 .. N |-> IF n = 0 THEN <<>>
                               ELSE IF m[Turn(start, n)] = White
                                    THEN Append(appended(start, m)[n - 1], Turn(start, n))
                                    ELSE appended(start, m)[n - 1]]
  <1> DEFINE next(n, s) == IF m[Turn(start, n)] = White THEN Append(s, Turn(start, n)) ELSE s
             Loop(n, F) == F = [k \in 0 .. n |-> IF k = 0 THEN <<>> ELSE next(k, F[k - 1])]
             S == {n \in Nat : \E F : Loop(n, F)}
  <1>1. 0 \in S
    <2> DEFINE F == [k \in 0 .. 0 |-> <<>>]
    <2>1. Loop(0, F)
      <3>1. \A k \in 0 .. 0 : k = 0
        BY SMT
      <3> HIDE DEF next
      <3>2. [k \in 0 .. 0 |-> IF k = 0 THEN <<>> ELSE next(k, F[k - 1])] = [k \in 0 .. 0 |-> <<>>]
        BY <3>1
      <3> QED BY <3>2
    <2> HIDE DEF F, Loop
    <2> QED BY <2>1
  <1>2. ASSUME NEW n \in Nat, n \in S
        PROVE  n + 1 \in S
    <2>1. PICK F : Loop(n, F)
      BY <1>2
    <2> HIDE DEF next
    <2> DEFINE G == [k \in 0 .. n + 1 |-> IF k = n + 1 THEN next(n + 1, F[n]) ELSE F[k]]
    <2>2. /\ \A k \in 0 .. n + 1 : k = n + 1 \/ k \in 0 .. n
          /\ \A k \in 0 .. n + 1 : k = 0 \/ (k - 1 \in 0 .. n + 1 /\ k - 1 # n + 1)
          /\ \A k \in 0 .. n : k \in 0 .. n + 1 /\ k # n + 1
          /\ n + 1 # 0 /\ (n + 1) - 1 = n
      BY SMT
    <2>3. \A k \in 0 .. n : F[k] = IF k = 0 THEN <<>> ELSE next(k, F[k - 1])
      <3> HIDE DEF G
      <3> QED BY <2>1
    <2>4. \A k \in 0 .. n + 1 : k # 0 => G[k - 1] = F[k - 1]
      BY <2>2
    <2>5. ASSUME NEW k \in 0 .. n + 1
          PROVE  G[k] = IF k = 0 THEN <<>> ELSE next(k, G[k - 1])
      <3>1. CASE k = n + 1
        BY <3>1, <2>2, <2>4
      <3>2. CASE k \in 0 .. n
        BY <3>2, <2>2, <2>3, <2>4
      <3> QED BY <2>2, <3>1, <3>2
    <2>6. Loop(n + 1, G)
      <3>1. G = [k \in 0 .. n + 1 |-> G[k]]
        OBVIOUS
      <3> HIDE DEF G
      <3> QED BY <2>5, <3>1
    <2> HIDE DEF G, Loop
    <2>7. n + 1 \in Nat
      BY SMT
    <2> QED BY <2>6, <2>7
  <1>3. N \in S
    <2> HIDE DEF S
    <2> QED BY <1>1, <1>2, CountUp, CountAssumption
  <1>4. PICK F : Loop(N, F)
    BY <1>3
  <1> QED
    BY <1>4 DEF appended, Turn

\* The two loops look at every address exactly once, at start first.
LEMMA TurnsOnce ==
    ASSUME NEW start \in Ips
    PROVE  /\ \A n \in Ips : Turn(start, n) \in Ips
           /\ Turn(start, 1) = start
           /\ \A n \in Ips, p \in Ips : Turn(start, n) = Turn(start, p) => n = p
           /\ \A k \in Ips : \E n \in Ips : Turn(start, n) = k
  <1>0. N \in Nat
    BY CountAssumption
  <1>1. /\ \A n \in Ips : Turn(start, n) \in Ips
        /\ Turn(start, 1) = start
        /\ \A n \in Ips, p \in Ips : Turn(start, n) = Turn(start, p) => n = p
    BY SMT, <1>0 DEF Turn, Ips
  <1>2. ASSUME NEW k \in Ips
        PROVE  \E n \in Ips : Turn(start, n) = k
    <2> DEFINE n == IF k >= start THEN k - start + 1 ELSE k - start + 1 + N
    <2>1. n \in Ips /\ Turn(start, n) = k
      BY SMT, <1>0 DEF Turn, Ips
    <2> QED BY <2>1
  <1> QED
    BY <1>1, <1>2

\* The result after n passes: the white addresses seen, each at the place that
\* the white ones seen before it leave to it.
LEMMA AppendedInPlace ==
    ASSUME NEW start \in Ips, NEW m \in Mask, NEW n \in 0 .. N
    PROVE  /\ appended(start, m)[n] \in Seq(Ips)
           /\ Len(appended(start, m)[n]) = Rank(Seen(start, m), n + 1)
           /\ \A p \in Seen(start, m) : p <= n =>
                 appended(start, m)[n][Rank(Seen(start, m), p) + 1] = Turn(start, p)
  <1> DEFINE A == appended(start, m)
             P == Seen(start, m)
             front(p) == {x \in P : x < p}
             Good(k) == /\ A[k] \in Seq(Ips) /\ Len(A[k]) = Rank(P, k + 1)
                        /\ \A p \in P : p <= k => A[k][Rank(P, p) + 1] = Turn(start, p)
             S == {k \in Nat : k <= N => Good(k)}
  <1>0. N \in Nat /\ P \subseteq Ips /\ 0 \in 0 .. N
    BY SMT, CountAssumption DEF Seen
  <1>1. /\ A[0] = <<>>
        /\ \A k \in Ips : A[k] = IF k \in P THEN Append(A[k - 1], Turn(start, k)) ELSE A[k - 1]
    <2>1. A = [k \in 0 .. N |-> IF k = 0 THEN <<>>
                               ELSE IF m[Turn(start, k)] = White
                                    THEN Append(A[k - 1], Turn(start, k)) ELSE A[k - 1]]
      BY SMT, AppendedLoop
    <2> HIDE DEF A
    <2>2. \A k \in 0 .. N : A[k] = IF k = 0 THEN <<>>
                               ELSE IF m[Turn(start, k)] = White
                                    THEN Append(A[k - 1], Turn(start, k)) ELSE A[k - 1]
      BY <2>1
    <2>3. \A k \in Ips : k \in 0 .. N /\ k # 0
      BY SMT, <1>0 DEF Ips
    <2> QED BY <1>0, <2>2, <2>3 DEF Seen
  <1>8. \A p \in Nat : Rank(P, p) = Cardinality(front(p))
    BY DEF Rank
  <1>2. \A p \in Nat : IsFiniteSet(front(p)) /\ Rank(P, p) \in Nat
    <2> TAKE p \in Nat
    <2>1. front(p) \in SUBSET P /\ IsFiniteSet(P)
      BY <1>0, Ranked
    <2> HIDE DEF front
    <2>2. IsFiniteSet(front(p))
      BY <2>1, FS_Subset
    <2> QED BY <1>8, <2>2, FS_CardinalityType
  <1> HIDE DEF P
  <1>9. \A p \in P, q \in P : p < q => Rank(P, p) < Rank(P, q)
    BY <1>0, Ranked
  <1> HIDE DEF A
  <1>3. 0 \in S
    <2>1. front(1) = {} /\ \A p \in P : ~(p <= 0)
      <3>1. \A p \in Ips : ~(p < 1) /\ ~(p <= 0)
        BY SMT, <1>0 DEF Ips
      <3> QED BY <1>0, <3>1
    <2>2. Rank(P, 1) = 0
      <3>1. Rank(P, 1) = Cardinality(front(1))
        BY SMT, <1>8
      <3>2. Rank(P, 1) = Cardinality({})
        BY <2>1, <3>1
      <3> QED BY <3>2, FS_EmptySet
    <2>3. 0 + 1 = 1 /\ <<>> \in Seq(Ips) /\ Len(<<>>) = 0
      BY SMT
        <2> QED BY <1>1, <2>1, <2>2, <2>3
  <1>4. ASSUME NEW k \in Nat, k \in S, k + 1 <= N
        PROVE  Good(k + 1)
    <2>1. k + 1 \in Ips /\ (k + 1) - 1 = k /\ k <= N /\ k + 1 \in Nat /\ (k + 1) + 1 \in Nat
      BY SMT, <1>0, <1>4 DEF Ips
    <2>2. Good(k)
      BY <1>4, <2>1
    <2>3. \A p \in P : p \in Nat /\ (p <= k + 1 <=> p = k + 1 \/ p <= k) /\ (p < (k + 1) + 1 <=> p = k + 1 \/ p < k + 1)
      BY SMT, <1>0 DEF Ips
    <2>4. CASE k + 1 \notin P
      <3>1. A[k + 1] = A[k]
        BY <1>1, <2>1, <2>4
      <3>2. front((k + 1) + 1) = front(k + 1)
        BY <2>3, <2>4
      <3>3. Rank(P, (k + 1) + 1) = Rank(P, k + 1)
        <4>1. /\ Rank(P, (k + 1) + 1) = Cardinality(front((k + 1) + 1))
              /\ Rank(P, k + 1) = Cardinality(front(k + 1))
          <5> HIDE DEF front
          <5> QED BY <1>8, <2>1
        <4> HIDE DEF front
        <4> QED BY <3>2, <4>1
      <3> QED BY <2>2, <2>3, <2>4, <3>1, <3>3
    <2>5. CASE k + 1 \in P
      <3>1. A[k + 1] = Append(A[k], Turn(start, k + 1)) /\ Turn(start, k + 1) \in Ips
        BY <1>1, <2>1, <2>5, TurnsOnce
      <3>2. front((k + 1) + 1) = front(k + 1) \cup {k + 1} /\ k + 1 \notin front(k + 1)
        <4>1. ~(k + 1 < k + 1)
          BY SMT
        <4> QED BY <2>3, <2>5, <4>1
      <3>3. Rank(P, (k + 1) + 1) = Rank(P, k + 1) + 1
        <4> HIDE DEF front
        <4>1. /\ Rank(P, (k + 1) + 1) = Cardinality(front((k + 1) + 1))
              /\ Rank(P, k + 1) = Cardinality(front(k + 1))
          BY <1>8, <2>1
        <4>2. Cardinality(front(k + 1) \cup {k + 1}) = Cardinality(front(k + 1)) + 1
          BY <1>2, <2>1, <3>2, FS_AddElement
        <4> QED BY <3>2, <4>1, <4>2
      <3>4. /\ A[k + 1] \in Seq(Ips) /\ Len(A[k + 1]) = Len(A[k]) + 1
            /\ A[k + 1][Len(A[k]) + 1] = Turn(start, k + 1)
            /\ \A q \in 1 .. Len(A[k]) : A[k + 1][q] = A[k][q]
        <4>1. A[k] \in Seq(Ips)
          BY <2>2
        <4> HIDE DEF Good
        <4> QED BY SMT, <3>1, <4>1, AppendProperties
      <3>5. ASSUME NEW p \in P, p <= k
            PROVE  Rank(P, p) + 1 \in 1 .. Len(A[k])
        <4>1. p < k + 1 /\ p \in Nat
          BY SMT, <2>3, <3>5
        <4>2. Rank(P, p) < Rank(P, k + 1)
          BY <1>9, <2>5, <4>1
        <4>3. Rank(P, p) \in Nat /\ Rank(P, k + 1) \in Nat
          BY <1>2, <2>1, <4>1
        <4>4. Len(A[k]) = Rank(P, k + 1)
          BY <2>2
        <4> QED BY SMT, <4>2, <4>3, <4>4
      <3> QED BY <2>2, <2>3, <3>3, <3>4, <3>5
    <2> QED BY <2>4, <2>5
  <1>5. Nat \subseteq S
    <2>1. \A k \in Nat : k + 1 \in Nat
      BY SMT
    <2>2. \A k \in Nat : k \in S => k + 1 \in S
      <3> HIDE DEF Good
      <3> QED BY <1>4, <2>1
    <2> HIDE DEF S
    <2> QED BY <1>3, <2>2, CountUp
  <1>6. n \in Nat /\ n <= N
    BY SMT, <1>0
  <1>7. Good(n)
    BY <1>5, <1>6
  <1> QED
    BY <1>7 DEF A, P

\* The addresses that may come right after k: the later ones, at the end all.
After(white, k) == IF \E j \in white : j > k THEN {j \in white : j > k} ELSE white

\* The loops look at white addresses cyclically in the saved order: if they see
\* no white address between passes p and r, pass r sees the next one.
LEMMA TurnsInOrder ==
    ASSUME NEW start \in Ips, NEW white, white \subseteq Ips, start \in white,
           NEW p \in Ips, NEW r \in Ips, p < r, Turn(start, p) \in white, Turn(start, r) \in white,
           \A x \in Ips : p < x /\ x < r => Turn(start, x) \notin white
    PROVE  /\ Turn(start, r) \in After(white, Turn(start, p))
           /\ \A j \in After(white, Turn(start, p)) : Turn(start, r) <= j
  <1> DEFINE a == Turn(start, p)
             b == Turn(start, r)
             pass(j) == IF j >= start THEN j - start + 1 ELSE j - start + 1 + N
  <1>0. N \in Nat
    BY CountAssumption
  <1>1. \A j \in Ips : pass(j) \in Ips /\ Turn(start, pass(j)) = j
    BY SMT, <1>0 DEF Turn, Ips
  <1>2. \A j \in white : pass(j) <= p \/ r <= pass(j)
    <2> TAKE j \in white
    <2>1. pass(j) \in Ips /\ ~(p < pass(j) /\ pass(j) < r)
      BY <1>1
    <2> HIDE DEF pass
    <2> QED BY SMT, <2>1 DEF Ips
  <1>3. /\ a \in Ips /\ b \in Ips /\ p = pass(a) /\ r = pass(b)
    BY SMT, <1>0 DEF Turn, Ips
  <1> HIDE DEF a, b
  <1>4. CASE \E j \in white : j > a
    <2>1. b > a
      <3>1. PICK j \in white : j > a
        BY <1>4
      <3>2. pass(j) <= p \/ r <= pass(j)
        BY <1>2
      <3> QED BY SMT, <1>0, <1>3, <3>1, <3>2 DEF Ips
    <2>2. ASSUME NEW j \in white, j > a PROVE b <= j
      <3>1. pass(j) <= p \/ r <= pass(j)
        BY <1>2
      <3> QED BY SMT, <1>0, <1>3, <2>1, <2>2, <3>1 DEF Ips
    <2>3. After(white, a) = {j \in white : j > a}
      BY <1>4 DEF After
    <2> QED BY <2>1, <2>2, <2>3 DEF a, b
  <1>5. CASE ~(\E j \in white : j > a)
    <2>1. start <= a /\ b <= a
      BY SMT, <1>3, <1>5 DEF Ips, b
    <2>2. ASSUME NEW j \in white PROVE b <= j
      <3>1. pass(j) <= p \/ r <= pass(j)
        BY <1>2
      <3>2. j \in Ips /\ j <= a
        BY SMT, <1>3, <1>5 DEF Ips
      <3> QED BY SMT, <1>0, <1>3, <2>1, <3>1, <3>2 DEF Ips
    <2>3. After(white, a) = white
      BY <1>5 DEF After
    <2> QED BY <2>2, <2>3 DEF a, b
  <1> QED
    BY <1>4, <1>5

\* What the two loops append: every white address, none twice, start first, in
\* the saved order.
LEMMA AppendedWhole ==
    ASSUME NEW m \in Mask, NEW start \in Whites(m), NEW R, R = appended(start, m)[N]
    PROVE  /\ R \in Seq(Ips) /\ Len(R) = Cardinality(Whites(m)) /\ Len(R) > 0
           /\ Range(R) = Whites(m)
           /\ R[1] = start
           /\ \A q \in 1 .. Len(R) - 1 : /\ R[q + 1] \in After(Whites(m), R[q])
                                         /\ \A j \in After(Whites(m), R[q]) : R[q + 1] <= j
  <1> DEFINE white == Whites(m)
             P == Seen(start, m)
  <1>0. N \in Nat /\ start \in Ips /\ N \in 0 .. N /\ P \subseteq Ips /\ white \subseteq Ips
    BY SMT, CountAssumption DEF Whites, Seen
  <1>1. /\ \A p \in Ips : p \in P <=> Turn(start, p) \in white
        /\ \A p \in P : p \in Ips /\ p \in Nat
    <2>1. \A p \in Ips : Turn(start, p) \in Ips
      BY <1>0, TurnsOnce
    <2>2. \A p \in Ips : p \in Nat
      BY SMT DEF Ips
    <2> QED BY <2>1, <2>2 DEF Whites, Seen
  <1>2. /\ R \in Seq(Ips) /\ Len(R) = Rank(P, N + 1)
        /\ \A p \in P : R[Rank(P, p) + 1] = Turn(start, p)
    <2>2. \A p \in P : p <= N
      BY SMT, <1>0, <1>1 DEF Ips
    <2>3. /\ R \in Seq(Ips) /\ Len(R) = Rank(P, N + 1)
          /\ \A p \in P : p <= N => R[Rank(P, p) + 1] = Turn(start, p)
      BY <1>0, AppendedInPlace
    <2> QED BY <2>2, <2>3
  <1> HIDE DEF P
  <1>3. Len(R) = Cardinality(P)
    <2>1. \A x \in Ips : x < N + 1
      BY SMT, <1>0 DEF Ips
    <2>2. {x \in P : x < N + 1} = P
      BY <1>1, <2>1
    <2> QED BY <1>2, <2>2 DEF Rank
  <1> HIDE DEF white
  <1>4. Cardinality(P) = Cardinality(white)
    <2> DEFINE f == [p \in P |-> Turn(start, p)]
    <2>1. f \in [P -> white] /\ \A p \in P : f[p] = Turn(start, p)
      BY <1>1
    <2>2. \A p \in P, q \in P : f[p] = f[q] => p = q
      <3>1. \A p \in Ips, q \in Ips : Turn(start, p) = Turn(start, q) => p = q
        BY <1>0, TurnsOnce
      <3> QED BY <1>1, <2>1, <3>1
    <2>3. \A k \in white : \E p \in P : f[p] = k
      <3> TAKE k \in white
      <3>1. PICK p \in Ips : Turn(start, p) = k
        BY <1>0, TurnsOnce
      <3> QED BY <1>1, <2>1, <3>1
    <2> HIDE DEF f
    <2>4. f \in Bijection(P, white)
      BY <2>1, <2>2, <2>3 DEF Bijection, Injection, Surjection, IsInjective
    <2>5. IsFiniteSet(P)
      BY <1>0, Ranked
    <2> QED BY <2>4, <2>5, FS_Bijection DEF ExistsBijection
  <1>5. /\ \A p \in P : Rank(P, p) \in Nat /\ Rank(P, p) + 1 \in 1 .. Len(R)
        /\ \A q \in 1 .. Len(R) : \E p \in P : Rank(P, p) + 1 = q
        /\ \A p \in P, q \in P : p < q => Rank(P, p) < Rank(P, q)
    <2>1. /\ Cardinality(P) \in Nat
          /\ \A p \in P : Rank(P, p) \in 0 .. Cardinality(P) - 1
          /\ \A r \in 0 .. Cardinality(P) - 1 : \E k \in P : Rank(P, k) = r
          /\ \A p \in P, q \in P : p < q => Rank(P, p) < Rank(P, q)
      BY <1>0, Ranked
    <2>2. \A p \in P : Rank(P, p) \in Nat /\ Rank(P, p) + 1 \in 1 .. Len(R)
      BY SMT, <1>3, <2>1
    <2>3. ASSUME NEW q \in 1 .. Len(R) PROVE \E p \in P : Rank(P, p) + 1 = q
      <3>1. q - 1 \in 0 .. Cardinality(P) - 1 /\ (q - 1) + 1 = q
        BY SMT, <1>3, <2>1
      <3> QED BY <2>1, <3>1
    <2> QED BY <2>1, <2>2, <2>3
  <1>6. Range(R) = white
    <2>1. DOMAIN R = 1 .. Len(R)
      BY <1>2, LenProperties
    <2>2. ASSUME NEW q \in 1 .. Len(R) PROVE R[q] \in white
      BY <1>1, <1>2, <1>5
    <2>3. ASSUME NEW k \in white PROVE \E q \in 1 .. Len(R) : R[q] = k
      <3>1. PICK p \in Ips : Turn(start, p) = k
        BY <1>0, TurnsOnce
      <3>2. p \in P
        BY <1>1, <3>1
      <3> QED BY <1>2, <1>5, <3>1, <3>2
    <2> QED BY <2>1, <2>2, <2>3 DEF Range
  <1>7. Len(R) > 0 /\ R[1] = start
    <2>1. 1 \in Ips /\ Turn(start, 1) = start
      BY SMT, <1>0, TurnsOnce DEF Ips
    <2>2. 1 \in P
      BY <1>1, <2>1 DEF white
    <2>3. Len(R) \in Nat /\ Len(R) > 0 /\ 1 \in 1 .. Len(R)
      <3>1. Len(R) \in Nat /\ Rank(P, 1) \in Nat /\ Rank(P, 1) + 1 \in 1 .. Len(R)
        BY <1>2, <1>5, <2>2, LenProperties
      <3> QED BY SMT, <3>1
    <2>4. PICK p \in P : Rank(P, p) + 1 = 1
      BY <1>5, <2>3
    <2>5. ~(1 < p)
      <3>1. Rank(P, p) \in Nat /\ Rank(P, 1) \in Nat /\ (1 < p => Rank(P, 1) < Rank(P, p))
        BY <1>5, <2>2
      <3> QED BY SMT, <2>4, <3>1
    <2>6. p = 1
      BY SMT, <1>1, <2>5 DEF Ips
    <2> QED BY <1>2, <2>1, <2>3, <2>4, <2>6
  <1>8. ASSUME NEW q \in 1 .. Len(R) - 1
        PROVE  /\ R[q + 1] \in After(white, R[q])
               /\ \A j \in After(white, R[q]) : R[q + 1] <= j
    <2>1. Len(R) \in Nat /\ q \in 1 .. Len(R) /\ q + 1 \in 1 .. Len(R)
      <3>1. Len(R) \in Nat
        BY <1>2, LenProperties
      <3> QED BY SMT, <3>1
    <2>2. PICK p \in P : Rank(P, p) + 1 = q
      BY <1>5, <2>1
    <2>3. PICK r \in P : Rank(P, r) + 1 = q + 1
      BY <1>5, <2>1
    <2>4. R[q] = Turn(start, p) /\ R[q + 1] = Turn(start, r)
      BY <1>2, <2>2, <2>3
    <2>5. ASSUME NEW x \in P PROVE ~(Rank(P, p) < Rank(P, x) /\ Rank(P, x) < Rank(P, r))
      <3>1. Rank(P, p) \in Nat /\ Rank(P, x) \in Nat /\ Rank(P, r) \in Nat
        BY <1>5
      <3> QED BY SMT, <2>2, <2>3, <3>1
    <2>6. p < r
      <3>1. Rank(P, p) \in Nat /\ Rank(P, r) \in Nat /\ p \in Nat /\ r \in Nat
        BY <1>1, <1>5
      <3>2. r < p => Rank(P, r) < Rank(P, p)
        BY <1>5
      <3> QED BY SMT, <2>2, <2>3, <3>1, <3>2
    <2>7. \A x \in Ips : p < x /\ x < r => Turn(start, x) \notin white
      BY <1>1, <1>5, <2>5
    <2>8. /\ Turn(start, r) \in After(white, Turn(start, p))
          /\ \A j \in After(white, Turn(start, p)) : Turn(start, r) <= j
      <3>1. p \in Ips /\ r \in Ips /\ Turn(start, p) \in white /\ Turn(start, r) \in white /\ start \in white
        BY <1>1 DEF white
      <3> QED BY SMT, <1>0, <2>6, <2>7, <3>1, TurnsInOrder
    <2> QED BY <2>4, <2>8
  <1> QED
    BY <1>2, <1>3, <1>4, <1>6, <1>7, <1>8 DEF white

\* The result of OrderIps is made of white addresses, and the one the clock chose
\* comes first.
LEMMA IndexIsFirst ==
    ASSUME NEW o \in Order, NEW m \in Mask, Whites(m) # {}
    PROVE  OrderIps(o, m) \in Seq(Ips) /\ Head(OrderIps(o, m)) = index(o, Whites(m))
  <1> DEFINE start == index(o, Whites(m))
  <1>0. Whites(m) \subseteq Ips
    BY DEF Whites
  <1>1. start \in Whites(m) /\ start \in Ips
    BY <1>0, IndexIsWhite
  <1>2. CASE o.count = "single"
    <2>1. OrderIps(o, m) = <<start>>
      BY <1>2 DEF OrderIps
    <2> HIDE DEF start
    <2>2. <<start>> \in Seq(Ips) /\ Head(<<start>>) = start
      BY SMT, <1>1
    <2> QED BY <2>1, <2>2 DEF start
  <1>3. CASE o.count # "single"
    <2> DEFINE R == appended(start, m)[N]
    <2>1. OrderIps(o, m) = R
      BY <1>3 DEF OrderIps
    <2>2. R \in Seq(Ips) /\ R[1] = start /\ Len(R) > 0
      <3> HIDE DEF start
      <3> QED BY <1>1, AppendedWhole
    <2>3. Head(R) = R[1]
      <3> HIDE DEF R
      <3> QED BY SMT, <2>2
    <2> QED BY <2>1, <2>2, <2>3
  <1> QED
    BY <1>2, <1>3

\* Reading the clock at n changes nothing else.
LEMMA ClockRead ==
    ASSUME NEW o \in Order, NEW n \in Nat
    PROVE  /\ [o EXCEPT !.now = n] \in Order /\ [o EXCEPT !.now = n].now = n
           /\ [o EXCEPT !.now = n].order = o.order /\ [o EXCEPT !.now = n].weights = o.weights
  BY SMT DEF Order

\* Weighted: over a full turn of the clock k comes first as often as its weight says.
LEMMA WeightedTurns ==
    ASSUME NEW o \in Order, NEW m \in Mask, NEW k \in Whites(m),
           o.order = "weighted", sum(o.weights, Whites(m)) > 0
    PROVE  Turns(o, m, k, sum(o.weights, Whites(m))) = o.weights[k]
  <1> DEFINE white == Whites(m)
             f == sums(o.weights, white)
             at(n) == [o EXCEPT !.now = n]
  <1>0. white \subseteq Ips /\ white # {} /\ k \in Ips /\ k \in white /\ o.weights \in [Ips -> Nat] /\ N \in Nat
    BY SMT, CountAssumption DEF Whites, Order
  <1>1. f[k] = f[k - 1] + o.weights[k] /\ \A j \in 0 .. N : f[j] \in Nat
    BY <1>0, SumsStep
  <1>2. sum(o.weights, white) = f[N]
    BY DEF sum
  <1>3. f[k] <= f[N] /\ k \in 0 .. N /\ k - 1 \in 0 .. N /\ N \in 0 .. N
    <2>1. k \in 0 .. N /\ k - 1 \in 0 .. N /\ N \in 0 .. N /\ k <= N
      BY SMT, <1>0 DEF Ips
    <2> QED BY <1>0, <2>1, SumsGrow
  <1>4. f[k] \in Nat /\ f[k - 1] \in Nat /\ f[N] \in Nat /\ o.weights[k] \in Nat
    BY <1>0, <1>1, <1>3
  <1>5. ASSUME NEW n \in 0 .. f[N] - 1
        PROVE  Head(OrderIps(at(n), m)) = k <=> f[k - 1] <= n /\ n < f[k]
    <2>1. n \in Nat /\ n < f[N] /\ f[N] > 0
      <3> HIDE DEF f
      <3> QED BY SMT, <1>4
    <2>2. at(n) \in Order /\ at(n).now = n /\ at(n).order = "weighted" /\ at(n).weights = o.weights
      BY <2>1, ClockRead
    <2> HIDE DEF at
    <2>3. Head(OrderIps(at(n), m)) = index(at(n), white)
      BY <1>0, <2>2, IndexIsFirst
    <2>4. sum(at(n).weights, white) > 0
      BY <1>2, <2>1, <2>2
    <2>5. n % f[N] = n
      <3> HIDE DEF f
      <3> QED BY <1>4, <2>1, Remainder
    <2>6. index(at(n), white) = WeightIndex(at(n), white, 0)
      BY SMT, <2>2, <2>4 DEF index
    <2>7. WeightIndex(at(n), white, 0) = k <=>
             /\ sums(at(n).weights, white)[k - 1] <= at(n).now % sum(at(n).weights, white)
             /\ at(n).now % sum(at(n).weights, white) < sums(at(n).weights, white)[k]
      BY <1>0, <2>2, <2>4, WeightedIndex
    <2>8. WeightIndex(at(n), white, 0) = k <=> f[k - 1] <= n /\ n < f[k]
      BY <1>2, <2>2, <2>5, <2>7
    <2> QED BY <2>3, <2>6, <2>8
  <1>6. {n \in 0 .. f[N] - 1 : Head(OrderIps(at(n), m)) = k} = f[k - 1] .. f[k] - 1
    <2> DEFINE T == {n \in 0 .. f[N] - 1 : Head(OrderIps(at(n), m)) = k}
    <2>1. \A n \in T : n \in 0 .. f[N] - 1 /\ f[k - 1] <= n /\ n < f[k]
      BY <1>5
    <2>2. \A n \in 0 .. f[N] - 1 : f[k - 1] <= n /\ n < f[k] => n \in T
      BY <1>5
    <2> HIDE DEF T, f
    <2>3. T \subseteq f[k - 1] .. f[k] - 1
      BY SMT, <1>4, <2>1
    <2>4. \A n \in f[k - 1] .. f[k] - 1 : n \in 0 .. f[N] - 1 /\ f[k - 1] <= n /\ n < f[k]
      BY SMT, <1>3, <1>4
    <2>5. T = f[k - 1] .. f[k] - 1
      BY <2>2, <2>3, <2>4
    <2> QED BY <2>5 DEF T
  <1>7. Cardinality(f[k - 1] .. f[k] - 1) = o.weights[k]
    <2> HIDE DEF f
    <2>1. f[k - 1] \in Int /\ f[k] - 1 \in Int
      BY SMT, <1>4
    <2>2. Cardinality(f[k - 1] .. f[k] - 1) = IF f[k - 1] > f[k] - 1 THEN 0 ELSE (f[k] - 1) - f[k - 1] + 1
      BY <2>1, FS_Interval
    <2> QED BY SMT, <1>1, <1>4, <2>2
  <1> HIDE DEF f
  <1> QED
    BY <1>2, <1>6, <1>7 DEF Turns

\* Round robin: over a full turn of the clock k comes first once.
LEMMA RoundRobinTurns ==
    ASSUME NEW o \in Order, NEW m \in Mask, NEW k \in Whites(m),
           o.order = "rr" \/ (o.order = "weighted" /\ ~(sum(o.weights, Whites(m)) > 0))
    PROVE  Turns(o, m, k, Cardinality(Whites(m))) = 1
  <1> DEFINE white == Whites(m)
             c == Cardinality(white)
             at(n) == [o EXCEPT !.now = n]
  <1>0. white \subseteq Ips /\ white # {} /\ k \in white /\ o.weights \in [Ips -> Nat]
    BY SMT DEF Whites, Order
  <1>1. o.order = "rr" \/ (o.order = "weighted" /\ sum(o.weights, white) = 0)
    <2>1. N \in 0 .. N
      BY SMT, CountAssumption
    <2>2. sum(o.weights, white) \in Nat
      BY <1>0, <2>1, SumsStep DEF sum
    <2> HIDE DEF white
    <2>3. ~(sum(o.weights, white) > 0) => sum(o.weights, white) = 0
      BY SMT, <2>2
    <2> QED BY <2>3 DEF white
  <1>2. c \in Nat /\ Rank(white, k) \in 0 .. c - 1
    BY <1>0, Ranked
  <1>3. ASSUME NEW n \in 0 .. c - 1
        PROVE  Head(OrderIps(at(n), m)) = k <=> n = Rank(white, k)
    <2>1. n \in Nat /\ n < c /\ c > 0
      <3> HIDE DEF c
      <3> QED BY SMT, <1>2
    <2>2. at(n) \in Order /\ at(n).now = n /\ at(n).order = o.order /\ at(n).weights = o.weights
      BY <2>1, ClockRead
    <2> HIDE DEF at
    <2>3. Head(OrderIps(at(n), m)) = index(at(n), white)
      BY <1>0, <2>2, IndexIsFirst
    <2>4. /\ at(n).order = "rr" \/ (at(n).order = "weighted" /\ sum(at(n).weights, white) = 0)
          /\ ~(at(n).order = "weighted" /\ sum(at(n).weights, white) > 0)
      BY SMT, <1>1, <2>2
    <2>5. index(at(n), white) = CHOOSE l \in white : Rank(white, l) = n % c
      BY <2>2, <2>4 DEF index, Rank
    <2>6. n % c = n
      <3> HIDE DEF c
      <3> QED BY <1>2, <2>1, Remainder
    <2>7. (CHOOSE l \in white : Rank(white, l) = n % c) = k <=> Rank(white, k) = n % c
      BY <1>0, <2>1, RoundRobinIndex
    <2> QED BY <2>3, <2>5, <2>6, <2>7
  <1>4. {n \in 0 .. c - 1 : Head(OrderIps(at(n), m)) = k} = {Rank(white, k)}
    <2> DEFINE T == {n \in 0 .. c - 1 : Head(OrderIps(at(n), m)) = k}
    <2>1. \A n \in T : n = Rank(white, k)
      BY <1>3
    <2>2. Rank(white, k) \in T
      BY <1>2, <1>3
    <2> HIDE DEF T
    <2>3. T = {Rank(white, k)}
      BY <2>1, <2>2
    <2> QED BY <2>3 DEF T
  <1> QED
    BY <1>4, FS_Singleton DEF Turns

\* Any other order: the first of the white addresses comes first.
LEMMA FirstIsFirst ==
    ASSUME NEW o \in Order, NEW m \in Mask, Whites(m) # {}, o.order = "none"
    PROVE  \A j \in Whites(m) : Head(OrderIps(o, m)) <= j
  <1> DEFINE white == Whites(m)
  <1>1. white \subseteq Nat
    BY SMT DEF Whites, Ips
  <1>2. \E k \in white : \A j \in white : k <= j
    BY <1>1, LeastOf
  <1>3. index(o, white) = CHOOSE k \in white : \A j \in white : k <= j
    BY SMT DEF index
  <1>4. Head(OrderIps(o, m)) = index(o, white)
    BY IndexIsFirst
  <1> QED
    BY <1>2, <1>3, <1>4

\* What OrderIps returns is fair, whatever it is given.
LEMMA OrderIpsIsFair ==
    ASSUME NEW o \in Order, NEW m \in Mask
    PROVE  Fair(o, m, OrderIps(o, m)) /\ OrderIps(o, m) \in Seq(Ips)
  <1> DEFINE white == Whites(m)
             ips == OrderIps(o, m)
             start == index(o, white)
             Kept == /\ o.count = "multi" => Range(ips) = white /\ Len(ips) = Cardinality(white)
                     /\ o.count = "single" /\ white # {} => Len(ips) = 1 /\ Range(ips) \subseteq white
             Cyclic == \A n \in 1 .. Len(ips) - 1 :
                          ips[n + 1] \in After(white, ips[n]) /\ \A j \in After(white, ips[n]) : ips[n + 1] <= j
             Clocked == \A k \in white :
                           CASE o.order = "weighted" /\ sum(o.weights, white) > 0 ->
                                  Turns(o, m, k, sum(o.weights, white)) = o.weights[k]
                             [] o.order = "none" -> \A j \in white : Head(ips) <= j
                             [] OTHER -> Turns(o, m, k, Cardinality(white)) = 1
  <1>0. o.order \in {"weighted", "rr", "none"} /\ o.count \in {"single", "multi"} /\ white \subseteq Ips
    BY SMT DEF Order, Whites
  <1>1. CASE white = {}
    <2>1. ips = <<>>
      BY <1>1 DEF OrderIps
    <2> HIDE DEF ips
    <2>2. ips \in Seq(Ips) /\ Len(ips) = 0 /\ Range(ips) = {} /\ 1 .. Len(ips) - 1 = {}
      BY SMT, <2>1 DEF Range
    <2>3. Kept /\ Cyclic /\ Clocked
      BY <1>1, <2>2, FS_EmptySet
    <2> QED BY <2>2, <2>3 DEF Fair, After, ips
  <1>2. CASE white # {}
    <2>1. start \in white /\ start \in Ips
      BY <1>0, <1>2, IndexIsWhite
    <2>2. ips \in Seq(Ips)
      BY <1>2, IndexIsFirst
    <2>3. Kept /\ Cyclic
      <3>1. CASE o.count = "single"
        <4>1. ips = <<start>>
          BY <1>2, <3>1 DEF OrderIps
        <4> HIDE DEF ips, start, white
        <4>2. Len(ips) = 1 /\ Range(ips) = {start} /\ 1 .. Len(ips) - 1 = {}
          BY SMT, <4>1 DEF Range
        <4>3. o.count # "multi"
          BY <3>1
        <4> QED BY <2>1, <4>2, <4>3
      <3>2. CASE o.count = "multi"
        <4>1. ips = appended(start, m)[N]
          BY <1>2, <3>2 DEF OrderIps
        <4>2. o.count # "single"
          BY <3>2
        <4> HIDE DEF ips, start
        <4>3. Len(ips) = Cardinality(white) /\ Range(ips) = white /\ Cyclic
          BY <2>1, <4>1, AppendedWhole
        <4> QED BY <4>2, <4>3
      <3> QED BY <1>0, <3>1, <3>2
    <2>4. Clocked
      <3> SUFFICES ASSUME NEW k \in white
                   PROVE  CASE o.order = "weighted" /\ sum(o.weights, white) > 0 ->
                                  Turns(o, m, k, sum(o.weights, white)) = o.weights[k]
                             [] o.order = "none" -> \A j \in white : Head(ips) <= j
                             [] OTHER -> Turns(o, m, k, Cardinality(white)) = 1
        OBVIOUS
      <3>1. CASE o.order = "weighted" /\ sum(o.weights, white) > 0
        <4>1. Turns(o, m, k, sum(o.weights, white)) = o.weights[k] /\ o.order # "none"
          BY <3>1, WeightedTurns
        <4> HIDE DEF white, ips
        <4> QED BY <3>1, <4>1
      <3>2. CASE o.order = "none"
        <4>1. (\A j \in white : Head(ips) <= j) /\ o.order # "weighted"
          BY <1>2, <3>2, FirstIsFirst
        <4> HIDE DEF white, ips
        <4> QED BY <3>2, <4>1
      <3>3. CASE o.order = "rr" \/ (o.order = "weighted" /\ ~(sum(o.weights, white) > 0))
        <4>1. Turns(o, m, k, Cardinality(white)) = 1 /\ o.order # "none"
          BY <3>3, RoundRobinTurns
        <4>2. ~(o.order = "weighted" /\ sum(o.weights, white) > 0)
          BY <3>3
        <4> HIDE DEF white, ips
        <4> QED BY <4>1, <4>2
      <3> HIDE DEF white
      <3> QED BY <1>0, <3>1, <3>2, <3>3
    <2> QED BY <2>2, <2>3, <2>4 DEF Fair, After
  <1> QED
    BY <1>1, <1>2

\* Types of the filter's state, the answer included: it is made of the record's
\* own addresses.
THEOREM TypeCorrect == Spec => []TypeOK
  <1>0. N \in Nat /\ 1 \in 1 .. N + 1 /\ <<>> \in Seq(Ips) /\ <<>> \in Seq(Statuses)
    BY SMT, CountAssumption
  <1>1. Init => TypeOK
    <2> SUFFICES ASSUME Init PROVE TypeOK
      OBVIOUS
    <2>1. IInv
      BY InitIInv
    <2> QED
      BY <1>0, <2>1 DEF Init, TypeOK, IInv, Loops
  <1>2. IInv /\ TypeOK /\ [Next]_vars => TypeOK'
    <2> SUFFICES ASSUME IInv, TypeOK, [Next]_vars PROVE TypeOK'
      OBVIOUS
    <2>1. IInv'
      BY StepIInv
    <2>2. /\ pc' \in {"max", "mask", "geo", "order", "done", "panic"}
          /\ mask' \in Mask /\ healthy' \in Mask /\ min' \in Int
      BY <2>1 DEF IInv, Loops
    <2>3. \A s \in Seq(Statuses), e \in Statuses : Append(s, e) \in Seq(Statuses)
      BY SMT, AppendProperties
    <2>4. i <= N => i + 1 \in 1 .. N + 1
      BY SMT, <1>0 DEF TypeOK
    <2>5. CASE FilterHealthcheckMax
      BY <2>2, <2>3, <2>4, <2>5 DEF FilterHealthcheckMax, TypeOK
    <2>6. CASE FilterHealthcheckMin
      BY <1>0, <2>2, <2>6 DEF FilterHealthcheckMin, LowerTo, TypeOK
    <2>7. CASE FilterHealthcheckMask
      BY <2>2, <2>3, <2>4, <2>7 DEF FilterHealthcheckMask, MaskFrom, TypeOK
    <2>8. CASE FilterHealthcheckReturn
      BY <1>0, <2>2, <2>8 DEF FilterHealthcheckReturn, TypeOK
    <2>9. CASE GeoFilter
      <3>1. geo' \in Geo /\ UNCHANGED <<enable, i, min, first, second, healthy, ord, result>>
        BY <2>9, InputAssumption DEF GeoFilter
      <3> QED
        BY <2>2, <3>1 DEF TypeOK
    <2>10. CASE FilterReturn
      <3>1. PICK o \in Orders : ord' = o /\ result' = OrderIps(o, mask)
        BY <2>10 DEF FilterReturn
      <3>2. ord' \in Order /\ result' \in Seq(Ips)
        BY <3>1, InputAssumption, OrderIpsIsFair DEF TypeOK
      <3>3. geo' = Nil /\ UNCHANGED <<enable, i, min, first, second, healthy>>
        BY <2>10 DEF FilterReturn
      <3> QED
        BY <2>2, <3>2, <3>3 DEF TypeOK
    <2>11. CASE UNCHANGED vars
      BY <2>11 DEF vars, TypeOK
    <2> QED
      BY <2>5, <2>6, <2>7, <2>8, <2>9, <2>10, <2>11 DEF Next
  <1> QED
    BY <1>1, <1>2, Invariance, PTL DEF Spec

\* Filter's answer: OrderIps loses and repeats no address, keeps the saved order
\* cyclically, and shares the first place among the addresses as the order asks,
\* for any number of addresses and any weights.
THEOREM OrderFairness == Spec => []OrderIsFair
  <1>1. Init => OrderIsFair
    BY DEF Init, OrderIsFair
  <1>2. TypeOK /\ OrderIsFair /\ [Next]_vars => OrderIsFair'
    <2> SUFFICES ASSUME TypeOK, OrderIsFair, [Next]_vars
                 PROVE  OrderIsFair'
      OBVIOUS
    <2>1. CASE FilterReturn
      <3>1. PICK o \in Orders : ord' = o /\ result' = OrderIps(o, mask)
        BY <2>1 DEF FilterReturn
      <3>2. mask' = mask /\ mask \in Mask /\ o \in Order
        BY <2>1, InputAssumption DEF FilterReturn, TypeOK
      <3>3. Fair(ord', mask', result')
        BY <3>1, <3>2, OrderIpsIsFair
      <3> QED
        BY <3>3 DEF OrderIsFair
    <2>2. CASE FilterHealthcheckMax \/ FilterHealthcheckMin \/ FilterHealthcheckMask
               \/ FilterHealthcheckReturn \/ GeoFilter
      <3>1. pc' # "done"
        BY <2>2 DEF FilterHealthcheckMax, FilterHealthcheckMin, LowerTo, FilterHealthcheckMask,
                    MaskFrom, FilterHealthcheckReturn, GeoFilter
      <3> QED
        BY <3>1 DEF OrderIsFair
    <2>3. CASE UNCHANGED vars
      BY <2>3 DEF vars, OrderIsFair
    <2> QED
      BY <2>1, <2>2, <2>3 DEF Next
  <1> QED
    BY <1>1, <1>2, TypeCorrect, PTL DEF Spec
=============================================================================
