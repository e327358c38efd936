-------------------------- MODULE ZoneLookupProofs --------------------------
(***************************************************************************)
(* Proofs about the two halves of h.Zones: NameMatching, which looks a     *)
(* question up in it, and ZoneRegistry, which keeps it up to date.         *)
(*                                                                         *)
(* The first part is about names: for all sets of zones, locations and     *)
(* questions, of names of any length, FindZone and FindLocation find what  *)
(* they should.  The second part is about the list: it never goes back,    *)
(* for any number of writes and with a redis that fails or not.  That it   *)
(* catches up (ZonesConverge) is a matter of fairness and left to the      *)
(* model checker.                                                          *)
(***************************************************************************)
EXTENDS NameMatching, ZoneRegistry, SequenceTheorems, WellFoundedInduction, TLAPS

\* A leaf goes to Zenon unless it names SMT, for arithmetic and for records and
\* functions given by their values, or PTL, for the temporal steps.
USE ZenonT(60)
-----------------------------------------------------------------------------
\* A non-empty set of natural numbers with an upper bound has a greatest element:
\* LongestPrefix has a longest entry to return.
LEMMA Greatest ==
    ASSUME NEW b \in Nat, NEW T, T \subseteq 0 .. b, T # {}
    PROVE  \E m \in T : \A k \in T : k <= m
  <1> DEFINE R == OpToRel(<, Nat)
             U == {u \in 0 .. b : b - u \in T}
  <1>1. U \subseteq Nat /\ U # {}
    <2>1. PICK t \in T : TRUE
      OBVIOUS
    <2>2. b - t \in 0 .. b /\ b - (b - t) = t
      BY SMT
    <2> QED
      BY SMT, <2>1, <2>2
  <1>2. IsWellFoundedOn(R, Nat)
    BY NatLessThanWellFounded
  <1>3. PICK x \in U : \A y \in U : ~(<<y, x>> \in R)
    <2> HIDE DEF R, U
    <2> QED BY <1>1, <1>2, WFMin
  <1>4. \A y \in U : ~(y < x)
    <2> SUFFICES ASSUME NEW y \in U, y < x
                 PROVE  <<y, x>> \in R
      BY <1>3
    <2> QED
      BY <1>1 DEF OpToRel
  <1>5. ASSUME NEW k \in T
        PROVE  k <= b - x
    <2>1. b - k \in U
      BY SMT, <1>5
    <2>2. ~(b - k < x)
      BY <2>1, <1>4
    <2>3. x \in 0 .. b /\ k \in 0 .. b
      OBVIOUS
    <2> HIDE DEF U
    <2> QED
      BY SMT, <2>2, <2>3
  <1> QED
    BY <1>5

\* The last k characters of a name: the text that remains when FindLocation has
\* cut the labels in front of them.
LEMMA LastOf ==
    ASSUME NEW n \in Texts, NEW k \in 0 .. Len(n)
    PROVE  /\ Last(n, k) \in Texts /\ Len(Last(n, k)) = k
           /\ \A i \in 1 .. k : Last(n, k)[i] = n[Len(n) - k + i]
  <1>1. Len(n) \in Nat /\ \A i \in 1 .. Len(n) : n[i] \in Chars
    BY SMT DEF Texts
  <1>2. \A i \in Len(n) - k + 1 .. Len(n) : n[i] \in Chars
    BY SMT, <1>1
  <1> QED
    BY SMT, <1>1, <1>2, SubSeqProperties DEF Texts, Last

\* Texts are equal if their characters are.
LEMMA Same ==
    ASSUME NEW a \in Texts, NEW b \in Texts, Len(a) = Len(b),
           \A i \in 1 .. Len(a) : a[i] = b[i]
    PROVE  a = b
  BY SeqEqual DEF Texts

\* Cutting a name that was cut before is cutting it once: splitQuery applied to
\* its own result goes up the query's enclosers.
LEMMA LastOfLast ==
    ASSUME NEW n \in Texts, NEW j \in 0 .. Len(n), NEW k \in 0 .. j
    PROVE  Last(Last(n, j), k) = Last(n, k)
  <1>1. Len(n) \in Nat
    BY SMT DEF Texts
  <1>2. k \in 0 .. Len(n) /\ k \in 0 .. Len(Last(n, j)) /\ Last(n, j) \in Texts
    BY SMT, <1>1, LastOf
  <1> DEFINE m == Last(n, j)
  <1>3. Len(m) = j /\ \A i \in 1 .. j : m[i] = n[Len(n) - j + i]
    BY LastOf
  <1>4. /\ Last(m, k) \in Texts /\ Len(Last(m, k)) = k
        /\ \A i \in 1 .. k : Last(m, k)[i] = m[Len(m) - k + i]
    BY <1>2, LastOf
  <1>5. /\ Last(n, k) \in Texts /\ Len(Last(n, k)) = k
        /\ \A i \in 1 .. k : Last(n, k)[i] = n[Len(n) - k + i]
    BY <1>2, LastOf
  <1> HIDE DEF m
  <1>6. ASSUME NEW i \in 1 .. k
        PROVE  Last(m, k)[i] = Last(n, k)[i]
    <2>1. j - k + i \in 1 .. j /\ Len(n) - j + (j - k + i) = Len(n) - k + i
      BY SMT, <1>1
    <2> QED
      BY <2>1, <1>3, <1>4, <1>5
  <1>7. Last(m, k) = Last(n, k)
    BY <1>4, <1>5, <1>6, Same
  <1> QED
    BY <1>7 DEF m

\* Nothing cut, the name itself.
LEMMA WholeName ==
    ASSUME NEW n \in Texts
    PROVE  Last(n, Len(n)) = n
  <1>1. Len(n) \in Nat /\ Len(n) \in 0 .. Len(n)
    BY SMT DEF Texts
  <1> QED
    BY SMT, <1>1, LastOf, Same

\* Every text has a length, and characters up to there.
LEMMA TextOf ==
    ASSUME NEW n \in Texts
    PROVE  Len(n) \in Nat /\ \A i \in 1 .. Len(n) : n[i] \in Chars
  BY SMT DEF Texts

\* The empty text, which the search of FindLocation ends with.
LEMMA EmptyText == <<>> \in Texts /\ Len(<<>>) = 0 /\ \A n \in Texts : Last(n, 0) = <<>>
  <1>1. <<>> \in Texts /\ Len(<<>>) = 0
    BY EmptySeq DEF Texts
  <1>2. ASSUME NEW n \in Texts
        PROVE  Last(n, 0) = <<>>
    <2>1. Len(n) \in Nat /\ 0 \in 0 .. Len(n)
      BY SMT, TextOf
    <2>2. Last(n, 0) \in Texts /\ Len(Last(n, 0)) = 0
      BY <2>1, LastOf
    <2> QED
      BY <2>2, EmptySeq DEF Texts
  <1> QED
    BY <1>1, <1>2

\* A dot in front of a text (reverseZone, and the suffix that FindLocation trims).
LEMMA Dotted ==
    ASSUME NEW n \in Texts
    PROVE  /\ <<Dot>> \o n \in Texts /\ Len(<<Dot>> \o n) = Len(n) + 1
           /\ (<<Dot>> \o n)[1] = Dot
           /\ \A i \in 1 .. Len(n) : (<<Dot>> \o n)[i + 1] = n[i]
  <1>1. <<Dot>> \in Seq(Chars) /\ Len(<<Dot>>) = 1 /\ <<Dot>>[1] = Dot
    BY SMT, CharAssumption
  <1>2. n \in Seq(Chars) /\ Len(n) \in Nat
    BY TextOf DEF Texts
  <1> DEFINE d == <<Dot>> \o n
             one == <<Dot>>
  <1>3. /\ d \in Seq(Chars) /\ Len(d) = Len(one) + Len(n)
        /\ \A i \in 1 .. Len(one) + Len(n) :
              d[i] = IF i <= Len(one) THEN one[i] ELSE n[i - Len(one)]
    BY <1>1, <1>2, ConcatProperties
  <1>4. Len(one) = 1 /\ one[1] = Dot
    BY <1>1
  <1> HIDE DEF d, one
  <1>5. Len(d) = Len(n) + 1 /\ d[1] = Dot
    BY SMT, <1>2, <1>3, <1>4
  <1>6. ASSUME NEW i \in 1 .. Len(n)
        PROVE  d[i + 1] = n[i]
    BY SMT, <1>2, <1>3, <1>4
  <1> QED
    BY <1>3, <1>5, <1>6 DEF d, Texts

\* The loop of reverseZone exchanges the characters from both ends.
LEMMA ReversedOf ==
    ASSUME NEW n \in Texts
    PROVE  /\ Reversed(n) \in Texts /\ Len(Reversed(n)) = Len(n)
           /\ \A i \in 1 .. Len(n) : Reversed(n)[i] = n[Len(n) - i + 1]
  <1>1. Len(n) \in Nat /\ \A i \in 1 .. Len(n) : n[i] \in Chars
    BY TextOf
  <1>2. \A i \in 1 .. Len(n) : n[Len(n) - i + 1] \in Chars
    BY SMT, <1>1
  <1> QED
    BY SMT, <1>1, <1>2 DEF Reversed, Texts

\* A prefix of the reversed text is a suffix of the text.
LEMMA PrefixReversed ==
    ASSUME NEW m \in Texts, NEW n \in Texts
    PROVE  HasPrefix(Reversed(n), Reversed(m)) <=> HasSuffix(n, m)
  <1> DEFINE r == Reversed(n)
             s == Reversed(m)
             k == Len(m)
  <1>1. Len(n) \in Nat /\ k \in Nat
    BY TextOf
  <1>2. /\ r \in Texts /\ Len(r) = Len(n) /\ \A i \in 1 .. Len(n) : r[i] = n[Len(n) - i + 1]
        /\ s \in Texts /\ Len(s) = k /\ \A i \in 1 .. k : s[i] = m[k - i + 1]
    BY ReversedOf
  <1> HIDE DEF r, s, k
  <1>3. CASE k <= Len(n)
    <2>1. k \in 0 .. Len(n) /\ 1 \in Int /\ k \in Int
      BY SMT, <1>1, <1>3
    <2>2. /\ Last(n, k) \in Texts /\ Len(Last(n, k)) = k
          /\ \A i \in 1 .. k : Last(n, k)[i] = n[Len(n) - k + i]
      BY <2>1, LastOf
    <2>3. \A i \in 1 .. k : r[i] \in Chars
      BY SMT, <1>1, <1>2, <1>3, TextOf
    <2>5. /\ SubSeq(r, 1, k) \in Texts /\ Len(SubSeq(r, 1, k)) = k
          /\ \A i \in 1 .. k : SubSeq(r, 1, k)[i] = r[i]
      BY SMT, <1>1, <2>3, SubSeqProperties DEF Texts
    <2>6. ASSUME SubSeq(r, 1, k) = s
          PROVE  Last(n, k) = m
      <3>1. ASSUME NEW i \in 1 .. k
            PROVE  Last(n, k)[i] = m[i]
        <4>1. /\ k - i + 1 \in 1 .. k /\ k - i + 1 \in 1 .. Len(n)
              /\ Len(n) - (k - i + 1) + 1 = Len(n) - k + i /\ k - (k - i + 1) + 1 = i
          BY SMT, <1>1, <1>3
        <4>2. s[k - i + 1] = m[i] /\ r[k - i + 1] = n[Len(n) - k + i]
          BY <1>2, <4>1
        <4>3. r[k - i + 1] = s[k - i + 1]
          BY <2>5, <2>6, <4>1
        <4> QED
          BY <2>2, <4>2, <4>3
      <3> QED
        BY <2>2, <3>1, Same DEF k
    <2>7. ASSUME Last(n, k) = m
          PROVE  SubSeq(r, 1, k) = s
      <3>1. ASSUME NEW i \in 1 .. k
            PROVE  SubSeq(r, 1, k)[i] = s[i]
        <4>1. /\ k - i + 1 \in 1 .. k /\ i \in 1 .. Len(n)
              /\ Len(n) - k + (k - i + 1) = Len(n) - i + 1
          BY SMT, <1>1, <1>3
        <4>2. m[k - i + 1] = n[Len(n) - k + (k - i + 1)]
          BY <2>2, <2>7, <4>1
        <4> QED
          BY <1>2, <2>5, <4>1, <4>2
      <3> QED
        BY <1>2, <2>5, <3>1, Same
    <2> QED
      BY <1>2, <1>3, <2>6, <2>7 DEF HasPrefix, HasSuffix, r, s, k
  <1>4. CASE ~(k <= Len(n))
    BY <1>2, <1>4 DEF HasPrefix, HasSuffix, r, s, k
  <1> QED
    BY <1>3, <1>4

\* An encloser is what is left of a name behind one of its dots, or nothing.
LEMMA EncloserType ==
    ASSUME NEW n \in Texts, NEW e \in Enclosers(n)
    PROVE  /\ e \in Texts /\ Len(e) \in 0 .. Len(n) /\ e = Last(n, Len(e))
           /\ \/ e = <<>> /\ Len(e) = 0
              \/ \E j \in Dots(n) : e = Last(n, Len(n) - j) /\ Len(e) = Len(n) - j
           /\ n # <<>> => Len(e) < Len(n)
  <1>1. Len(n) \in Nat
    BY TextOf
  <1>2. n # <<>> => Len(n) # 0
    BY EmptySeq DEF Texts
  <1>3. CASE e = <<>>
    <2>1. e \in Texts /\ Len(e) = 0 /\ e = Last(n, 0)
      BY <1>3, EmptyText
    <2>2. 0 \in 0 .. Len(n) /\ (n # <<>> => 0 < Len(n))
      BY SMT, <1>1, <1>2
    <2> QED
      BY <1>3, <2>1, <2>2
  <1>4. CASE e # <<>>
    <2>1. PICK j \in Dots(n) : e = Last(n, Len(n) - j)
      BY <1>4 DEF Enclosers
    <2>2. Len(n) - j \in 0 .. Len(n) /\ Len(n) - j < Len(n)
      BY SMT, <1>1 DEF Dots
    <2>3. e \in Texts /\ Len(e) = Len(n) - j
      BY <2>1, <2>2, LastOf
    <2> QED
      BY <2>1, <2>2, <2>3
  <1> QED
    BY <1>3, <1>4

\* The names a question lies in are parts of its text, and differ in length.
LEMMA BelowType ==
    ASSUME NEW n \in Texts, NEW a, Below(n, a)
    PROVE  a \in Texts /\ Len(a) \in 0 .. Len(n) /\ a = Last(n, Len(a))
  <1>1. CASE a = n
    <2>1. Len(n) \in 0 .. Len(n)
      BY SMT, TextOf
    <2> QED
      BY <1>1, <2>1, WholeName
  <1>2. CASE a # n
    BY <1>2, EncloserType DEF Below
  <1> QED
    BY <1>1, <1>2

\* strings.HasSuffix sees every name that lies below another: keyMatches may take
\* too much for a match, never too little.
LEMMA BelowIsHasSuffix ==
    ASSUME NEW n \in Texts, NEW a, Below(n, a)
    PROVE  HasSuffix(n, a)
  <1>1. a \in Texts /\ Len(a) \in 0 .. Len(n) /\ a = Last(n, Len(a)) /\ Len(n) \in Nat
    BY BelowType, TextOf
  <1>2. Len(a) <= Len(n)
    BY SMT, <1>1
  <1> QED
    BY <1>1, <1>2 DEF HasSuffix

\* The dot that reverseZone puts in front makes the comparison of texts one of
\* labels: a name ends with the dotted text of another if it lies in it.
LEMMA BelowIsDotted ==
    ASSUME NEW n \in Texts, NEW a \in Texts, a # <<>>
    PROVE  HasSuffix(<<Dot>> \o n, <<Dot>> \o a) <=> Below(n, a)
  <1> DEFINE d == <<Dot>> \o n
             b == <<Dot>> \o a
             k == Len(a)
             l == Len(n)
  <1>1. l \in Nat /\ k \in Nat
    BY TextOf
  <1>2. /\ d \in Texts /\ Len(d) = l + 1 /\ d[1] = Dot /\ \A i \in 1 .. l : d[i + 1] = n[i]
        /\ b \in Texts /\ Len(b) = k + 1 /\ b[1] = Dot /\ \A i \in 1 .. k : b[i + 1] = a[i]
    BY Dotted
  <1>3. a = n => b = d
    OBVIOUS
  <1>4. HasSuffix(d, b) <=> Len(b) <= Len(d) /\ Last(d, Len(b)) = b
    BY DEF HasSuffix
  <1> HIDE DEF d, b
  <1>5. k + 1 <= l + 1 => /\ Last(d, k + 1) \in Texts /\ Len(Last(d, k + 1)) = k + 1
                          /\ \A i \in 1 .. k + 1 : Last(d, k + 1)[i] = d[l - k + i]
    <2> SUFFICES ASSUME k + 1 <= l + 1
                 PROVE  /\ Last(d, k + 1) \in Texts /\ Len(Last(d, k + 1)) = k + 1
                        /\ \A i \in 1 .. k + 1 : Last(d, k + 1)[i] = d[l - k + i]
      OBVIOUS
    <2>1. k + 1 \in 0 .. Len(d)
      BY SMT, <1>1, <1>2
    <2>2. /\ Last(d, k + 1) \in Texts /\ Len(Last(d, k + 1)) = k + 1
          /\ \A i \in 1 .. k + 1 : Last(d, k + 1)[i] = d[Len(d) - (k + 1) + i]
      BY <1>2, <2>1, LastOf
    <2>3. \A i \in 1 .. k + 1 : Len(d) - (k + 1) + i = l - k + i
      BY SMT, <1>1, <1>2
    <2> QED
      BY <2>2, <2>3
  <1>6. ASSUME HasSuffix(d, b)
        PROVE  Below(n, a)
    <2>1. k + 1 <= l + 1 /\ Last(d, k + 1) = b
      BY <1>2, <1>4, <1>6
    <2>2. ASSUME NEW i \in 1 .. k
          PROVE  n[l - k + i] = a[i]
      <3>1. i + 1 \in 1 .. k + 1 /\ l - k + i \in 1 .. l /\ l - k + (i + 1) = (l - k + i) + 1
        BY SMT, <1>1, <2>1
      <3>2. Last(d, k + 1)[i + 1] = d[l - k + (i + 1)]
        BY <1>5, <2>1, <3>1
      <3>3. b[i + 1] = d[(l - k + i) + 1]
        BY <2>1, <3>1, <3>2
      <3> QED
        BY <1>2, <3>1, <3>3
    <2>3. CASE k = l
      <3>1. \A i \in 1 .. k : l - k + i = i
        BY SMT, <1>1, <2>3
      <3>2. \A i \in 1 .. k : a[i] = n[i]
        BY <2>2, <3>1
      <3> QED
        BY <2>3, <3>2, Same DEF Below
    <2>4. CASE k # l
      <3>1. /\ l - k \in 1 .. l /\ 1 \in 1 .. k + 1 /\ k \in 0 .. l
            /\ l - (l - k) = k
        BY SMT, <1>1, <2>1, <2>4
      <3>2. b[1] = d[(l - k) + 1]
        BY <1>5, <2>1, <3>1
      <3>3. l - k \in Dots(n)
        BY <1>2, <3>1, <3>2 DEF Dots
      <3>4. /\ Last(n, k) \in Texts /\ Len(Last(n, k)) = k
            /\ \A i \in 1 .. k : Last(n, k)[i] = n[l - k + i]
        BY <3>1, LastOf
      <3>5. Last(n, k) = a
        <4> DEFINE q == Last(n, k)
        <4>1. Len(q) = Len(a) /\ \A i \in 1 .. Len(q) : q[i] = a[i]
          BY <2>2, <3>4
        <4>2. q \in Texts
          BY <3>4
        <4> HIDE DEF q
        <4>3. q = a
          BY <4>1, <4>2, Same
        <4> QED
          BY <4>3 DEF q
      <3>6. a = Last(n, Len(n) - (l - k))
        BY <3>1, <3>5
      <3> QED
        BY <3>3, <3>6 DEF Below, Enclosers
    <2> QED
      BY <2>3, <2>4
  <1>7. ASSUME Below(n, a)
        PROVE  HasSuffix(d, b)
    <2>1. CASE a = n
      <3>1. Len(b) <= Len(d)
        BY SMT, <1>1, <1>2, <2>1
      <3> QED
        BY <1>2, <1>3, <1>4, <2>1, <3>1, WholeName
    <2>2. CASE a # n
      <3>1. PICK j \in Dots(n) : a = Last(n, Len(n) - j) /\ Len(a) = Len(n) - j
        <4>1. a \in Enclosers(n)
          BY <1>7, <2>2 DEF Below
        <4> QED
          BY <4>1, EncloserType
      <3>2. /\ j \in 1 .. l /\ n[j] = Dot /\ k = l - j /\ l - k = j /\ k + 1 <= l + 1
            /\ k \in 0 .. l
        BY SMT, <1>1, <3>1 DEF Dots
      <3>3. \A i \in 1 .. k : a[i] = n[l - k + i]
        <4>1. a = Last(n, k)
          BY <3>1, <3>2
        <4> QED
          BY <3>2, <4>1, LastOf
      <3>4. ASSUME NEW i \in 1 .. k + 1
            PROVE  Last(d, k + 1)[i] = b[i]
        <4>1. Last(d, k + 1)[i] = d[l - k + i]
          BY <1>5, <3>2
        <4>2. CASE i = 1
          BY <1>2, <3>2, <4>1, <4>2
        <4>3. CASE i # 1
          <5>1. /\ i - 1 \in 1 .. k /\ l - k + (i - 1) \in 1 .. l
                /\ (i - 1) + 1 = i /\ (l - k + (i - 1)) + 1 = l - k + i
            BY SMT, <1>1, <3>2, <4>3
          <5>2. d[l - k + i] = n[l - k + (i - 1)] /\ b[i] = a[i - 1]
            BY <1>2, <5>1
          <5> QED
            BY <3>3, <4>1, <5>1, <5>2
        <4> QED
          BY <4>2, <4>3
      <3>5. Last(d, k + 1) = b
        BY <1>2, <1>5, <3>2, <3>4, Same
      <3> QED
        BY <1>2, <1>4, <3>2, <3>5
    <2> QED
      BY <2>1, <2>2
  <1> QED
    BY <1>6, <1>7 DEF d, b

\* The dots of the end of a text are dots of the text.
LEMMA DotsOfLast ==
    ASSUME NEW n \in Texts, NEW k \in 0 .. Len(n)
    PROVE  /\ \A j \in Dots(n) : Len(n) - j < k =>
                 j - (Len(n) - k) \in Dots(Last(n, k)) /\ Len(n) - j = k - (j - (Len(n) - k))
           /\ \A i \in Dots(Last(n, k)) :
                 Len(n) - k + i \in Dots(n) /\ i \in 1 .. k
                 /\ Len(n) - (Len(n) - k + i) = k - i
  <1> DEFINE m == Last(n, k)
             l == Len(n)
  <1>1. l \in Nat /\ k \in Nat /\ k <= l
    BY SMT, TextOf
  <1>2. Len(m) = k /\ \A i \in 1 .. k : m[i] = n[l - k + i]
    BY LastOf
  <1> HIDE DEF m
  <1>3. ASSUME NEW j \in Dots(n), l - j < k
        PROVE  j - (l - k) \in Dots(m) /\ l - j = k - (j - (l - k))
    <2>1. j \in 1 .. l /\ n[j] = Dot
      BY DEF Dots
    <2>2. j - (l - k) \in 1 .. k /\ l - k + (j - (l - k)) = j /\ l - j = k - (j - (l - k))
      BY SMT, <1>1, <1>3, <2>1
    <2>3. m[j - (l - k)] = n[l - k + (j - (l - k))]
      BY <1>2, <2>2
    <2> QED
      BY <1>2, <2>1, <2>2, <2>3 DEF Dots
  <1>4. ASSUME NEW i \in Dots(m)
        PROVE  l - k + i \in Dots(n) /\ i \in 1 .. k /\ l - (l - k + i) = k - i
    <2>1. i \in 1 .. k /\ n[l - k + i] = Dot
      BY <1>2 DEF Dots
    <2>2. l - k + i \in 1 .. l /\ l - (l - k + i) = k - i
      BY SMT, <1>1, <2>1
    <2> QED
      BY <2>1, <2>2 DEF Dots
  <1> QED
    BY <1>3, <1>4 DEF m

\* Of two names that enclose a question the longer lies in the shorter.
LEMMA EnclosersNest ==
    ASSUME NEW n \in Texts, NEW a, NEW b,
           Below(n, a), Below(n, b), Len(b) <= Len(a)
    PROVE  Below(a, b)
  <1> DEFINE l == Len(n)
             k == Len(a)
  <1>1. /\ l \in Nat /\ a \in Texts /\ k \in 0 .. l /\ a = Last(n, k)
        /\ b \in Texts /\ Len(b) \in 0 .. l /\ b = Last(n, Len(b))
    BY BelowType, TextOf
  <1>2. CASE b = <<>>
    BY <1>2 DEF Below, Enclosers
  <1>3. CASE Len(b) = k
    BY <1>1, <1>3 DEF Below
  <1>4. CASE b # <<>> /\ Len(b) # k
    <2>1. Len(b) < k /\ k <= l
      BY SMT, <1>1, <1>4
    <2>2. b # n
      BY SMT, <1>1, <2>1
    <2>3. PICK j \in Dots(n) : b = Last(n, l - j) /\ Len(b) = l - j
      <3>1. b \in Enclosers(n)
        BY <2>2 DEF Below
      <3> QED
        BY <1>4, <3>1, EncloserType
    <2> DEFINE i == j - (l - k)
    <2>4. i \in Dots(a) /\ l - j = k - i
      <3>1. l - j < k
        BY <2>1, <2>3
      <3>2. j - (Len(n) - k) \in Dots(Last(n, k)) /\ Len(n) - j = k - (j - (Len(n) - k))
        BY <1>1, <3>1, DotsOfLast
      <3> QED
        BY <1>1, <3>2
    <2>5. l - j \in 0 .. k
      BY SMT, <1>1, <2>1, <2>3
    <2>6. Last(Last(n, k), l - j) = Last(n, l - j)
      BY <1>1, <2>5, LastOfLast
    <2>7. Last(a, Len(a) - i) = b
      BY <1>1, <2>3, <2>4, <2>6
    <2> QED
      BY <2>4, <2>7 DEF Below, Enclosers
  <1> QED
    BY <1>2, <1>3, <1>4

\* The radix tree finds the entries that the question lies in: a prefix of the
\* reversed and dotted text is a name that encloses it.
LEMMA FoundIsBelow ==
    ASSUME NEW n \in Texts, NEW z \in Texts, z # <<>>
    PROVE  /\ HasPrefix(reverseZone(n), reverseZone(z)) <=> Below(n, z)
           /\ Len(reverseZone(z)) = Len(z) + 1
  <1>1. /\ <<Dot>> \o n \in Texts /\ <<Dot>> \o z \in Texts
        /\ Len(<<Dot>> \o z) = Len(z) + 1
    BY Dotted
  <1> QED
    BY <1>1, PrefixReversed, ReversedOf, BelowIsDotted DEF reverseZone

\* What LongestPrefix returns for a question: an entry that encloses it and lies in
\* every other one that does, or nothing if there is none.
LEMMA FindZoneIsInnermost ==
    ASSUME NEW n \in Texts, zones \subseteq Texts \ {<<>>}
    PROVE  /\ FindZone(n) = Nil => \A z \in zones : ~Below(n, z)
           /\ FindZone(n) # Nil =>
                 /\ FindZone(n) \in zones /\ Below(n, FindZone(n))
                 /\ \A z \in zones : Below(n, z) => Below(FindZone(n), z)
  <1> DEFINE found == {z \in zones : HasPrefix(reverseZone(n), reverseZone(z))}
             longest == CHOOSE z \in found :
                           \A y \in found : Len(reverseZone(y)) <= Len(reverseZone(z))
  <1>1. FindZone(n) = IF found = {} THEN Nil ELSE longest
    BY DEF FindZone
  <1>2. \A z : z \in found <=> z \in zones /\ Below(n, z)
    BY FoundIsBelow
  <1>3. ASSUME NEW z \in found
        PROVE  /\ z \in Texts /\ Len(z) \in 0 .. Len(n)
               /\ Len(reverseZone(z)) = Len(z) + 1
    BY <1>2, BelowType, FoundIsBelow
  <1> HIDE DEF found
  <1>4. CASE found = {}
    BY <1>1, <1>2, <1>4
  <1>5. CASE found # {}
    <2> DEFINE T == {Len(z) : z \in found}
    <2>1. T \subseteq 0 .. Len(n) /\ T # {} /\ Len(n) \in Nat
      BY <1>3, <1>5, TextOf
    <2>2. PICK m \in T : \A k \in T : k <= m
      <3> HIDE DEF T
      <3> QED BY <2>1, Greatest
    <2>3. PICK x \in found : \A y \in found : Len(y) <= Len(x)
      BY <2>2
    <2>4. ASSUME NEW y \in found, NEW z \in found
          PROVE  Len(reverseZone(y)) <= Len(reverseZone(z)) <=> Len(y) <= Len(z)
      <3>1. Len(y) \in 0 .. Len(n) /\ Len(z) \in 0 .. Len(n) /\ Len(n) \in Nat
        BY <1>3, TextOf
      <3>2. Len(reverseZone(y)) = Len(y) + 1 /\ Len(reverseZone(z)) = Len(z) + 1
        BY <1>3
      <3> QED
        BY SMT, <3>1, <3>2
    <2>5. \E z \in found : \A y \in found : Len(reverseZone(y)) <= Len(reverseZone(z))
      BY <2>3, <2>4
    <2>6. /\ longest \in found
          /\ \A y \in found : Len(reverseZone(y)) <= Len(reverseZone(longest))
      BY <2>5
    <2> HIDE DEF longest
    <2>7. longest \in Texts /\ longest \in zones /\ Below(n, longest)
      BY <1>2, <1>3, <2>6
    <2>8. ASSUME NEW z \in zones, Below(n, z)
          PROVE  Below(longest, z)
      <3>1. z \in found
        BY <1>2, <2>8
      <3>2. Len(z) <= Len(longest)
        BY <2>4, <2>6, <3>1
      <3> QED
        BY <2>7, <2>8, <3>2, EnclosersNest
    <2>9. FindZone(n) = longest /\ longest # Nil
      BY <1>1, <1>5, <2>7, CharAssumption
    <2> QED
      BY <2>7, <2>8, <2>9
  <1> QED
    BY <1>4, <1>5

\* keyMatches finds every existing name of the zone, those included which exist
\* because of a location below them.
LEMMA ExistingIsMatched ==
    ASSUME NEW n \in Texts, locations \subseteq Texts, n # <<>>, Exists(n)
    PROVE  keyMatches(n)
  BY BelowIsHasSuffix DEF Exists, keyMatches

\* The name of a wildcard is a text.
LEMMA WildCardType ==
    ASSUME NEW n \in Texts
    PROVE  WildCard(n) \in Texts
  <1>1. <<Star>> \in Seq(Chars) /\ <<Star, Dot>> \in Seq(Chars) /\ n \in Seq(Chars)
    BY SMT, CharAssumption DEF Texts
  <1>2. <<Star, Dot>> \o n \in Seq(Chars)
    BY <1>1, ConcatProperties
  <1> QED
    BY <1>1, <1>2 DEF WildCard, Texts

\* Every non-empty set of numbers has a least element; strings.Index finds the
\* first dot.
LEMMA Least ==
    ASSUME NEW T, T \subseteq Nat, T # {}
    PROVE  \E m \in T : \A k \in T : m <= k
  <1> DEFINE R == OpToRel(<, Nat)
  <1>1. IsWellFoundedOn(R, Nat)
    BY NatLessThanWellFounded
  <1>2. PICK x \in T : \A y \in T : ~(<<y, x>> \in R)
    <2> HIDE DEF R
    <2> QED BY <1>1, WFMin
  <1>3. \A y \in T : ~(y < x)
    <2> SUFFICES ASSUME NEW y \in T, y < x
                 PROVE  <<y, x>> \in R
      BY <1>2
    <2> QED
      BY DEF OpToRel
  <1>4. \A y \in T : x <= y
    BY SMT, <1>3
  <1> QED
    BY <1>4

\* splitQuery drops the first label.  From the query, or from one of its enclosers,
\* it leads to the next encloser and passes none, and it puts together that
\* encloser's wildcard, if the query does not end with a dot.
LEMMA Splits ==
    ASSUME NEW n \in Texts, NEW e, Below(n, e), e # <<>>,
           \A i \in Dots(n) : i < Len(n)
    PROVE  /\ Rest(e) \in Enclosers(n) /\ Len(Rest(e)) < Len(e)
           /\ \A f \in Enclosers(n) : Len(f) < Len(e) => Len(f) <= Len(Rest(e))
           /\ (IF Dots(e) = {} THEN <<Star>> ELSE <<Star, Dot>> \o Rest(e)) = WildCard(Rest(e))
  <1> DEFINE l == Len(n)
             k == Len(e)
  <1>1. l \in Nat /\ e \in Texts /\ k \in 0 .. l /\ e = Last(n, k)
    BY BelowType, TextOf
  <1>2. k # 0
    BY <1>1, EmptySeq DEF Texts
  <1>3. ASSUME NEW f \in Enclosers(n), Len(f) < k
        PROVE  \/ Len(f) = 0
               \/ \E i \in Dots(e) : Len(f) = k - i
    <2>1. CASE \E j \in Dots(n) : Len(f) = l - j
      <3>1. PICK j \in Dots(n) : Len(f) = l - j
        BY <2>1
      <3>2. l - j < k
        BY <1>3, <3>1
      <3>3. j - (l - k) \in Dots(Last(n, k)) /\ l - j = k - (j - (l - k))
        BY <1>1, <3>2, DotsOfLast
      <3> QED
        BY <1>1, <3>1, <3>3
    <2> QED
      BY <2>1, EncloserType
  <1>4. CASE Dots(e) = {}
    <2>1. Rest(e) = <<>> /\ Len(<<>>) = 0
      BY <1>4, EmptyText DEF Rest
    <2>2. 0 < k /\ 0 <= 0
      BY SMT, <1>1, <1>2
    <2>3. \A f \in Enclosers(n) : Len(f) < k => Len(f) <= Len(Rest(e))
      BY <1>3, <1>4, <2>1, <2>2
    <2> QED
      BY <1>4, <2>1, <2>2, <2>3 DEF Enclosers, WildCard
  <1>5. CASE Dots(e) # {}
    <2> DEFINE d == CHOOSE i \in Dots(e) : \A j \in Dots(e) : i <= j
    <2>1. Dots(e) \subseteq Nat
      BY SMT, <1>1 DEF Dots
    <2>2. \E i \in Dots(e) : \A j \in Dots(e) : i <= j
      BY <1>5, <2>1, Least
    <2>3. d \in Dots(e) /\ \A j \in Dots(e) : d <= j
      BY <2>2
    <2>4. Rest(e) = SubSeq(e, d + 1, Len(e))
      BY <1>5 DEF Rest
    <2> HIDE DEF d
    <2>5. l - k + d \in Dots(n) /\ d \in 1 .. k /\ l - (l - k + d) = k - d
      <3>1. d \in Dots(Last(n, k))
        BY <1>1, <2>3
      <3> HIDE DEF k
      <3> QED
        BY <1>1, <3>1, DotsOfLast
    <2>6. /\ k - d \in 0 .. k /\ k - d < k /\ k - (k - d) + 1 = d + 1
          /\ k - d # 0
      <3>1. l - k + d < l
        BY <2>5
      <3>2. l \in Nat /\ k \in 0 .. l /\ d \in 1 .. k
        BY <1>1, <2>5
      <3> HIDE DEF l, k
      <3> QED
        BY SMT, <3>1, <3>2
    <2>7. Rest(e) = Last(e, k - d)
      BY <2>4, <2>6 DEF Last
    <2>8. Last(e, k - d) = Last(n, k - d)
      <3>1. Last(Last(n, k), k - d) = Last(n, k - d)
        BY <1>1, <2>6, LastOfLast
      <3> QED
        BY <1>1, <3>1
    <2>9. Len(Rest(e)) = k - d
      BY <1>1, <2>6, <2>7, LastOf
    <2>10. Rest(e) \in Enclosers(n)
      <3>1. Rest(e) = Last(n, Len(n) - (l - k + d))
        BY <2>5, <2>7, <2>8
      <3> QED
        BY <2>5, <3>1 DEF Enclosers
    <2>11. ASSUME NEW f \in Enclosers(n), Len(f) < k
           PROVE  Len(f) <= Len(Rest(e))
      <3>1. CASE Len(f) = 0
        BY SMT, <2>6, <2>9, <3>1
      <3>2. CASE \E i \in Dots(e) : Len(f) = k - i
        <4>1. PICK i \in Dots(e) : Len(f) = k - i
          BY <3>2
        <4>2. d <= i /\ i \in Nat /\ k \in Nat /\ d \in Nat
          BY SMT, <1>1, <2>1, <2>3
        <4> QED
          BY SMT, <2>9, <4>1, <4>2
      <3> QED
        BY <1>3, <2>11, <3>1, <3>2
    <2>12. Rest(e) # <<>>
      BY <2>6, <2>9, EmptyText
    <2> QED
      BY <1>5, <2>6, <2>9, <2>10, <2>11, <2>12 DEF WildCard
  <1> QED
    BY <1>4, <1>5

\* TrimSuffix leaves of a question in the zone, the zone's own name apart, a text
\* that is not empty and does not end with a dot: no label of a question is empty.
LEMMA Trimmed ==
    ASSUME NEW n \in Questions, NEW z \in Texts, z # <<>>, z # n, Below(n, z)
    PROVE  LET r == TrimSuffix(n, <<Dot>> \o z)
           IN  /\ r \in Texts /\ r # <<>>
               /\ \A i \in Dots(r) : i < Len(r)
  <1> DEFINE l == Len(n)
             s == <<Dot>> \o z
             r == SubSeq(n, 1, l - Len(s))
  <1>1. n \in Texts /\ l \in Nat /\ \A i \in 1 .. l : n[i] \in Chars
    BY InputAssumption, TextOf
  <1>2. PICK j \in Dots(n) : z = Last(n, l - j) /\ Len(z) = l - j
    <2>1. z \in Enclosers(n)
      BY DEF Below
    <2> QED
      BY <1>1, <2>1, EncloserType
  <1>3. j \in 1 .. l /\ n[j] = Dot /\ l - j \in 0 .. l
    BY SMT, <1>1 DEF Dots
  <1>4. /\ s \in Texts /\ Len(s) = Len(z) + 1 /\ s[1] = Dot
        /\ \A i \in 1 .. Len(z) : s[i + 1] = z[i]
    BY Dotted
  <1>5. TrimSuffix(n, s) = IF HasSuffix(n, s) THEN r ELSE n
    BY DEF TrimSuffix
  <1> HIDE DEF s
  <1>6. Len(s) = l - j + 1 /\ Len(s) \in 0 .. l /\ Len(s) <= l /\ l - Len(s) = j - 1
    BY SMT, <1>1, <1>2, <1>3, <1>4
  <1>7. /\ Last(n, Len(s)) \in Texts /\ Len(Last(n, Len(s))) = Len(s)
        /\ \A i \in 1 .. Len(s) : Last(n, Len(s))[i] = n[l - Len(s) + i]
    BY <1>1, <1>6, LastOf
  <1>8. \A i \in 1 .. l - j : z[i] = n[l - (l - j) + i]
    BY <1>1, <1>2, <1>3, LastOf
  <1>9. ASSUME NEW i \in 1 .. Len(s)
        PROVE  Last(n, Len(s))[i] = s[i]
    <2>1. CASE i = 1
      <3>1. l - Len(s) + i = j
        BY SMT, <1>1, <1>3, <1>6, <2>1
      <3> QED
        BY <1>3, <1>4, <1>7, <2>1, <3>1
    <2>2. CASE i # 1
      <3>1. /\ i - 1 \in 1 .. l - j /\ (i - 1) + 1 = i
            /\ l - Len(s) + i = l - (l - j) + (i - 1)
        BY SMT, <1>1, <1>3, <1>6, <2>2
      <3>2. s[(i - 1) + 1] = z[i - 1]
        BY <1>2, <1>4, <3>1
      <3>3. z[i - 1] = n[l - (l - j) + (i - 1)]
        BY <1>8, <3>1
      <3> QED
        BY <1>7, <3>1, <3>2, <3>3
    <2> QED
      BY <2>1, <2>2
  <1>10. HasSuffix(n, s)
    <2>1. Last(n, Len(s)) = s
      BY <1>4, <1>7, <1>9, Same
    <2> QED
      BY <1>6, <2>1 DEF HasSuffix
  <1>11. j > 1 /\ n[j - 1] # Dot
    <2>1. n # <<Dot>>
      <3> SUFFICES ASSUME n = <<Dot>>
                   PROVE  FALSE
        OBVIOUS
      <3>1. l = 1
        BY SMT
      <3>2. Len(z) = 0
        BY SMT, <1>2, <1>3, <3>1
      <3> QED
        BY <3>2, EmptySeq DEF Texts
    <2> QED
      BY <2>1, InputAssumption
  <1>12. r \in Texts /\ Len(r) = j - 1 /\ \A i \in 1 .. j - 1 : r[i] = n[i]
    <2>1. \A i \in 1 .. j - 1 : n[i] \in Chars
      BY SMT, <1>1, <1>3
    <2>2. r = SubSeq(n, 1, j - 1)
      BY <1>6
    <2> HIDE DEF r
    <2> QED
      BY SMT, <1>3, <1>11, <2>1, <2>2, SubSeqProperties DEF Texts
  <1> HIDE DEF r
  <1>13. r # <<>>
    BY SMT, <1>3, <1>11, <1>12
  <1>14. ASSUME NEW i \in Dots(r)
         PROVE  i < Len(r)
    <2>1. i \in 1 .. j - 1 /\ n[i] = Dot
      BY <1>12 DEF Dots
    <2>2. i # j - 1
      BY <1>11, <2>1
    <2> QED
      BY SMT, <1>3, <1>12, <2>1, <2>2
  <1> QED
    BY <1>5, <1>10, <1>12, <1>13, <1>14 DEF s

\* No encloser of the query that is longer than c characters was found.
Unseen(c) ==
    \A f \in Enclosers(query) : Len(f) > c => ~keyMatches(f) /\ ~keyExists(f)

\* The search for the closest encloser: the query is no location and does not end
\* with a dot, the encloser at hand is one of the query's, the source of synthesis
\* is its wildcard, and the enclosers passed on the way up do not exist.
Searching ==
    /\ query \notin locations /\ query # <<>>
    /\ \A i \in Dots(query) : i < Len(query)
    /\ closestEncloser \in Enclosers(query)
    /\ sourceOfSynthesis = WildCard(closestEncloser)
    /\ Unseen(Len(closestEncloser))

\* The inductive invariant: the three properties, and what the search has found out
\* so far, which no variable but the encloser records.
LookupInv ==
    /\ TypeOK /\ zones \in Listings /\ ZoneIsTheInnermost
    /\ pc = "find" => zone # Nil /\ qname \in Questions
    /\ pc = "loop" => Searching
    /\ WildcardIsTheClosest /\ DenialIsTrue

\* The invariant holds before the first question.
LEMMA InitLookup == Init => LookupInv
  <1> SUFFICES ASSUME Init
               PROVE  LookupInv
    OBVIOUS
  <1>1. <<>> \in Texts
    BY EmptyText
  <1>2. zones \subseteq Texts /\ locations \subseteq Texts /\ zones \in Listings
    BY InputAssumption DEF Init
  <1>3. TypeOK
    BY <1>1, <1>2 DEF Init, TypeOK
  <1> QED
    BY <1>2, <1>3 DEF Init, LookupInv, ZoneIsTheInnermost, WildcardIsTheClosest, DenialIsTrue

\* HandleRequest keeps it: the zone is the innermost of those listed.
LEMMA NextHandleRequest ==
    ASSUME LookupInv, NEW n \in Questions, HandleRequest(n)
    PROVE  LookupInv'
  <1>1. n \in Texts /\ zones \subseteq Texts \ {<<>>}
    BY InputAssumption DEF LookupInv
  <1>2. /\ FindZone(n) = Nil => \A z \in zones : ~Below(n, z)
        /\ FindZone(n) # Nil =>
              /\ FindZone(n) \in zones /\ Below(n, FindZone(n))
              /\ \A z \in zones : Below(n, z) => Below(FindZone(n), z)
    BY <1>1, FindZoneIsInnermost
  <1>3. /\ qname' = n /\ zone' = FindZone(n) /\ pc = "idle"
        /\ UNCHANGED <<zones, locations, query, closestEncloser, sourceOfSynthesis>>
        /\ \/ FindZone(n) = Nil /\ location' = <<>> /\ match' = "NotAuth" /\ pc' = "done"
           \/ FindZone(n) # Nil /\ pc' = "find" /\ UNCHANGED <<location, match>>
    BY DEF HandleRequest, Return
  <1>4. TypeOK'
    <2>1. FindZone(n) \in Texts \cup {Nil} /\ <<>> \in Texts
      BY <1>1, <1>2, EmptyText
    <2> QED
      BY <1>1, <1>3, <2>1 DEF LookupInv, TypeOK
  <1>5. ZoneIsTheInnermost'
    BY <1>2, <1>3 DEF ZoneIsTheInnermost
  <1> QED
    BY <1>3, <1>4, <1>5 DEF LookupInv, WildcardIsTheClosest, DenialIsTrue

\* FindLocation keeps it: a question that is not the zone's own name has a label in
\* front of it, so there is an encloser to start from.
LEMMA NextFindLocation ==
    ASSUME LookupInv, FindLocation
    PROVE  LookupInv'
  <1> DEFINE relative == TrimSuffix(qname, <<Dot>> \o zone)
             source == IF Dots(relative) = {} THEN <<Star>> ELSE <<Star, Dot>> \o Rest(relative)
  <1>1. /\ pc = "find" /\ UNCHANGED <<zones, locations, qname, zone>> /\ TypeOK
        /\ zone \in zones /\ Below(qname, zone) /\ qname \in Questions
        /\ qname \in Texts
    BY DEF FindLocation, LookupInv, TypeOK, ZoneIsTheInnermost
  <1>2. zone \in Texts /\ zone # <<>>
    BY <1>1, InputAssumption DEF LookupInv
  <1>3. ZoneIsTheInnermost' /\ zones' \in Listings
    BY <1>1 DEF LookupInv, ZoneIsTheInnermost
  <1>4. CASE qname = zone
    <2>1. /\ location' = qname /\ match' = "Exact" /\ pc' = "done"
          /\ UNCHANGED <<query, closestEncloser, sourceOfSynthesis>>
      BY <1>4 DEF FindLocation, Return
    <2> QED
      BY <1>1, <1>3, <2>1 DEF LookupInv, TypeOK, WildcardIsTheClosest, DenialIsTrue
  <1>5. CASE qname # zone
    <2>1. relative \in Texts /\ relative # <<>> /\ \A i \in Dots(relative) : i < Len(relative)
      BY <1>1, <1>2, <1>5, Trimmed
    <2>2. CASE keyExists(relative)
      <3>1. /\ location' = relative /\ match' = "Exact" /\ pc' = "done" /\ query' = relative
            /\ UNCHANGED <<closestEncloser, sourceOfSynthesis>>
        BY <1>5, <2>2 DEF FindLocation, Return
      <3> QED
        BY <1>1, <1>3, <2>1, <3>1 DEF LookupInv, TypeOK, WildcardIsTheClosest, DenialIsTrue
    <2>3. CASE ~keyExists(relative)
      <3>1. /\ query' = relative /\ pc' = "loop" /\ UNCHANGED <<location, match>>
            /\ closestEncloser' = Rest(relative) /\ sourceOfSynthesis' = source
        BY <1>5, <2>3 DEF FindLocation, splitQuery
      <3> HIDE DEF relative
      <3>2. /\ Rest(relative) \in Enclosers(relative)
            /\ \A f \in Enclosers(relative) :
                  Len(f) < Len(relative) => Len(f) <= Len(Rest(relative))
            /\ source = WildCard(Rest(relative))
        BY <2>1, Splits DEF Below
      <3> HIDE DEF source
      <3>3. Rest(relative) \in Texts
        BY <2>1, <3>2, EncloserType
      <3>4. TypeOK'
        BY <1>1, <2>1, <3>1, <3>2, <3>3, WildCardType DEF TypeOK
      <3>5. ASSUME NEW f \in Enclosers(relative)
            PROVE  ~(Len(f) > Len(Rest(relative)))
        <4>1. f \in Texts /\ Len(f) < Len(relative)
          BY <2>1, EncloserType
        <4>2. Len(f) <= Len(Rest(relative)) /\ Len(f) \in Nat /\ Len(Rest(relative)) \in Nat
          BY <3>2, <3>3, <4>1, TextOf
        <4> QED
          BY SMT, <4>2
      <3>6. Unseen(Len(closestEncloser))'
        BY <3>1, <3>5 DEF Unseen
      <3>7. Searching'
        BY <1>1, <2>1, <2>3, <3>1, <3>2, <3>6 DEF Searching, keyExists
      <3> QED
        BY <1>3, <3>1, <3>4, <3>7 DEF LookupInv, WildcardIsTheClosest, DenialIsTrue
    <2> QED
      BY <2>2, <2>3
  <1> QED
    BY <1>4, <1>5

\* A pass of the search keeps it.  When it stops, the encloser at hand is the first
\* that was found and, nothing being misread, exists; when it goes on, the encloser
\* passed does not exist.
LEMMA NextFindLocationLoop ==
    ASSUME LookupInv, FindLocationLoop
    PROVE  LookupInv'
  <1> DEFINE ce == closestEncloser
             seen == keyMatches(ce) \/ keyExists(ce)
             source == IF Dots(ce) = {} THEN <<Star>> ELSE <<Star, Dot>> \o Rest(ce)
  <1>1. /\ pc = "loop" /\ Searching /\ TypeOK
        /\ UNCHANGED <<zones, locations, qname, zone, query>>
    BY DEF FindLocationLoop, Pass, LookupInv
  <1>2. /\ query \in Texts /\ ce \in Texts /\ locations \subseteq Texts
        /\ query \notin locations /\ query # <<>> /\ ce \in Enclosers(query)
        /\ sourceOfSynthesis = WildCard(ce) /\ Unseen(Len(ce))
        /\ Len(ce) \in Nat
    BY <1>1, TextOf DEF TypeOK, Searching
  <1>3. ASSUME NEW f \in Enclosers(query)
        PROVE  f \in Texts /\ Len(f) \in Nat /\ f = Last(query, Len(f))
    BY <1>2, EncloserType, TextOf
  <1>4. ASSUME NEW f \in Enclosers(query), Len(f) > Len(ce)
        PROVE  ~Exists(f)
    <2>1. f # <<>>
      <3> SUFFICES ASSUME f = <<>>
                   PROVE  FALSE
        OBVIOUS
      <3>1. Len(f) = 0
        BY EmptyText
      <3> QED
        BY SMT, <1>2, <1>4, <3>1
    <2> QED
      BY <1>2, <1>3, <1>4, <2>1, ExistingIsMatched DEF Unseen
  <1>5. ZoneIsTheInnermost' /\ zones' \in Listings /\ (pc' # "find")
    <2>1. pc' \in {"loop", "done"}
      BY <1>1 DEF FindLocationLoop, Pass, Return
    <2> QED
      BY <1>1, <2>1 DEF LookupInv, ZoneIsTheInnermost
  <1>6. Exists(query) => EmptyNonTerminal(query)
    BY <1>2 DEF Exists, EmptyNonTerminal
  <1>7. CASE seen /\ keyExists(sourceOfSynthesis)
    <2>1. /\ location' = sourceOfSynthesis /\ match' = "WildCard" /\ pc' = "done"
          /\ UNCHANGED <<closestEncloser, sourceOfSynthesis>>
      BY <1>7 DEF FindLocationLoop, Pass, Return
    <2>2. TypeOK'
      BY <1>1, <2>1 DEF TypeOK
    <2>3. location' \in locations /\ location' = WildCard(ce)
      BY <1>2, <1>7, <2>1 DEF keyExists
    <2>4. WildcardIsTheClosest'
      BY <1>1, <1>2, <1>4, <2>3 DEF WildcardIsTheClosest, Exists
    <2> QED
      BY <1>5, <2>1, <2>2, <2>4 DEF LookupInv, DenialIsTrue
  <1>8. CASE seen /\ ~keyExists(sourceOfSynthesis)
    <2>1. /\ location' = <<>> /\ match' = "No" /\ pc' = "done"
          /\ UNCHANGED <<closestEncloser, sourceOfSynthesis>>
      BY <1>8 DEF FindLocationLoop, Pass, Return
    <2>2. TypeOK'
      BY <1>1, <2>1, EmptyText DEF TypeOK
    <2>3. ASSUME ~Misread
          PROVE  Exists(ce)
      <3>1. CASE keyMatches(ce)
        BY <1>2, <2>3, <3>1 DEF keyMatches, Misread, Exists
      <3>2. CASE keyExists(ce)
        BY <3>2 DEF keyExists, Exists, Below
      <3> QED
        BY <1>8, <3>1, <3>2
    <2>4. ASSUME ~Misread, NEW e \in Enclosers(query), IsClosest(e)
          PROVE  WildCard(e) \notin locations
      <3>1. ~(Len(e) > Len(ce))
        BY <1>4, <2>4 DEF IsClosest
      <3>2. ~(Len(ce) > Len(e))
        BY <1>2, <2>3, <2>4 DEF IsClosest
      <3>3. Len(e) = Len(ce)
        <4>1. Len(e) \in Nat /\ Len(ce) \in Nat
          BY <1>2, <1>3
        <4> QED
          BY SMT, <3>1, <3>2, <4>1
      <3>4. e = ce
        BY <1>2, <1>3, <3>3
      <3> QED
        BY <1>2, <1>8, <3>4 DEF keyExists
    <2>5. DenialIsTrue'
      <3>1. (Misread' <=> Misread) /\ \A e : IsClosest(e)' <=> IsClosest(e)
        BY <1>1 DEF Misread, IsClosest, Exists
      <3>2. (Exists(query) => EmptyNonTerminal(query))'
        BY <1>1, <1>6 DEF Exists, EmptyNonTerminal
      <3>3. (~Misread => \A e \in Enclosers(query) : IsClosest(e) => WildCard(e) \notin locations)'
        BY <1>1, <2>4, <3>1
      <3> QED
        BY <3>2, <3>3 DEF DenialIsTrue
    <2> QED
      BY <1>5, <2>1, <2>2, <2>5 DEF LookupInv, WildcardIsTheClosest
  <1>9. CASE ~seen /\ ce = <<>>
    <2>1. /\ location' = <<>> /\ match' = "No" /\ pc' = "done"
          /\ UNCHANGED <<closestEncloser, sourceOfSynthesis>>
      BY <1>9 DEF FindLocationLoop, Pass, Return
    <2>2. TypeOK'
      BY <1>1, <2>1, EmptyText DEF TypeOK
    <2>3. locations = {}
      <3> SUFFICES ASSUME NEW value \in locations
                   PROVE  FALSE
        OBVIOUS
      <3>1. Below(value, <<>>)
        BY DEF Below, Enclosers
      <3> QED
        BY <1>2, <1>9, <3>1, BelowIsHasSuffix DEF keyMatches
    <2>4. (Exists(query) => EmptyNonTerminal(query))'
      BY <1>1, <1>6 DEF Exists, EmptyNonTerminal
    <2>5. DenialIsTrue'
      BY <1>1, <2>3, <2>4 DEF DenialIsTrue
    <2> QED
      BY <1>5, <2>1, <2>2, <2>5 DEF LookupInv, WildcardIsTheClosest
  <1>10. CASE ~seen /\ ce # <<>>
    <2>1. /\ closestEncloser' = Rest(ce) /\ sourceOfSynthesis' = source
          /\ UNCHANGED <<pc, location, match>>
      BY <1>10 DEF FindLocationLoop, Pass, splitQuery
    <2>2. /\ Rest(ce) \in Enclosers(query) /\ Len(Rest(ce)) < Len(ce)
          /\ \A f \in Enclosers(query) : Len(f) < Len(ce) => Len(f) <= Len(Rest(ce))
          /\ source = WildCard(Rest(ce))
      BY <1>1, <1>2, <1>10, Splits DEF Searching, Below
    <2>3. Rest(ce) \in Texts /\ Len(Rest(ce)) \in Nat
      BY <1>3, <2>2
    <2> HIDE DEF source
    <2>4. TypeOK'
      BY <1>1, <2>1, <2>2, <2>3, WildCardType DEF TypeOK
    <2>5. ASSUME NEW f \in Enclosers(query), Len(f) > Len(Rest(ce))
          PROVE  ~keyMatches(f) /\ ~keyExists(f)
      <3>1. f = Last(query, Len(f)) /\ ce = Last(query, Len(ce)) /\ Len(f) \in Nat
        BY <1>2, <1>3
      <3>2. ~(Len(f) <= Len(Rest(ce)))
        BY SMT, <2>3, <2>5, <3>1
      <3>3. ~(Len(f) < Len(ce))
        BY <2>2, <3>2
      <3>4. Len(f) = Len(ce) \/ Len(f) > Len(ce)
        BY SMT, <1>2, <3>1, <3>3
      <3>5. CASE Len(f) = Len(ce)
        BY <1>10, <3>1, <3>5
      <3>6. CASE Len(f) > Len(ce)
        BY <1>2, <3>6 DEF Unseen
      <3> QED
        BY <3>4, <3>5, <3>6
    <2>6. Unseen(Len(closestEncloser))'
      BY <1>1, <2>1, <2>5 DEF Unseen, keyMatches, keyExists
    <2>7. Searching'
      BY <1>1, <2>1, <2>2, <2>6 DEF Searching
    <2> QED
      BY <1>1, <1>5, <2>1, <2>4, <2>7 DEF LookupInv, WildcardIsTheClosest, DenialIsTrue
  <1> QED
    BY <1>7, <1>8, <1>9, <1>10

\* The inductive invariant of the way from a question to its location.
THEOREM LookupInvariance == Spec => []LookupInv
  <1>1. LookupInv /\ UNCHANGED vars => LookupInv'
    BY DEF LookupInv, vars, TypeOK, ZoneIsTheInnermost, Searching, Unseen, WildcardIsTheClosest,
           DenialIsTrue, Misread, IsClosest, EmptyNonTerminal, Exists, keyMatches, keyExists
  <1>2. LookupInv /\ [Next]_vars => LookupInv'
    BY <1>1, NextHandleRequest, NextFindLocation, NextFindLocationLoop DEF Next
  <1> QED
    BY <1>2, InitLookup, PTL DEF Spec

\* NameMatching's state is well typed: what FindLocation cuts and puts together are
\* names.
THEOREM LookupTypeCorrect == Spec => []TypeOK
  <1>1. LookupInv => TypeOK
    BY DEF LookupInv
  <1> QED
    BY <1>1, LookupInvariance, PTL

\* ZoneIsTheInnermost: whatever zones are listed, HandleRequest works on the
\* innermost one that the question lies in, label by label: the dot of reverseZone
\* makes the radix tree's comparison of reversed texts one of labels.
THEOREM ZoneIsTheInnermostHolds == Spec => []ZoneIsTheInnermost
  <1>1. LookupInv => ZoneIsTheInnermost
    BY DEF LookupInv
  <1> QED
    BY <1>1, LookupInvariance, PTL

\* WildcardIsTheClosest: FindLocation uses a wildcard only for a name that is no
\* location, and with no existing name between it and the wildcard's parent.
THEOREM WildcardIsTheClosestHolds == Spec => []WildcardIsTheClosest
  <1>1. LookupInv => WildcardIsTheClosest
    BY DEF LookupInv
  <1> QED
    BY <1>1, LookupInvariance, PTL

\* DenialIsTrue: what FindLocation does not find is no location and, at most, an
\* empty non-terminal; and the wildcard of its closest encloser is no location
\* either, if no label was misread.
THEOREM DenialIsTrueHolds == Spec => []DenialIsTrue
  <1>1. LookupInv => DenialIsTrue
    BY DEF LookupInv
  <1> QED
    BY <1>1, LookupInvariance, PTL
-----------------------------------------------------------------------------
\* The flags shared by the updater, its tickers and its callbacks.
Flags ==
    /\ modified \in BOOLEAN /\ subscribed \in BOOLEAN
    /\ reloadTick \in BOOLEAN /\ forceTick \in BOOLEAN

\* What LoadZones has read is no newer than redis and, until it is swapped in,
\* no older than h.Zones; redis has sent no more notifications than there were
\* writes.
Versions ==
    /\ redis \in Nat /\ zoneList \in Nat /\ read \in Nat /\ events \in Nat
    /\ updater \in {"select", "smembers", "swap", "clear"}
    /\ zoneList <= read /\ read <= redis
    /\ updater # "swap" => zoneList = read
    /\ events <= redis

RegistryInv == Flags /\ Versions

\* The invariant holds after NewHandler's own LoadZones.
LEMMA InitRegistry == RegistryInit => RegistryInv
  <1>1. RegistryInit => Flags
    BY DEF RegistryInit, Flags
  <1>2. RegistryInit => /\ redis = 1 /\ zoneList \in {0, 1} /\ read = zoneList /\ events = 0
                        /\ updater = "select"
    BY DEF RegistryInit
  <1>3. RegistryInit => Versions
    BY SMT, <1>2 DEF Versions
  <1> QED
    BY <1>1, <1>3 DEF RegistryInv

\* Nothing but truth values is assigned to the flags.
LEMMA NextFlags == Flags /\ [RegistryNext]_registryVars => Flags'
  BY DEF Flags, RegistryNext, registryVars, Write, Subscribe, Deliver, Disconnect,
         ReloadTick, ForceTick, Reload, ForceReload, SMembers, Swap, Clear

\* redis only grows, the updater reads it and then swaps, and whoever notifies or
\* ticks touches neither.
LEMMA NextVersions == Versions /\ [RegistryNext]_registryVars => Versions'
  <1> SUFFICES ASSUME Versions, [RegistryNext]_registryVars
               PROVE  Versions'
    OBVIOUS
  <1> USE DEF Versions
  <1>1. CASE Write
    <2>1. /\ redis' = redis + 1 /\ UNCHANGED <<zoneList, read, updater>>
          /\ events' = events + 1 \/ events' = events
      BY <1>1 DEF Write
    <2> QED
      BY SMT, <2>1
  <1>2. CASE Subscribe \/ Deliver \/ Disconnect
    BY SMT, <1>2 DEF Subscribe, Deliver, Disconnect
  <1>3. CASE ReloadTick \/ ForceTick
    BY <1>3 DEF ReloadTick, ForceTick
  <1>4. CASE Reload \/ ForceReload
    BY <1>4 DEF Reload, ForceReload
  <1>5. CASE SMembers
    <2>1. /\ updater = "smembers" /\ UNCHANGED <<redis, zoneList, events>>
          /\ \/ read' = redis /\ updater' = "swap"
             \/ read' = read /\ updater' = "clear"
      BY <1>5 DEF SMembers
    <2> QED
      BY SMT, <2>1
  <1>6. CASE Swap \/ Clear
    BY SMT, <1>6 DEF Swap, Clear
  <1>7. CASE UNCHANGED registryVars
    BY <1>7 DEF registryVars
  <1> QED
    BY <1>1, <1>2, <1>3, <1>4, <1>5, <1>6, <1>7 DEF RegistryNext

\* The inductive invariant of the updater, its callbacks and redis.
THEOREM RegistryInvariance == RegistrySpec => []RegistryInv
  <1>1. RegistryInv /\ [RegistryNext]_registryVars => RegistryInv'
    BY NextFlags, NextVersions DEF RegistryInv
  <1> QED
    BY <1>1, InitRegistry, PTL DEF RegistrySpec

\* The updater's state is well typed: in particular every list it holds is one
\* that redis has held.
THEOREM RegistryTypeCorrect == RegistrySpec => []RegistryTypeOK
  <1> DEFINE Bounded == redis \in Nat /\ redis <= MaxWrites
  <1> USE MaxWritesAssumption
  <1>1. RegistryInit => Bounded
    <2>1. RegistryInit => redis = 1
      BY DEF RegistryInit
    <2> QED
      BY SMT, <2>1
  <1>2. Bounded /\ [RegistryNext]_registryVars => Bounded'
    <2> SUFFICES ASSUME Bounded, [RegistryNext]_registryVars
                 PROVE  Bounded'
      OBVIOUS
    <2>1. redis' = redis \/ (redis < MaxWrites /\ redis' = redis + 1)
      BY DEF RegistryNext, registryVars, Write, Subscribe, Deliver, Disconnect, ReloadTick,
             ForceTick, Reload, ForceReload, SMembers, Swap, Clear
    <2> QED
      BY SMT, <2>1
  <1>3. RegistryInv /\ Bounded => RegistryTypeOK
    <2>1. Versions /\ Bounded => /\ redis \in Version /\ zoneList \in Version
                                 /\ read \in Version /\ events \in Version
      BY SMT DEF Versions, Version
    <2> HIDE DEF Bounded
    <2> QED
      BY <2>1 DEF RegistryInv, Flags, Versions, RegistryTypeOK
  <1> HIDE DEF Bounded
  <1> QED
    BY <1>1, <1>2, <1>3, RegistryInvariance, PTL DEF RegistrySpec

\* ZonesNeverRegress: only Swap assigns h.Zones, and it assigns what SMembers
\* returned after the previous swap, which is no older.
THEOREM ZonesNeverRegressHolds == RegistrySpec => ZonesNeverRegress
  <1>1. RegistryInv /\ [RegistryNext]_registryVars => [zoneList' >= zoneList]_registryVars
    <2> SUFFICES ASSUME RegistryInv, RegistryNext
                 PROVE  zoneList' >= zoneList
      BY DEF registryVars
    <2>1. zoneList' = zoneList \/ (updater = "swap" /\ zoneList' = read)
      BY DEF RegistryNext, Write, Subscribe, Deliver, Disconnect, ReloadTick, ForceTick,
             Reload, ForceReload, SMembers, Swap, Clear
    <2> QED
      BY SMT, <2>1 DEF RegistryInv, Versions
  <1> QED
    BY <1>1, RegistryInvariance, PTL DEF RegistrySpec, ZonesNeverRegress
=============================================================================
