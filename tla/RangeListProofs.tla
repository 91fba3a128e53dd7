-------------------------- MODULE RangeListProofs --------------------------
(***************************************************************************)
(* Proofs about RangeList, for every largest message number and every      *)
(* width of the range count.                                               *)
(***************************************************************************)
EXTENDS RangeList, SequenceTheorems, TLAPS

\* InsertAt (Vec::insert) shifts the elements from i on by one.
LEMMA InsertAtElements ==
  ASSUME NEW S, NEW s \in Seq(S), NEW i \in 1..Len(s) + 1, NEW e \in S
  PROVE  /\ InsertAt(s, i, e) \in Seq(S)
         /\ Len(InsertAt(s, i, e)) = Len(s) + 1
         /\ \A j \in 1..Len(s) + 1 :
              InsertAt(s, i, e)[j] = IF j < i THEN s[j]
                                     ELSE IF j = i THEN e ELSE s[j - 1]
<1> DEFINE a == SubSeq(s, 1, i - 1)
           b == SubSeq(s, i, Len(s))
<1>1. a \in Seq(S) /\ Len(a) = i - 1 /\ \A j \in 1..i-1 : a[j] = s[j]
  OBVIOUS
<1>2. b \in Seq(S) /\ Len(b) = Len(s) - i + 1
                   /\ \A j \in 1..Len(s)-i+1 : b[j] = s[i + j - 1]
  OBVIOUS
<1> HIDE DEF a, b
<1>3. InsertAt(s, i, e) = (a \o <<e>>) \o b
  BY DEF InsertAt, a, b
<1> DEFINE c == a \o <<e>>
<1>4. c \in Seq(S) /\ Len(c) = i /\ \A j \in 1..i : c[j] = IF j < i THEN s[j] ELSE e
  BY <1>1
<1> HIDE DEF c
<1>5. /\ c \o b \in Seq(S)
      /\ Len(c \o b) = Len(s) + 1
      /\ \A j \in 1..Len(s) + 1 : (c \o b)[j] = IF j <= i THEN c[j] ELSE b[j - i]
  BY <1>2, <1>4, ConcatProperties
<1>6. \A j \in 1..Len(s) + 1 :
        j > i => j - i \in 1..Len(s)-i+1 /\ i + (j - i) - 1 = j - 1
  OBVIOUS
<1> QED BY SMTT(40), <1>2, <1>3, <1>4, <1>5, <1>6 DEF c

\* RemoveAt (Vec::remove) keeps the other elements, in order.
LEMMA RemoveAtElements ==
  ASSUME NEW S, NEW s \in Seq(S), NEW i \in 1..Len(s)
  PROVE  /\ RemoveAt(s, i) \in Seq(S)
         /\ Len(RemoveAt(s, i)) = Len(s) - 1
         /\ \A j \in 1..Len(s) - 1 :
              RemoveAt(s, i)[j] = IF j < i THEN s[j] ELSE s[j + 1]
<1> DEFINE a == SubSeq(s, 1, i - 1)
           b == SubSeq(s, i + 1, Len(s))
<1>1. a \in Seq(S) /\ Len(a) = i - 1 /\ \A j \in 1..i-1 : a[j] = s[j]
  OBVIOUS
<1>2. b \in Seq(S) /\ Len(b) = Len(s) - i
                   /\ \A j \in 1..Len(s)-i : b[j] = s[i + j]
  OBVIOUS
<1> HIDE DEF a, b
<1>3. RemoveAt(s, i) = a \o b
  BY DEF RemoveAt, a, b
<1>4. /\ a \o b \in Seq(S)
      /\ Len(a \o b) = Len(s) - 1
      /\ \A j \in 1..Len(s) - 1 :
           (a \o b)[j] = IF j <= i - 1 THEN a[j] ELSE b[j - (i - 1)]
  <2>1. /\ a \o b \in Seq(S)
        /\ Len(a \o b) = Len(a) + Len(b)
        /\ \A j \in 1..Len(a) + Len(b) :
             (a \o b)[j] = IF j <= Len(a) THEN a[j] ELSE b[j - Len(a)]
    BY <1>1, <1>2, ConcatProperties
  <2>2. Len(s) \in Nat /\ i \in Nat
    OBVIOUS
  <2>3. Len(a) + Len(b) = Len(s) - 1
    BY <1>1, <1>2, <2>2
  <2> QED BY <1>1, <2>1, <2>3
<1>5. \A j \in 1..Len(s) - 1 :
        j >= i => j - (i - 1) \in 1..Len(s)-i /\ i + (j - (i - 1)) = j + 1
  OBVIOUS
<1> QED BY <1>1, <1>2, <1>3, <1>4, <1>5

-----------------------------------------------------------------------------
\* The bounds of a range are integers.
LEMMA RangeBounds ==
  ASSUME NEW r \in RangeType
  PROVE  r.min \in Item /\ r.max \in Item /\ r.min \in Int /\ r.max \in Int
BY MaxItemAssumption DEF RangeType, Item

\* The list after an insertion, element by element: one of four shapes.
Within(rs, item, i, t) ==
  i <= Len(rs) /\ rs[i].min <= item /\ item <= rs[i].max /\ t = rs

Grown(rs, item, i, t) ==
  i <= Len(rs) /\ rs[i].min <= item /\ rs[i].max = item - 1 /\ t = Extend(rs, item, i)

Lowered(rs, item, i, t) ==
  /\ i <= Len(rs) /\ rs[i].min = item + 1
  /\ Len(t) = Len(rs)
  /\ \A k \in 1..Len(rs) :
       t[k] = IF k = i THEN [min |-> item, max |-> rs[i].max] ELSE rs[k]

Added(rs, item, i, t) ==
  /\ i <= Len(rs) => rs[i].min > item + 1
  /\ Len(t) = Len(rs) + 1
  /\ \A k \in 1..Len(rs) + 1 :
       t[k] = IF k < i THEN rs[k] ELSE IF k = i THEN Single(item) ELSE rs[k - 1]

\* Which shape it is depends on the range the loop stops at.
LEMMA InsertedShape ==
  ASSUME NEW rs \in Seq(RangeType), NEW item \in Item, NEW i \in 1..Len(rs) + 1,
         StopsAt(rs, item, i)
  PROVE  /\ InsertedAt(rs, item, i) \in Seq(RangeType)
         /\ \/ Within(rs, item, i, InsertedAt(rs, item, i))
            \/ Grown(rs, item, i, InsertedAt(rs, item, i))
            \/ Lowered(rs, item, i, InsertedAt(rs, item, i))
            \/ Added(rs, item, i, InsertedAt(rs, item, i))
<1> DEFINE t == InsertedAt(rs, item, i)
<1>s. Single(item) \in RangeType
  BY DEF Single, RangeType
<1>1. CASE i > Len(rs)
  <2>1. t = Append(rs, Single(item)) /\ i = Len(rs) + 1
    BY <1>1 DEF InsertedAt
  <2>2. /\ t \in Seq(RangeType) /\ Len(t) = Len(rs) + 1
        /\ \A j \in 1..Len(rs) : t[j] = rs[j]
        /\ t[Len(rs) + 1] = Single(item)
    BY <2>1, <1>s
  <2> QED BY <1>1, <2>1, <2>2 DEF Added
<1>2. CASE i <= Len(rs)
  <2>0. /\ rs[i] \in RangeType /\ rs[i].min \in Int /\ rs[i].max \in Int
        /\ item \in Int /\ rs[i].min \in Item /\ rs[i].max \in Item
    <3>1. rs[i] \in RangeType
      BY <1>2, ElementOfSeq
    <3> QED BY <3>1, RangeBounds, MaxItemAssumption DEF Item
  <2>1. CASE rs[i].min <= item /\ rs[i].max >= item
    BY <1>2, <2>0, <2>1 DEF InsertedAt, Within
  <2>2. CASE rs[i].min <= item /\ rs[i].max < item
    <3>1. rs[i].max = item - 1
      BY <1>2, <2>0, <2>2 DEF StopsAt, Stops
    <3>2. t = Extend(rs, item, i)
      BY <1>2, <2>0, <2>2 DEF InsertedAt
    <3>3. [rs EXCEPT ![i].max = item] \in Seq(RangeType)
      BY <1>2, <2>0 DEF RangeType
    <3>4. Extend(rs, item, i) \in Seq(RangeType)
      <4> DEFINE grown == [rs EXCEPT ![i].max = item]
      <4>1. grown \in Seq(RangeType) /\ Len(grown) = Len(rs)
        BY <3>3
      <4> HIDE DEF grown
      <4>2. i < Len(rs) => RemoveAt(grown, i + 1) \in Seq(RangeType)
        BY <4>1, RemoveAtElements
      <4> QED BY <4>1, <4>2 DEF Extend, grown
    <3> QED BY <1>2, <2>2, <3>1, <3>2, <3>4 DEF Grown
  <2>3. CASE rs[i].min = item + 1
    <3>1. t = [rs EXCEPT ![i].min = item]
      BY <1>2, <2>0, <2>3 DEF InsertedAt
    <3>2. [rs[i] EXCEPT !.min = item] = [min |-> item, max |-> rs[i].max]
      BY <2>0 DEF RangeType
    <3>3. [min |-> item, max |-> rs[i].max] \in RangeType
      BY <2>0 DEF RangeType
    <3>4. /\ t \in Seq(RangeType) /\ Len(t) = Len(rs)
          /\ \A j \in 1..Len(rs) :
               t[j] = IF j = i THEN [min |-> item, max |-> rs[i].max] ELSE rs[j]
      BY <1>2, <3>1, <3>2, <3>3
    <3> QED BY <1>2, <2>3, <3>4 DEF Lowered
  <2>4. CASE rs[i].min > item + 1
    <3>1. t = InsertAt(rs, i, Single(item))
      BY <1>2, <2>0, <2>4 DEF InsertedAt
    <3>2. /\ t \in Seq(RangeType) /\ Len(t) = Len(rs) + 1
          /\ \A j \in 1..Len(rs) + 1 :
               t[j] = IF j < i THEN rs[j]
                      ELSE IF j = i THEN Single(item) ELSE rs[j - 1]
      BY <3>1, <1>s, InsertAtElements
    <3> QED BY <2>4, <3>2 DEF Added
  <2> QED BY <2>0, <2>1, <2>2, <2>3, <2>4
<1> QED BY <1>1, <1>2

\* Extend grows range i to item and may drop the range after it.
Kept(rs, item, i, t) ==
  /\ Len(t) = Len(rs)
  /\ \A k \in 1..Len(rs) :
       t[k] = IF k = i THEN [min |-> rs[i].min, max |-> item] ELSE rs[k]

Dropped(rs, item, i, t) ==
  /\ i < Len(rs) /\ rs[i + 1].min = item - 1
  /\ Len(t) = Len(rs) - 1
  /\ \A k \in 1..Len(rs) - 1 :
       t[k] = IF k = i THEN [min |-> rs[i].min, max |-> item]
              ELSE IF k < i THEN rs[k] ELSE rs[k + 1]

\* Extend keeps every range, or drops the one after i.
LEMMA ExtendShape ==
  ASSUME NEW rs \in Seq(RangeType), NEW item \in Item, NEW i \in 1..Len(rs)
  PROVE  \/ Kept(rs, item, i, Extend(rs, item, i))
         \/ Dropped(rs, item, i, Extend(rs, item, i))
<1> DEFINE grown == [rs EXCEPT ![i].max = item]
           g == [min |-> rs[i].min, max |-> item]
<1>1. rs[i] \in RangeType
  BY ElementOfSeq
<1>2. [rs[i] EXCEPT !.max = item] = g /\ g \in RangeType
  BY <1>1, RangeBounds DEF RangeType
<1>3. /\ grown \in Seq(RangeType) /\ Len(grown) = Len(rs)
      /\ \A j \in 1..Len(rs) : grown[j] = IF j = i THEN g ELSE rs[j]
  BY <1>2
<1>4. Extend(rs, item, i) = IF i < Len(rs) /\ rs[i + 1].min = item - 1
                            THEN RemoveAt(grown, i + 1) ELSE grown
  BY DEF Extend
<1> HIDE DEF grown
<1>5. CASE i < Len(rs) /\ rs[i + 1].min = item - 1
  <2>1. /\ Len(RemoveAt(grown, i + 1)) = Len(rs) - 1
        /\ \A j \in 1..Len(rs) - 1 :
             RemoveAt(grown, i + 1)[j] = IF j < i + 1 THEN grown[j] ELSE grown[j + 1]
    BY <1>3, <1>5, RemoveAtElements
  <2> QED BY <1>3, <1>4, <1>5, <2>1 DEF Dropped
<1>6. CASE ~(i < Len(rs) /\ rs[i + 1].min = item - 1)
  BY <1>3, <1>4, <1>6 DEF Kept
<1> QED BY <1>5, <1>6

\* Whatever the list looks like, an insertion adds no number but the item.
LEMMA InsertedSound ==
  ASSUME NEW rs \in Seq(RangeType), NEW item \in Item, NEW i \in 1..Len(rs) + 1,
         StopsAt(rs, item, i)
  PROVE  /\ InsertedAt(rs, item, i) \in Seq(RangeType)
         /\ Items(InsertedAt(rs, item, i)) \subseteq Items(rs) \cup {item}
<1> DEFINE t == InsertedAt(rs, item, i)
<1>0. t \in Seq(RangeType)
  BY InsertedShape
<1>h. \/ Within(rs, item, i, t) \/ Grown(rs, item, i, t)
      \/ Lowered(rs, item, i, t) \/ Added(rs, item, i, t)
  BY InsertedShape
<1>z. t = InsertedAt(rs, item, i)
  OBVIOUS
<1> HIDE DEF t
<1>n. Len(rs) \in Nat /\ \A j \in 1..Len(rs) : rs[j] \in RangeType
  BY ElementOfSeq
<1>i. item \in Int /\ \A r \in RangeType : r.min \in Int /\ r.max \in Int
  BY RangeBounds, MaxItemAssumption DEF Item
<1>1. SUFFICES ASSUME NEW x \in Item, NEW j \in 1..Len(t),
                      t[j].min <= x, x <= t[j].max, x # item
               PROVE  \E k \in 1..Len(rs) : rs[k].min <= x /\ x <= rs[k].max
  BY <1>0, <1>z DEF Items
<1>x. x \in Int
  BY MaxItemAssumption DEF Item
<1>2. CASE Within(rs, item, i, t)
  BY <1>1, <1>2 DEF Within
<1>3. CASE Grown(rs, item, i, t)
  <2> DEFINE g == [min |-> rs[i].min, max |-> item]
  <2>1. \E k \in 1..Len(rs) : t[j] = rs[k] \/ (k = i /\ t[j] = g)
    <3>1. CASE Kept(rs, item, i, t)
      BY <3>1, <1>1, <1>n DEF Kept
    <3>2. CASE Dropped(rs, item, i, t)
      <4>1. j \in 1..Len(rs) - 1 /\ j \in 1..Len(rs) /\ j + 1 \in 1..Len(rs)
        BY <3>2, <1>1, <1>n DEF Dropped
      <4> QED BY <3>2, <4>1 DEF Dropped
    <3> QED BY <1>3, <3>1, <3>2, ExtendShape DEF Grown
  <2>2. CASE t[j] = g
    <3>1. t[j].min = rs[i].min /\ t[j].max = item
      BY <2>2
    <3>2. rs[i].min <= x /\ x <= rs[i].max
      BY <1>1, <1>3, <1>n, <1>i, <1>x, <3>1 DEF Grown
    <3> QED BY <3>2, <1>3 DEF Grown
  <2> QED BY <1>1, <2>1, <2>2
<1>4. CASE Lowered(rs, item, i, t)
  BY <1>1, <1>4, <1>n, <1>i, <1>x DEF Lowered
<1>5. CASE Added(rs, item, i, t)
  <2>1. CASE j = i
    BY <1>1, <1>5, <1>i, <1>x, <2>1 DEF Single, Added
  <2>2. CASE j # i
    <3>1. \E k \in 1..Len(rs) : t[j] = rs[k]
      BY <1>5, <1>n, <2>2 DEF Added
    <3> QED BY <1>1, <3>1
  <2> QED BY <2>1, <2>2
<1> QED BY <1>2, <1>3, <1>4, <1>5, <1>h

\* Into a sorted list without the item, an insertion keeps every number and
\* the order.
LEMMA InsertedFresh ==
  ASSUME NEW rs \in Seq(RangeType), NEW item \in Item, NEW i \in 1..Len(rs) + 1,
         StopsAt(rs, item, i), SortedList(rs), item \notin Items(rs)
  PROVE  /\ SortedList(InsertedAt(rs, item, i))
         /\ Items(rs) \cup {item} \subseteq Items(InsertedAt(rs, item, i))
<1> DEFINE t == InsertedAt(rs, item, i)
<1>h. \/ Within(rs, item, i, t) \/ Grown(rs, item, i, t)
      \/ Lowered(rs, item, i, t) \/ Added(rs, item, i, t)
  BY InsertedShape
<1>z. t = InsertedAt(rs, item, i)
  OBVIOUS
<1> HIDE DEF t
<1>n. Len(rs) \in Nat /\ \A j \in 1..Len(rs) : rs[j].min \in Int /\ rs[j].max \in Int
  BY ElementOfSeq, RangeBounds
<1>i. item \in Int /\ \A x \in Item : x \in Int
  BY MaxItemAssumption DEF Item
<1>a. \A j \in 1..Len(rs) : rs[j].min > item \/ rs[j].max < item
  BY <1>n, <1>i DEF Items
<1>b. \A j \in 1..Len(rs) : j < i => rs[j].max < item - 1 /\ rs[j].min <= item
  BY <1>n, <1>i DEF StopsAt, Stops
<1>s. /\ \A j \in 1..Len(rs) : rs[j].min <= rs[j].max
      /\ \A j, k \in 1..Len(rs) : j < k => rs[j].max < rs[k].min
  BY DEF SortedList
<1>g. SUFFICES /\ \A j \in 1..Len(t) : t[j].min <= t[j].max
               /\ \A j, k \in 1..Len(t) : j < k => t[j].max < t[k].min
               /\ \A x \in Item : (\E j \in 1..Len(rs) : rs[j].min <= x /\ x <= rs[j].max)
                    => \E j \in 1..Len(t) : t[j].min <= x /\ x <= t[j].max
               /\ \E j \in 1..Len(t) : t[j].min <= item /\ item <= t[j].max
  BY <1>z DEF SortedList, Items
<1>3. CASE Grown(rs, item, i, t)
  <2>0. i \in 1..Len(rs) /\ rs[i].min <= item /\ rs[i].max = item - 1
    BY <1>3, <1>n DEF Grown
  <2>1. ~Dropped(rs, item, i, t)
    <3>1. i < Len(rs) => i + 1 \in 1..Len(rs) /\ rs[i].max < rs[i + 1].min
      BY <2>0, <1>n, <1>s
    <3> QED BY <2>0, <3>1, <1>n, <1>i DEF Dropped
  <2>2. Kept(rs, item, i, t)
    BY <1>3, <2>0, <2>1, ExtendShape DEF Grown
  <2>3. ASSUME NEW k \in 1..Len(rs), i < k PROVE item < rs[k].min
    <3>1. item - 1 < rs[k].min /\ rs[k].min <= rs[k].max
      BY <2>0, <2>3, <1>s
    <3> QED BY <3>1, <1>a, <1>n, <1>i
  <2>4. \A k \in 1..Len(rs) : /\ t[k].min = rs[k].min
                              /\ t[k].max = IF k = i THEN item ELSE rs[k].max
    BY <2>0, <2>2 DEF Kept
  <2>5. Len(t) = Len(rs)
    BY <2>2 DEF Kept
  <2>6. \A j \in 1..Len(t) : t[j].min <= t[j].max
    BY <2>0, <2>4, <2>5, <1>s
  <2>7. \A j, k \in 1..Len(t) : j < k => t[j].max < t[k].min
    BY <2>3, <2>4, <2>5, <1>s
  <2>8. \A j \in 1..Len(rs) : rs[j].max <= t[j].max
    BY <2>0, <2>4, <1>n, <1>i
  <2>9. ASSUME NEW x \in Item, NEW j \in 1..Len(rs), rs[j].min <= x, x <= rs[j].max
        PROVE  t[j].min <= x /\ x <= t[j].max
    <3>1. t[j].min = rs[j].min /\ rs[j].max <= t[j].max
      BY <2>4, <2>8
    <3>2. t[j].max \in Int
      BY <2>4, <1>n, <1>i
    <3>3. x \in Int /\ rs[j].max \in Int
      BY <1>n, <1>i
    <3> QED BY <2>9, <3>1, <3>2, <3>3
  <2>10. t[i].min <= item /\ item <= t[i].max
    BY <2>0, <2>4, <1>n, <1>i
  <2>11. \E j \in 1..Len(t) : t[j].min <= item /\ item <= t[j].max
    BY <2>0, <2>5, <2>10
  <2>12. \A x \in Item : (\E j \in 1..Len(rs) : rs[j].min <= x /\ x <= rs[j].max)
           => \E j \in 1..Len(t) : t[j].min <= x /\ x <= t[j].max
    BY <2>5, <2>9
  <2> QED BY <2>6, <2>7, <2>11, <2>12
<1>4. CASE Lowered(rs, item, i, t)
  <2>0. i \in 1..Len(rs) /\ rs[i].min = item + 1 /\ Len(t) = Len(rs)
    BY <1>4, <1>n DEF Lowered
  <2>1. \A k \in 1..Len(rs) : /\ t[k].min = IF k = i THEN item ELSE rs[k].min
                              /\ t[k].max = rs[k].max
    BY <1>4 DEF Lowered
  <2>2. \A j, k \in 1..Len(t) : j < k => t[j].max < t[k].min
    BY <2>0, <1>n, <1>i, <1>s, <1>b, <2>1
  <2>3. \A j \in 1..Len(rs) : t[j].min <= rs[j].min
    BY <2>0, <2>1, <1>n, <1>i
  <2>4. \A j \in 1..Len(t) : t[j].min <= t[j].max
    BY <2>0, <2>1, <2>3, <1>n, <1>s, <1>i
  <2>5. ASSUME NEW x \in Item, NEW j \in 1..Len(rs), rs[j].min <= x, x <= rs[j].max
        PROVE  t[j].min <= x /\ x <= t[j].max
    <3>1. t[j].max = rs[j].max /\ t[j].min <= rs[j].min
      BY <2>1, <2>3
    <3>2. t[j].min \in Int
      BY <2>1, <1>n, <1>i
    <3>3. x \in Int /\ rs[j].min \in Int
      BY <1>n, <1>i
    <3> QED BY <2>5, <3>1, <3>2, <3>3
  <2>6. t[i].min <= item /\ item <= t[i].max
    BY <2>0, <2>1, <1>n, <1>s, <1>i
  <2> QED BY <2>0, <2>2, <2>4, <2>5, <2>6
<1>5. CASE Added(rs, item, i, t)
  <2>0. /\ Len(t) = Len(rs) + 1 /\ i \in 1..Len(t)
        /\ i <= Len(rs) => rs[i].min > item + 1
    BY <1>5, <1>n DEF Added
  <2>1. ASSUME NEW k \in 1..Len(rs), k >= i PROVE rs[k].min > item
    <3>1. i \in 1..Len(rs)
      BY <2>1, <1>n
    <3>2. k = i \/ rs[i].max < rs[k].min
      BY <2>1, <3>1, <1>s
    <3> QED BY <2>0, <3>1, <3>2, <1>n, <1>i, <1>s
  <2>2. \A k \in 1..Len(t) :
          \/ k < i /\ k \in 1..Len(rs) /\ t[k] = rs[k]
          \/ k = i /\ t[k].min = item /\ t[k].max = item
          \/ k > i /\ k - 1 \in 1..Len(rs) /\ k - 1 >= i /\ t[k] = rs[k - 1]
    <3> TAKE k \in 1..Len(t)
    <3>1. CASE k < i
      BY <3>1, <1>5, <1>n DEF Added
    <3>2. CASE k = i
      BY <3>2, <1>5, <1>n DEF Added, Single
    <3>3. CASE k > i
      BY <3>3, <1>5, <1>n DEF Added
    <3> QED BY <3>1, <3>2, <3>3, <2>0, <1>n
  <2>3. ASSUME NEW j \in 1..Len(t) PROVE t[j].min <= t[j].max
    <3>1. CASE j < i
      BY <3>1, <2>2, <1>s
    <3>2. CASE j = i
      BY <3>2, <2>2, <1>i
    <3>3. CASE j > i
      BY <3>3, <2>2, <1>s
    <3> QED BY <3>1, <3>2, <3>3, <2>0, <1>n
  <2>4. \A j, k \in 1..Len(t) : j < k => t[j].max < t[k].min
    <3> SUFFICES ASSUME NEW j \in 1..Len(t), NEW k \in 1..Len(t), j < k
                 PROVE  t[j].max < t[k].min
      OBVIOUS
    <3>1. CASE j < i /\ k < i
      BY <3>1, <2>2, <1>s
    <3>2. CASE j < i /\ k = i
      BY <3>2, <2>2, <1>b, <1>n, <1>i
    <3>3. CASE j < i /\ k > i
      BY SMTT(40), <3>3, <2>2, <1>s, <1>n, <2>0
    <3>4. CASE j = i /\ k > i
      <4>1. k - 1 \in 1..Len(rs) /\ k - 1 >= i /\ t[k] = rs[k - 1]
        BY <3>4, <2>2, <1>n
      <4>2. rs[k - 1].min > item
        BY <4>1, <2>1
      <4> QED BY <3>4, <4>1, <4>2, <2>2, <1>n, <1>i
    <3>5. CASE j > i /\ k > i
      BY <3>5, <2>2, <1>s, <1>n, <2>0
    <3> QED BY <3>1, <3>2, <3>3, <3>4, <3>5, <2>0, <1>n
  <2>5. \A j \in 1..Len(rs) : \E k \in 1..Len(t) : t[k] = rs[j]
    <3> TAKE j \in 1..Len(rs)
    <3>1. CASE j < i
      BY <3>1, <1>5, <1>n DEF Added
    <3>2. CASE j >= i
      <4>1. j + 1 \in 1..Len(t) /\ t[j + 1] = rs[j]
        BY <3>2, <1>5, <1>n DEF Added
      <4> QED BY <4>1
    <3> QED BY <3>1, <3>2, <1>n
  <2>6. \A x \in Item : (\E j \in 1..Len(rs) : rs[j].min <= x /\ x <= rs[j].max)
          => \E j \in 1..Len(t) : t[j].min <= x /\ x <= t[j].max
    BY <2>5
  <2>7. t[i].min <= item /\ item <= t[i].max
    BY <2>0, <2>2, <1>i
  <2> QED BY <2>0, <2>3, <2>4, <2>6, <2>7
<1>6. ~Within(rs, item, i, t)
  BY <1>a, <1>n, <1>i DEF Within
<1> QED BY <1>3, <1>4, <1>5, <1>6, <1>h

-----------------------------------------------------------------------------
\* The ranges read back from an acknowledgement are ranges of the list.
LEMMA DeserializedRanges ==
  ASSUME NEW rs \in Seq(RangeType)
  PROVE  LET w == Serialize(rs) IN
         /\ Len(w.body) = Len(rs)
         /\ w.count \in 0..Len(rs)
         /\ Len(rs) < CountMod => w.count = Len(rs)
         /\ Len(Deserialize(w)) = w.count
         /\ \A k \in 1..w.count : Deserialize(w)[k] = rs[k]
<1> DEFINE w == Serialize(rs)
<1>n. Len(rs) \in Nat /\ \A k \in 1..Len(rs) : rs[k] \in RangeType
  BY ElementOfSeq
<1>c. CountMod \in Nat /\ CountMod > 0
  BY CountModAssumption
<1>1. w.count = Len(rs) % CountMod /\ Len(w.body) = Len(rs)
  BY <1>n DEF Serialize
<1>2. w.count \in 0..Len(rs) /\ (Len(rs) < CountMod => w.count = Len(rs))
  BY <1>n, <1>c, <1>1
<1>3. /\ DOMAIN Deserialize(w) = 1..w.count
      /\ Len(Deserialize(w)) = w.count
  BY <1>n, <1>2 DEF Deserialize
<1>4. ASSUME NEW k \in 1..w.count
      PROVE  Deserialize(w)[k] = rs[k]
  <2>0. k \in 1..Len(rs) /\ rs[k] \in RangeType
    BY <1>n, <1>2
  <2>1. w.body[k] = IF rs[k].min = rs[k].max THEN <<TRUE, rs[k].min>>
                                             ELSE <<FALSE, rs[k].min, rs[k].max>>
    BY <2>0 DEF Serialize
  <2>2. Deserialize(w)[k] = [min |-> w.body[k][2],
                             max |-> IF w.body[k][1] THEN w.body[k][2]
                                                     ELSE w.body[k][3]]
    BY DEF Deserialize
  <2>3. Deserialize(w)[k] = [min |-> rs[k].min, max |-> rs[k].max]
    <3>1. CASE rs[k].min = rs[k].max
      BY <2>1, <2>2, <3>1
    <3>2. CASE rs[k].min # rs[k].max
      BY <2>1, <2>2, <3>2
    <3> QED BY <3>1, <3>2
  <2> QED BY <2>0, <2>3 DEF RangeType
<1> QED BY <1>1, <1>2, <1>3, <1>4

\* What is read back from an acknowledgement is in the list, and all of the
\* list is if the count has room for it.
LEMMA DeserializedItems ==
  ASSUME NEW rs \in Seq(RangeType)
  PROVE  /\ Items(Deserialize(Serialize(rs))) \subseteq Items(rs)
         /\ Len(Serialize(rs).body) < CountMod
              => Items(rs) \subseteq Items(Deserialize(Serialize(rs)))
BY DeserializedRanges DEF Items

-----------------------------------------------------------------------------
\* The part of the type invariant that the proofs need.
ListTypeOK == ranges \in Seq(RangeType)

\* The inductive invariant for any sequence of insertions and clears.
SoundInv == ListTypeOK /\ NothingInvented /\ WireSound

\* A step keeps the list and the acknowledgement sound.
LEMMA SoundStep == SoundInv /\ [Next]_vars => SoundInv'
<1> SUFFICES ASSUME SoundInv, [Next]_vars PROVE SoundInv'
  OBVIOUS
<1> USE DEF SoundInv, ListTypeOK
<1>1. CASE WriteAcks
  <2>1. ranges' \in Seq(RangeType) /\ Items(ranges') = {}
    BY <1>1 DEF WriteAcks, Items
  <2>2. Items(Deserialize(wire')) \subseteq reported'
    BY <1>1, DeserializedItems DEF WriteAcks, NothingInvented
  <2> QED BY <2>1, <2>2 DEF NothingInvented, WireSound
<1>2. ASSUME NEW item \in Item, Insert(item) PROVE SoundInv'
  <2>1. PICK i \in 1..Len(ranges) + 1 :
          StopsAt(ranges, item, i) /\ ranges' = InsertedAt(ranges, item, i)
    BY <1>2 DEF Insert
  <2>2. ranges' \in Seq(RangeType) /\ Items(ranges') \subseteq Items(ranges) \cup {item}
    BY <2>1, InsertedSound
  <2>3. pending' = pending \cup {item} /\ wire' = wire /\ reported' = reported
    BY <1>2 DEF Insert
  <2> QED BY <2>2, <2>3 DEF NothingInvented, WireSound
<1>3. CASE UNCHANGED vars
  BY <1>3 DEF vars, NothingInvented, WireSound
<1> QED BY <1>1, <1>2, <1>3 DEF Next

\* Whatever is inserted, in whatever order and however often, neither the list
\* nor an acknowledgement written from it names a number that was not inserted
\* (RangeList::insert, SendPart::write_acks).
THEOREM AcksAreSound == Spec => [](NothingInvented /\ WireSound)
<1>1. Init => SoundInv
  <2> SUFFICES ASSUME Init PROVE SoundInv
    OBVIOUS
  <2>1. ranges = <<>> /\ <<>> \in Seq(RangeType) /\ Items(<<>>) = {}
    BY DEF Init, Items
  <2>2. Items(Deserialize(wire)) \subseteq Items(<<>>)
    BY <2>1, DeserializedItems DEF Init
  <2> QED BY <2>1, <2>2 DEF Init, SoundInv, ListTypeOK, NothingInvented, WireSound
<1> QED BY <1>1, SoundStep, PTL DEF Spec, SoundInv

\* The inductive invariant, with what holds while no number is inserted twice.
FreshInv == SoundInv /\ FreshSorted /\ NothingLost /\ WireExact

\* While no number is inserted twice between two clears, the list stays sorted
\* and free of overlaps and no number is lost, in the list or on the wire
\* (RangeList::insert, SendPart::write_acks).
THEOREM FreshAcksAreExact == Spec => [](FreshSorted /\ NothingLost /\ WireExact)
<1>1. Init => FreshInv
  <2> SUFFICES ASSUME Init PROVE FreshInv
    OBVIOUS
  <2>1. ranges = <<>> /\ <<>> \in Seq(RangeType) /\ Items(<<>>) = {}
    BY DEF Init, Items
  <2>2. Items(Deserialize(wire)) \subseteq Items(<<>>)
    BY <2>1, DeserializedItems DEF Init
  <2>3. FreshSorted
    BY <2>1 DEF FreshSorted, SortedList
  <2> QED BY <2>1, <2>2, <2>3 DEF Init, FreshInv, SoundInv, ListTypeOK,
             NothingInvented, WireSound, NothingLost, WireExact
<1>2. FreshInv /\ [Next]_vars => FreshInv'
  <2> SUFFICES ASSUME FreshInv, [Next]_vars PROVE FreshInv'
    OBVIOUS
  <2> USE DEF FreshInv
  <2>0. SoundInv'
    BY SoundStep
  <2>1. CASE WriteAcks
    <3>1. ranges' = <<>> /\ pending' = {} /\ wireFresh' = fresh
          /\ wire' = Serialize(ranges) /\ reported' = pending
      BY <2>1 DEF WriteAcks
    <3>2. FreshSorted'
      BY <3>1 DEF FreshSorted, SortedList
    <3>3. NothingLost'
      BY <3>1 DEF NothingLost
    <3>4. Len(wire'.body) < CountMod => Items(ranges) \subseteq Items(Deserialize(wire'))
      BY <3>1, DeserializedItems DEF SoundInv, ListTypeOK
    <3>5. WireExact'
      BY <3>1, <3>4 DEF NothingLost, WireExact
    <3> QED BY <2>0, <3>2, <3>3, <3>5
  <2>2. ASSUME NEW item \in Item, Insert(item) PROVE FreshInv'
    <3>1. PICK i \in 1..Len(ranges) + 1 :
            StopsAt(ranges, item, i) /\ ranges' = InsertedAt(ranges, item, i)
      BY <2>2 DEF Insert
    <3>2. /\ pending' = pending \cup {item} /\ fresh' = (fresh /\ item \notin pending)
          /\ wire' = wire /\ reported' = reported /\ wireFresh' = wireFresh
      BY <2>2 DEF Insert
    <3>3. ASSUME fresh' PROVE SortedList(ranges') /\ Items(ranges) \cup {item} \subseteq Items(ranges')
      <4>1. fresh /\ item \notin Items(ranges)
        BY <3>2, <3>3 DEF SoundInv, NothingInvented
      <4>2. SortedList(ranges) /\ ranges \in Seq(RangeType)
        BY <4>1 DEF FreshSorted, SoundInv, ListTypeOK
      <4> QED BY <3>1, <4>1, <4>2, InsertedFresh
    <3>4. FreshSorted'
      BY <3>3 DEF FreshSorted
    <3>5. NothingLost'
      BY <3>2, <3>3 DEF NothingLost
    <3>6. WireExact'
      BY <3>2 DEF WireExact
    <3> QED BY <2>0, <3>4, <3>5, <3>6
  <2>3. CASE UNCHANGED vars
    BY <2>0, <2>3 DEF vars, NothingLost, WireExact, FreshSorted
  <2> QED BY <2>1, <2>2, <2>3 DEF Next
<1> QED BY <1>1, <1>2, PTL DEF Spec, FreshInv

\* What the client reads from an acknowledgement was inserted before it was
\* written, also when the 16-bit count has wrapped (RangeList::serialize).
COROLLARY WireIsSound == Spec => []WireSound
BY AcksAreSound, PTL

\* Growing or inserting a range never runs into a neighbour while no number is
\* inserted twice between two clears (RangeList::insert).
COROLLARY FreshStaysSorted == Spec => []FreshSorted
BY FreshAcksAreExact, PTL

\* While no number is inserted twice, the client reads back every number that
\* was inserted, unless there were more ranges than the 16-bit count can say
\* (RangeList::serialize, SendPart::write_acks).
COROLLARY WireIsExact == Spec => []WireExact
BY FreshAcksAreExact, PTL

-----------------------------------------------------------------------------
\* One range on the wire.
WireRange == {<<TRUE, x>> : x \in Item} \cup {<<FALSE, x, y>> : x, y \in Item}

\* What serialize writes has the form that deserialize reads.
LEMMA SerializedType ==
  ASSUME NEW rs \in Seq(RangeType)
  PROVE  Serialize(rs).body \in Seq(WireRange)
<1> DEFINE Entry(r) == IF r.min = r.max THEN <<TRUE, r.min>> ELSE <<FALSE, r.min, r.max>>
<1>1. Len(rs) \in Nat /\ \A k \in 1..Len(rs) : rs[k] \in RangeType
  BY ElementOfSeq
<1>2. \A r \in RangeType : Entry(r) \in WireRange
  BY RangeBounds DEF WireRange
<1>3. Serialize(rs).body = [k \in 1..Len(rs) |-> Entry(rs[k])]
  BY DEF Serialize
<1> HIDE DEF Entry
<1> QED BY <1>1, <1>2, <1>3

\* The list and the acknowledgements written from it hold message numbers only,
\* whatever is inserted: growing a range down or up never leaves the 32-bit
\* number space, at its two ends neither (RangeList::insert).
THEOREM TypeCorrect == Spec => []TypeOK
<1>1. Init => TypeOK
  <2> SUFFICES ASSUME Init PROVE TypeOK
    OBVIOUS
  <2>1. ranges = <<>> /\ <<>> \in Seq(RangeType)
    BY DEF Init
  <2>2. wire.body \in Seq(WireRange)
    BY <2>1, SerializedType DEF Init
  <2> QED BY <2>1, <2>2 DEF Init, TypeOK, WireRange
<1>2. TypeOK /\ [Next]_vars => TypeOK'
  <2> SUFFICES ASSUME TypeOK, [Next]_vars PROVE TypeOK'
    OBVIOUS
  <2>0. ranges \in Seq(RangeType)
    BY DEF TypeOK
  <2>1. CASE WriteAcks
    <3>1. wire'.body \in Seq(WireRange)
      BY <2>0, <2>1, SerializedType DEF WriteAcks
    <3>2. ranges' \in Seq(RangeType)
      BY <2>1 DEF WriteAcks
    <3> QED BY <2>1, <3>1, <3>2 DEF WriteAcks, TypeOK, WireRange
  <2>2. ASSUME NEW item \in Item, Insert(item) PROVE TypeOK'
    <3>1. ranges' \in Seq(RangeType)
      BY <2>0, <2>2, InsertedSound DEF Insert
    <3> QED BY <2>2, <3>1 DEF Insert, TypeOK
  <2>3. CASE UNCHANGED vars
    BY <2>3 DEF vars, TypeOK
  <2> QED BY <2>1, <2>2, <2>3 DEF Next
<1> QED BY <1>1, <1>2, PTL DEF Spec
=============================================================================
