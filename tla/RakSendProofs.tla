--------------------------- MODULE RakSendProofs ---------------------------
(***************************************************************************)
(* What RakSend sends is numbered, cut and acknowledged as its readers     *)
(* expect, for every value of the constants.                               *)
(***************************************************************************)
EXTENDS RakSend, RakWireProofs, FiniteSetTheorems

LP == INSTANCE RangeListProofs WITH
  MaxItem <- MaxItem, CountMod <- U16, ranges <- acks, pending <- inserted,
  fresh <- TRUE, wire <- datagram, reported <- acked, wireFresh <- TRUE

-----------------------------------------------------------------------------
(* Counters that wrap *)

\* Division with remainder, whatever the width of the counter.
LEMMA ModDivision ==
  ASSUME NEW M \in Nat \ {0}, NEW a \in Int
  PROVE  /\ a % M \in 0..M - 1 /\ a \div M \in Int
         /\ a = M * (a \div M) + (a % M)
BY SMT

LEMMA ModUnique ==
  ASSUME NEW M \in Nat \ {0}, NEW q \in Int, NEW r \in 0..M - 1
  PROVE  (M * q + r) % M = r
BY SMT

\* Counting on from a counter that may have wrapped.
LEMMA ModAdd ==
  ASSUME NEW M \in Nat \ {0}, NEW a \in Int, NEW b \in Int
  PROVE  ((a % M) + b) % M = (a + b) % M
<1> DEFINE q == a \div M
           r == a % M
           c == r + b
           u == c \div M
           v == c % M
<1>1. q \in Int /\ r \in 0..M - 1 /\ a = M * q + r /\ M \in Int
  BY ModDivision
<1>2. c \in Int
  BY <1>1
<1>3. u \in Int /\ v \in 0..M - 1 /\ c = M * u + v
  BY <1>2, ModDivision
<1>4. c = r + b
  OBVIOUS
<1> HIDE DEF q, r, c, u, v
<1>5. a + b = M * (q + u) + v /\ q + u \in Int
  BY <1>1, <1>3, <1>4, SMT
<1>6. (M * (q + u) + v) % M = v
  BY <1>3, <1>5, ModUnique
<1> QED BY <1>5, <1>6 DEF v, c, r

LEMMA WrapAdd ==
  ASSUME NEW a \in Int, NEW b \in Int
  PROVE  Wrap(a) \in 0..IndexMod - 1 /\ Wrap(Wrap(a) + b) = Wrap(a + b)
BY IndexModAssumption, ModDivision, ModAdd DEF Wrap

-----------------------------------------------------------------------------
(* How a message is cut *)

AnyMessage == [rel : Range(RelNames), len : Nat]

LEMMA MinOfTwo ==
  ASSUME NEW a \in Int, NEW b \in Int
  PROVE  Min({a, b}) = IF a <= b THEN a ELSE b
<1> DEFINE c == IF a <= b THEN a ELSE b
<1>1. c \in {a, b} /\ \A y \in {a, b} : c <= y
  OBVIOUS
<1>2. \A x \in {a, b} : (\A y \in {a, b} : x <= y) => x = c
  OBVIOUS
<1> QED BY <1>1, <1>2 DEF Min

LEMMA MinOfInterval ==
  ASSUME NEW a \in Int, NEW b \in Int, a <= b
  PROVE  Min(a..b) = a
<1>1. a \in a..b /\ \A y \in a..b : a <= y
  OBVIOUS
<1>2. \A x \in a..b : (\A y \in a..b : x <= y) => x = a
  BY <1>1
<1> QED BY <1>1, <1>2 DEF Min

\* Lengths in bytes: the header of a packet, and what it leaves for the data.
LEMMA HeaderLengths ==
  /\ MAX_PACKET_SIZE = 1200
  /\ \A rel : /\ HasOrd(rel)  => HeaderLen(rel, FALSE) = 10 /\ HeaderLen(rel, TRUE) = 22
              /\ ~HasOrd(rel) => HeaderLen(rel, FALSE) = 5 /\ HeaderLen(rel, TRUE) = 17
<1>1. MAX_PACKET_SIZE = 1200
  BY SMT DEF MAX_PACKET_SIZE, MTU_SIZE, UDP_HEADER_SIZE
<1>2. ASSUME NEW rel, HasOrd(rel)
      PROVE  HeaderLen(rel, FALSE) = 10 /\ HeaderLen(rel, TRUE) = 22
  BY <1>2, SMT DEF HeaderLen
<1>3. ASSUME NEW rel, ~HasOrd(rel)
      PROVE  HeaderLen(rel, FALSE) = 5 /\ HeaderLen(rel, TRUE) = 17
  BY <1>3, SMT DEF HeaderLen
<1> QED BY <1>1, <1>2, <1>3

\* The two sizes of a chunk, and when a message is split.
LEMMA ChunkSizes ==
  ASSUME NEW m \in AnyMessage
  PROVE  /\ m.len \in Nat
         /\ HasOrd(m.rel)  => ChunkSize(m) = 1178 /\ (NeedsSplit(m) <=> m.len > 1190)
         /\ ~HasOrd(m.rel) => ChunkSize(m) = 1183 /\ (NeedsSplit(m) <=> m.len > 1195)
<1>1. m.len \in Nat
  BY DEF AnyMessage
<1> DEFINE h == HeaderLen(m.rel, FALSE)
           g == HeaderLen(m.rel, TRUE)
           n == m.len
           M == MAX_PACKET_SIZE
<1>d. ChunkSize(m) = M - g /\ (NeedsSplit(m) <=> h + n > M)
  BY DEF ChunkSize, NeedsSplit
<1>h. /\ M = 1200 /\ n \in Nat
      /\ HasOrd(m.rel) => h = 10 /\ g = 22
      /\ ~HasOrd(m.rel) => h = 5 /\ g = 17
  BY <1>1, HeaderLengths
<1> HIDE DEF h, g, n, M
<1>2. CASE HasOrd(m.rel)
  BY <1>1, <1>2, <1>d, <1>h, SMT DEF n
<1>3. CASE ~HasOrd(m.rel)
  BY <1>1, <1>3, <1>d, <1>h, SMT DEF n
<1> QED BY <1>2, <1>3

\* The number of parts: one, or as many as the data needs.
LEMMA Counts ==
  ASSUME NEW m \in AnyMessage
  PROVE  /\ Count(m) \in Nat /\ Count(m) >= 1 /\ ChunkSize(m) \in Nat
         /\ ~NeedsSplit(m) => Count(m) = 1
         /\ NeedsSplit(m) => /\ Count(m) >= 2
                             /\ (Count(m) - 1) * ChunkSize(m) < m.len
                             /\ m.len <= Count(m) * ChunkSize(m)
<1>1. CASE ~NeedsSplit(m)
  <2>1. ChunkSize(m) \in Nat
    BY ChunkSizes, SMT
  <2> QED BY <1>1, <2>1 DEF Count
<1>2. CASE NeedsSplit(m)
  <2> DEFINE n == m.len
             c == ChunkSize(m)
             k == Count(m)
  <2>1. n \in Nat /\ \/ c = 1178 /\ n > 1190
                     \/ c = 1183 /\ n > 1195
    BY <1>2, ChunkSizes, SMT
  <2>2. k = (n + c - 1) \div c
    BY <1>2 DEF Count
  <2> HIDE DEF n, c, k
  <2>3. k \in Nat /\ k >= 2 /\ (k - 1) * c < n /\ n <= k * c /\ c \in Nat
    <3>1. CASE c = 1178
      BY <2>1, <2>2, <3>1, SMT
    <3>2. CASE c = 1183
      BY <2>1, <2>2, <3>2, SMT
    <3> QED BY <2>1, <3>1, <3>2
  <2> QED BY <1>2, <2>3, SMT DEF n, c, k
<1> QED BY <1>1, <1>2

\* Where the j-th part of a message starts, and how long it is.
From(m, j) == (j - 1) * ChunkSize(m)
PartLen(m, j) == IF NeedsSplit(m) THEN Min({ChunkSize(m), m.len - From(m, j)}) ELSE m.len

\* What is left behind the header.
LEMMA HeaderFits ==
  ASSUME NEW m \in AnyMessage
  PROVE  LET h == HeaderLen(m.rel, NeedsSplit(m)) IN
         /\ h \in Nat /\ MAX_PACKET_SIZE \in Nat
         /\ HasOrd(m.rel) => h = IF NeedsSplit(m) THEN 22 ELSE 10
         /\ ~HasOrd(m.rel) => h = IF NeedsSplit(m) THEN 17 ELSE 5
         /\ NeedsSplit(m) => h + ChunkSize(m) = MAX_PACKET_SIZE
         /\ ~NeedsSplit(m) => h + m.len <= MAX_PACKET_SIZE
<1> DEFINE h == HeaderLen(m.rel, NeedsSplit(m))
           M == MAX_PACKET_SIZE
           b == NeedsSplit(m)
           n == m.len
<1>1. M = 1200 /\ n \in Nat
  BY HeaderLengths, ChunkSizes
<1>2. CASE HasOrd(m.rel)
  <2>1. h = IF b THEN 22 ELSE 10
    <3>1. h = (32 + 3 + (IF HasOrd(m.rel) THEN 5 + 32 ELSE 0) + 1
                 + (IF b THEN 16 + 32 + 32 + 16 ELSE 0)) \div 8 + 1
      BY DEF HeaderLen
    <3> HIDE DEF b, h
    <3>2. CASE b
      BY <1>2, <3>1, <3>2, SMT
    <3>3. CASE ~b
      BY <1>2, <3>1, <3>3, SMT
    <3> QED BY <3>2, <3>3
  <2>2. ChunkSize(m) = 1178 /\ (b <=> n > 1190)
    BY <1>2, ChunkSizes
  <2> HIDE DEF h, M, n
  <2> QED BY <1>1, <1>2, <2>1, <2>2, SMT DEF h, M, n
<1>3. CASE ~HasOrd(m.rel)
  <2>1. h = IF b THEN 17 ELSE 5
    <3>1. h = (32 + 3 + (IF HasOrd(m.rel) THEN 5 + 32 ELSE 0) + 1
                 + (IF b THEN 16 + 32 + 32 + 16 ELSE 0)) \div 8 + 1
      BY DEF HeaderLen
    <3> HIDE DEF b, h
    <3>2. CASE b
      BY <1>3, <3>1, <3>2, SMT
    <3>3. CASE ~b
      BY <1>3, <3>1, <3>3, SMT
    <3> QED BY <3>2, <3>3
  <2>2. ChunkSize(m) = 1183 /\ (b <=> n > 1195)
    BY <1>3, ChunkSizes
  <2> HIDE DEF h, M, n
  <2> QED BY <1>1, <1>3, <2>1, <2>2, SMT DEF h, M, n
<1> QED BY <1>2, <1>3

\* Every part fits behind its header, and the parts are the message.
LEMMA Slices ==
  ASSUME NEW m \in AnyMessage, NEW j \in 1..Count(m)
  PROVE  /\ From(m, j) \in Nat /\ PartLen(m, j) \in Nat /\ From(m, 1) = 0
         /\ PartLen(m, j) + HeaderLen(m.rel, NeedsSplit(m)) <= MAX_PACKET_SIZE
         /\ j < Count(m) => From(m, j + 1) = From(m, j) + PartLen(m, j)
         /\ j = Count(m) => From(m, j) + PartLen(m, j) = m.len
<1> DEFINE n == m.len
           c == ChunkSize(m)
           k == Count(m)
           f == From(m, j)
           l == PartLen(m, j)
           h == HeaderLen(m.rel, NeedsSplit(m))
           M == MAX_PACKET_SIZE
<1>1. n \in Nat /\ k \in Nat /\ k >= 1 /\ c \in Nat /\ j \in Nat /\ 1 <= j /\ j <= k
  BY ChunkSizes, Counts
<1>2. f = (j - 1) * c /\ From(m, j + 1) = (j + 1 - 1) * c /\ From(m, 1) = (1 - 1) * c
  BY DEF From
<1>3. From(m, 1) = 0 /\ f \in Nat /\ From(m, j + 1) = f + c
  <2> HIDE DEF c, f
  <2> QED BY <1>1, <1>2, SMT
<1>4. CASE ~NeedsSplit(m)
  <2>1. k = 1 /\ l = n /\ j = 1
    BY <1>1, <1>4, Counts DEF PartLen
  <2>2. h + n <= M /\ h \in Nat /\ M \in Nat
    BY <1>4, HeaderFits
  <2>4. l \in Nat /\ l + h <= M
    <3> HIDE DEF h, n, M, l
    <3> QED BY <1>1, <2>1, <2>2
  <2> QED BY <1>1, <1>3, <2>1, <2>4
<1>5. CASE NeedsSplit(m)
  <2>1. l = Min({c, n - f})
    BY <1>5 DEF PartLen
  <2>2. l = IF c <= n - f THEN c ELSE n - f
    BY <1>1, <1>3, <2>1, MinOfTwo
  <2>3. (k - 1) * c < n /\ n <= k * c
    BY <1>5, Counts
  <2>4. h + c = M /\ h \in Nat /\ M \in Nat
    BY <1>5, HeaderFits
  <2>5. c = 1178 \/ c = 1183
    BY ChunkSizes
  <2> HIDE DEF n, c, k, f, l, h, M
  <2>6. l \in Nat /\ l + h <= M /\ (j < k => l = c) /\ (j = k => f + l = n)
    <3>1. CASE c = 1178
      BY <1>1, <1>2, <2>2, <2>3, <2>4, <3>1, SMT
    <3>2. CASE c = 1183
      BY <1>1, <1>2, <2>2, <2>3, <2>4, <3>2, SMT
    <3> QED BY <2>5, <3>1, <3>2
  <2> QED BY <1>3, <2>6 DEF n, c, k, f, l, h, M
<1> QED BY <1>4, <1>5

-----------------------------------------------------------------------------
(* The packets of all messages *)

\* Among the first k - 1 messages of s: those of a reliability, and those split.
Rank(s, k, rel) == Cardinality({j \in 1..k - 1 : s[j].rel = rel})
Splits(s, k) == Cardinality({j \in 1..k - 1 : NeedsSplit(s[j])})

\* The j-th packet of message k, which is the i-th of all.
Piece(m, k, j, num, ord, id) ==
  [message_number |-> num,
   rel |-> m.rel,
   ord |-> ord,
   split_packet_info |->
     IF NeedsSplit(m) THEN <<[id |-> id, index |-> j - 1, count |-> Count(m)]>> ELSE <<>>,
   data |-> [msg |-> k, from |-> From(m, j), len |-> PartLen(m, j)]]

OrdAt(s, k) == IF HasOrd(s[k].rel) THEN Wrap(Rank(s, k, s[k].rel)) ELSE 0
Due(s, k, j, i) == Piece(s[k], k, j, Wrap(i - 1), OrdAt(s, k), Splits(s, k) % SplitMod)

\* The packets W are those of the messages s, of which the k-th starts at first[k].
Laid(s, W, first) ==
  /\ first \in [1..Len(s) + 1 -> 1..Len(W) + 1] /\ first[Len(s) + 1] = Len(W) + 1
  /\ \A k \in 1..Len(s) : first[k + 1] = first[k] + Count(s[k])
  /\ \A k \in 1..Len(s) : \A i \in first[k]..first[k + 1] - 1 :
        W[i] = Due(s, k, i - first[k] + 1, i)
  /\ \A i \in 1..Len(W) : \E k \in 1..Len(s) : i \in first[k]..first[k + 1] - 1

\* Another message makes no difference to those before it.
LEMMA DueSame ==
  ASSUME NEW s \in Seq(AnyMessage), NEW m \in AnyMessage, NEW k \in 1..Len(s), NEW j, NEW i
  PROVE  Due(Append(s, m), k, j, i) = Due(s, k, j, i)
<1> DEFINE t == Append(s, m)
<1>1. /\ Len(s) \in Nat /\ t[k] = s[k]
      /\ \A x \in 1..k - 1 : t[x] = s[x]
  OBVIOUS
<1> HIDE DEF t
<1>2. Rank(t, k, s[k].rel) = Rank(s, k, s[k].rel)
  <2>1. {x \in 1..k - 1 : t[x].rel = s[k].rel} = {x \in 1..k - 1 : s[x].rel = s[k].rel}
    BY <1>1
  <2> QED BY <2>1 DEF Rank
<1>3. Splits(t, k) = Splits(s, k)
  <2>1. {x \in 1..k - 1 : NeedsSplit(t[x])} = {x \in 1..k - 1 : NeedsSplit(s[x])}
    BY <1>1
  <2> QED BY <2>1 DEF Splits
<1>4. OrdAt(t, k) = OrdAt(s, k)
  BY <1>1, <1>2 DEF OrdAt
<1>5. Due(t, k, j, i) = Due(s, k, j, i)
  BY <1>1, <1>3, <1>4 DEF Due
<1> QED BY <1>5 DEF t

\* How the last message of a sequence counts.
LEMMA RankNext ==
  ASSUME NEW s \in Seq(AnyMessage), NEW m \in AnyMessage
  PROVE  LET t == Append(s, m)
             n == Len(s) + 1
         IN  /\ Splits(s, n) \in Nat /\ Splits(t, n) = Splits(s, n)
             /\ Splits(t, n + 1) = Splits(s, n) + (IF NeedsSplit(m) THEN 1 ELSE 0)
             /\ \A rel : /\ Rank(s, n, rel) \in Nat /\ Rank(t, n, rel) = Rank(s, n, rel)
                         /\ Rank(t, n + 1, rel) = Rank(s, n, rel) + (IF m.rel = rel THEN 1 ELSE 0)
<1> DEFINE t == Append(s, m)
           n == Len(s) + 1
<1>1. /\ n \in Nat /\ n >= 1 /\ t[n] = m
      /\ \A x \in 1..n - 1 : t[x] = s[x]
  OBVIOUS
<1> HIDE DEF t, n
<1>2. IsFiniteSet(1..n - 1) /\ 1..(n + 1) - 1 = (1..n - 1) \cup {n} /\ n \notin 1..n - 1
  <2>1. n - 1 \in Int /\ 1 \in Int
    BY <1>1
  <2>2. IsFiniteSet(1..n - 1)
    BY <2>1, FS_Interval
  <2> QED BY <1>1, <2>2
<1>3. ASSUME NEW rel
      PROVE  /\ Rank(s, n, rel) \in Nat /\ Rank(t, n, rel) = Rank(s, n, rel)
             /\ Rank(t, n + 1, rel) = Rank(s, n, rel) + (IF m.rel = rel THEN 1 ELSE 0)
  <2> DEFINE A == {x \in 1..n - 1 : s[x].rel = rel}
             B == {x \in 1..n - 1 : t[x].rel = rel}
             C == {x \in 1..(n + 1) - 1 : t[x].rel = rel}
  <2>1. IsFiniteSet(A) /\ Cardinality(A) \in Nat
    BY <1>2, FS_Subset, FS_CardinalityType
  <2>2. A = B /\ n \notin A
    BY <1>1, <1>2
  <2>3. C = IF m.rel = rel THEN A \cup {n} ELSE A
    BY <1>1, <1>2
  <2>4. Cardinality(A \cup {n}) = Cardinality(A) + 1
    <3> HIDE DEF A
    <3> QED BY <2>1, <2>2, FS_AddElement
  <2>5. Cardinality(C) = Cardinality(A) + (IF m.rel = rel THEN 1 ELSE 0)
    <3> HIDE DEF A, C
    <3> QED BY <2>1, <2>3, <2>4
  <2> QED BY <2>1, <2>2, <2>5 DEF Rank
<1>4. /\ Splits(s, n) \in Nat /\ Splits(t, n) = Splits(s, n)
      /\ Splits(t, n + 1) = Splits(s, n) + (IF NeedsSplit(m) THEN 1 ELSE 0)
  <2> DEFINE A == {x \in 1..n - 1 : NeedsSplit(s[x])}
             B == {x \in 1..n - 1 : NeedsSplit(t[x])}
             C == {x \in 1..(n + 1) - 1 : NeedsSplit(t[x])}
  <2>1. IsFiniteSet(A) /\ Cardinality(A) \in Nat
    BY <1>2, FS_Subset, FS_CardinalityType
  <2>2. A = B /\ n \notin A
    BY <1>1, <1>2
  <2>3. C = IF NeedsSplit(m) THEN A \cup {n} ELSE A
    BY <1>1, <1>2
  <2>4. Cardinality(A \cup {n}) = Cardinality(A) + 1
    <3> HIDE DEF A
    <3> QED BY <2>1, <2>2, FS_AddElement
  <2>5. Cardinality(C) = Cardinality(A) + (IF NeedsSplit(m) THEN 1 ELSE 0)
    <3> HIDE DEF A, C
    <3> QED BY <2>1, <2>3, <2>4
  <2> QED BY <2>1, <2>2, <2>5 DEF Splits
<1> QED BY <1>3, <1>4 DEF t, n

\* The packets of another message are laid behind those of the others.
LEMMA LaidMore ==
  ASSUME NEW S, NEW s \in Seq(AnyMessage), NEW W \in Seq(S), NEW first, Laid(s, W, first),
         NEW m \in AnyMessage, NEW P \in Seq(S), Len(P) = Count(m),
         \A j \in 1..Count(m) : P[j] = Due(Append(s, m), Len(s) + 1, j, Len(W) + j)
  PROVE  \E f : Laid(Append(s, m), W \o P, f)
<1> DEFINE t == Append(s, m)
           V == W \o P
           n == Len(s)
           l == Len(W)
           c == Count(m)
           f == [k \in 1..n + 2 |-> IF k = n + 2 THEN l + c + 1 ELSE first[k]]
<1>1. /\ n \in Nat /\ l \in Nat /\ c \in Nat /\ c >= 1
      /\ Len(t) = n + 1 /\ t[n + 1] = m /\ \A k \in 1..n : t[k] = s[k]
      /\ Len(V) = l + c
      /\ \A i \in 1..l : V[i] = W[i]
      /\ \A j \in 1..c : V[l + j] = P[j]
  BY Counts
<1>2. /\ first \in [1..n + 1 -> 1..l + 1] /\ first[n + 1] = l + 1
      /\ \A k \in 1..n : first[k + 1] = first[k] + Count(s[k])
      /\ \A k \in 1..n : \A i \in first[k]..first[k + 1] - 1 : W[i] = Due(s, k, i - first[k] + 1, i)
      /\ \A i \in 1..l : \E k \in 1..n : i \in first[k]..first[k + 1] - 1
  BY DEF Laid
<1>3. \A k \in 1..n : \A j, i : Due(t, k, j, i) = Due(s, k, j, i)
  BY DueSame
<1>4. \A j \in 1..c : P[j] = Due(t, n + 1, j, l + j)
  OBVIOUS
<1> HIDE DEF t, V, n, l, c
<1>5. /\ f \in [1..n + 2 -> 1..(l + c) + 1]
      /\ f[n + 2] = l + c + 1 /\ \A k \in 1..n + 1 : f[k] = first[k] /\ first[k] \in 1..l + 1
  BY <1>1, <1>2
<1> HIDE DEF f
<1>6. \A k \in 1..n + 1 : f[k + 1] = f[k] + Count(t[k])
  <2> TAKE k \in 1..n + 1
  <2>1. CASE k = n + 1
    <3>1. k + 1 = n + 2 /\ f[k] = l + 1 /\ Count(t[k]) = c
      BY <1>1, <1>2, <1>5, <2>1 DEF c
    <3> QED BY <1>1, <1>5, <3>1
  <2>2. CASE k \in 1..n
    <3>1. k + 1 \in 1..n + 1
      BY <1>1, <2>2
    <3> QED BY <1>1, <1>2, <1>5, <2>2, <3>1
  <2> QED BY <1>1, <2>1, <2>2
<1>7. \A k \in 1..n + 1 : \A i \in f[k]..f[k + 1] - 1 : V[i] = Due(t, k, i - f[k] + 1, i)
  <2> TAKE k \in 1..n + 1
  <2> TAKE i \in f[k]..f[k + 1] - 1
  <2>1. CASE k = n + 1
    <3>1. f[k] = l + 1 /\ f[k + 1] = l + c + 1
      BY <1>1, <1>2, <1>5, <2>1
    <3>i. i \in l + 1..(l + c + 1) - 1
      BY <3>1
    <3> DEFINE j == i - l
    <3>j. j \in 1..c /\ l + j = i /\ i - (l + 1) + 1 = j
      BY <1>1, <3>i
    <3>2. j \in 1..c /\ l + j = i /\ i - f[k] + 1 = j
      BY <3>1, <3>j
    <3> HIDE DEF j
    <3> QED BY <1>1, <1>4, <2>1, <3>2
  <2>2. CASE k \in 1..n
    <3>1. k + 1 \in 1..n + 1
      BY <1>1, <2>2
    <3>2. f[k] = first[k] /\ f[k + 1] = first[k + 1] /\ first[k] \in 1..l + 1 /\ first[k + 1] \in 1..l + 1
      BY <1>5, <2>2, <3>1
    <3>i. i \in first[k]..first[k + 1] - 1
      BY <3>2
    <3> DEFINE a == first[k]
               b == first[k + 1]
    <3>3. i \in 1..l /\ i \in first[k]..first[k + 1] - 1
      <4>1. a \in 1..l + 1 /\ b \in 1..l + 1 /\ i \in a..b - 1
        BY <3>2, <3>i
      <4> HIDE DEF a, b
      <4>2. i \in 1..l
        BY <1>1, <4>1
      <4> QED BY <3>i, <4>2
    <3> QED BY <1>1, <1>2, <1>3, <2>2, <3>2, <3>3
  <2> QED BY <1>1, <2>1, <2>2
<1>8. \A i \in 1..l + c : \E k \in 1..n + 1 : i \in f[k]..f[k + 1] - 1
  <2> TAKE i \in 1..l + c
  <2>1. CASE i \in 1..l
    <3>1. PICK k \in 1..n : i \in first[k]..first[k + 1] - 1
      BY <1>2, <2>1
    <3>2. k \in 1..n + 1 /\ k + 1 \in 1..n + 1
      BY <1>1
    <3>3. f[k] = first[k] /\ f[k + 1] = first[k + 1]
      BY <1>5, <3>2
    <3> QED BY <3>1, <3>2, <3>3
  <2>2. CASE i \in l + 1..l + c
    <3>1. n + 1 \in 1..n + 1 /\ (n + 1) + 1 = n + 2
      BY <1>1
    <3>2. f[n + 1] = l + 1 /\ f[(n + 1) + 1] = l + c + 1
      BY <1>2, <1>5, <3>1
    <3>3. i \in f[n + 1]..f[(n + 1) + 1] - 1
      BY <1>1, <2>2, <3>2
    <3> QED BY <3>1, <3>3
  <2> QED BY <1>1, <2>1, <2>2
<1>9. Len(t) + 1 = n + 2 /\ Len(V) + 1 = (l + c) + 1 /\ l + c + 1 = (l + c) + 1
  BY <1>1
<1>10. Laid(t, V, f)
  BY <1>1, <1>5, <1>6, <1>7, <1>8, <1>9 DEF Laid
<1> QED BY <1>10 DEF t, V

-----------------------------------------------------------------------------
(* What holds of every packet *)

AnyPacket == [message_number : Nat, rel : Range(RelNames), ord : Nat,
              split_packet_info : Parts, data : DataType]

\* The longest data of a packet.
Room(rel, split) ==
  IF HasOrd(rel) THEN IF split = <<>> THEN 1190 ELSE 1178
                 ELSE IF split = <<>> THEN 1195 ELSE 1183

\* A packet of one of the first n messages.
Fine(p, n) ==
  /\ Sendable(p)
  /\ p.message_number \in 0..IndexMod - 1 /\ p.ord \in 0..IndexMod - 1
  /\ p.data.msg \in 1..n
  /\ p.data.len <= Room(p.rel, p.split_packet_info)

\* The parts of a message that is not too long.
LEMMA PieceFine ==
  ASSUME NEW m \in AnyMessage, Count(m) < 256, NEW j \in 1..Count(m),
         NEW n \in Nat, NEW k \in 1..n,
         NEW num \in 0..IndexMod - 1, NEW ord \in 0..IndexMod - 1, ~HasOrd(m.rel) => ord = 0,
         NEW id \in Nat
  PROVE  Piece(m, k, j, num, ord, id) \in AnyPacket /\ Fine(Piece(m, k, j, num, ord, id), n)
<1> DEFINE p == Piece(m, k, j, num, ord, id)
           l == PartLen(m, j)
           c == Count(m)
           h == HeaderLen(m.rel, NeedsSplit(m))
           info == [id |-> id, index |-> j - 1, count |-> c]
           split == IF NeedsSplit(m) THEN <<info>> ELSE <<>>
           data == [msg |-> k, from |-> From(m, j), len |-> l]
<1>1. c \in Nat /\ c >= 1 /\ c < 256
  BY Counts
<1>2. From(m, j) \in Nat /\ l \in Nat /\ l + h <= MAX_PACKET_SIZE
  BY Slices
<1>3. data \in DataType /\ data.len = l /\ data.msg = k
  <2> HIDE DEF l
  <2> QED BY <1>2 DEF DataType
<1>4. info \in Infos
  <2>1. j - 1 \in Nat /\ j - 1 < 256
    BY <1>1
  <2>2. info \in [id : Nat, index : Nat, count : Nat] /\ info.index = j - 1 /\ info.count = c
    <3> HIDE DEF c
    <3> QED BY <1>1, <2>1
  <2> HIDE DEF info, c
  <2> QED BY <1>1, <2>1, <2>2 DEF Infos
<1>5. split \in Parts /\ (split = <<>> <=> ~NeedsSplit(m))
  <2> HIDE DEF info
  <2> QED BY <1>4 DEF Parts
<1>6. m.rel \in Range(RelNames)
  BY DEF AnyMessage
<1>7. num \in Nat /\ ord \in Nat
  BY IndexModAssumption
<1>8. p = [message_number |-> num, rel |-> m.rel, ord |-> ord, split_packet_info |-> split, data |-> data]
  BY DEF Piece
<1>9. l <= Room(m.rel, split) /\ 8 * l < U16
  <2>1. MAX_PACKET_SIZE = 1200
    BY HeaderLengths
  <2>2. /\ HasOrd(m.rel) => h = IF NeedsSplit(m) THEN 22 ELSE 10
        /\ ~HasOrd(m.rel) => h = IF NeedsSplit(m) THEN 17 ELSE 5
    BY HeaderFits
  <2> HIDE DEF l, h, split
  <2>3. l <= Room(m.rel, split) /\ l <= 1200
    BY <1>2, <1>5, <2>1, <2>2, SMT DEF Room
  <2> QED BY <1>2, <2>3, SMT DEF U16
<1> HIDE DEF p, split, data, l
<1>10. p \in AnyPacket
  BY <1>3, <1>5, <1>6, <1>7, <1>8 DEF AnyPacket
<1>11. Sendable(p)
  BY <1>3, <1>8, <1>9, <1>10 DEF Sendable, AnyPacket
<1>12. Fine(p, n)
  BY <1>3, <1>8, <1>9, <1>11 DEF Fine
<1> QED BY <1>10, <1>12 DEF p

LEMMA FineMore ==
  ASSUME NEW p, NEW n \in Nat, Fine(p, n)
  PROVE  Fine(p, n + 1)
BY DEF Fine

\* The values of the counters.
CountersOK ==
  /\ message_number \in 0..IndexMod - 1 /\ split_packet_index \in 0..SplitMod - 1
  /\ unrel_seq_index \in 0..IndexMod - 1 /\ rel_ord_index \in 0..IndexMod - 1

\* The index that a message gets.
LEMMA OrdValue ==
  ASSUME CountersOK, NEW rel
  PROVE  /\ Ord(rel) \in 0..IndexMod - 1 /\ (~HasOrd(rel) => Ord(rel) = 0)
         /\ rel = "UnreliableSequenced" => Ord(rel) = unrel_seq_index
         /\ rel = "ReliableOrdered" => Ord(rel) = rel_ord_index
BY IndexModAssumption DEF Ord, HasOrd, CountersOK

\* All packets of a message.
LEMMA PacketsFine ==
  ASSUME CountersOK, NEW m \in AnyMessage, Count(m) < 256, script \in Seq(AnyMessage)
  PROVE  /\ Packets(m) \in Seq(AnyPacket) /\ Len(Packets(m)) = Count(m)
         /\ \A j \in 1..Count(m) :
              /\ Packets(m)[j] = Piece(m, Len(script) + 1, j, Wrap(message_number + j - 1),
                                       Ord(m.rel), split_packet_index)
              /\ Fine(Packets(m)[j], Len(script) + 1)
<1> DEFINE n == Len(script) + 1
           c == Count(m)
           E(j) == Piece(m, n, j, Wrap(message_number + j - 1), Ord(m.rel), split_packet_index)
<1>1. n \in Nat /\ n \in 1..n /\ c \in Nat
  BY Counts
<1>2. Packets(m) = [j \in 1..c |-> E(j)]
  BY DEF Packets, Data, Piece, From, PartLen
<1>3. ASSUME NEW j \in 1..c PROVE E(j) \in AnyPacket /\ Fine(E(j), n)
  <2>1. message_number + j - 1 \in Int
    BY IndexModAssumption DEF CountersOK
  <2>2. Wrap(message_number + j - 1) \in 0..IndexMod - 1
    BY <2>1, WrapAdd
  <2>3. Ord(m.rel) \in 0..IndexMod - 1 /\ (~HasOrd(m.rel) => Ord(m.rel) = 0)
    BY OrdValue
  <2>4. split_packet_index \in Nat
    BY SplitModAssumption DEF CountersOK
  <2> HIDE DEF n
  <2> QED BY <1>1, <2>2, <2>3, <2>4, PieceFine
<1> HIDE DEF E
<1>4. /\ Packets(m) \in Seq(AnyPacket) /\ Len(Packets(m)) = c
      /\ \A j \in 1..c : Packets(m)[j] = E(j)
  <2> HIDE DEF c
  <2> QED BY <1>1, <1>2, <1>3
<1> QED BY <1>3, <1>4 DEF E

-----------------------------------------------------------------------------
(* Types *)

\* No message is cut into more parts than the reader can count (comp.rs:77).
SmallMessages == \A m \in Messages : Count(m) < 256

\* The acknowledgements fit the u16 that counts them (rangelist.rs).
FewAcks == Len(acks) < U16

PacketsOK(W, n) == W \in Seq(AnyPacket) /\ \A i \in 1..Len(W) : Fine(W[i], n)

TypeInv ==
  /\ CountersOK
  /\ acks \in Seq(List!RangeType) /\ List!SortedList(acks)
  /\ remote_system_time \in Nat /\ sending \in BOOLEAN
  /\ status \in {"up", "failed", "dropping", "dropped"}
  /\ script \in Seq(Messages \cup {Goodbye})
  /\ inserted \subseteq Numbers /\ acked \subseteq Nat
  /\ PacketsOK(read, Len(script)) /\ PacketsOK(rak_packets, Len(script))

\* The messages that are sent.
LEMMA MessageType ==
  /\ Goodbye \in AnyMessage /\ Count(Goodbye) = 1
  /\ Messages \cup {Goodbye} \subseteq AnyMessage
  /\ Seq(Messages \cup {Goodbye}) \subseteq Seq(AnyMessage)
<1>1. "Unreliable" \in Range(RelNames)
  BY SMT DEF Range, RelNames
<1>2. Goodbye \in AnyMessage /\ Goodbye.len = 1
  BY <1>1 DEF Goodbye, AnyMessage
<1>3. ~NeedsSplit(Goodbye)
  BY <1>2, ChunkSizes, SMT
<1>4. Messages \cup {Goodbye} \subseteq AnyMessage
  BY <1>2, MessagesAssumption DEF AnyMessage
<1>5. \A s \in Seq(Messages \cup {Goodbye}) : s \in Seq(AnyMessage)
  <2> DEFINE S == Messages \cup {Goodbye}
  <2> HIDE DEF S
  <2>1. S \subseteq AnyMessage
    BY <1>4 DEF S
  <2>2. \A s \in Seq(S) : s \in Seq(AnyMessage)
    BY <2>1
  <2> QED BY <2>2 DEF S
<1> QED BY <1>2, <1>3, <1>4, <1>5, Counts

LEMMA PacketsMore ==
  ASSUME NEW W, NEW n \in Nat, PacketsOK(W, n)
  PROVE  PacketsOK(W, n + 1)
BY FineMore DEF PacketsOK

LEMMA PacketsConcat ==
  ASSUME NEW V, NEW W, NEW n \in Nat, PacketsOK(V, n), PacketsOK(W, n)
  PROVE  PacketsOK(V \o W, n) /\ Len(V \o W) = Len(V) + Len(W)
<1> DEFINE U == V \o W
           a == Len(V)
           b == Len(W)
<1>1. /\ U \in Seq(AnyPacket) /\ a \in Nat /\ b \in Nat /\ Len(U) = a + b
      /\ \A i \in 1..a : U[i] = V[i]
      /\ \A i \in 1..a + b : i > a => i - a \in 1..b /\ U[i] = W[i - a]
  BY DEF PacketsOK
<1>2. ASSUME NEW i \in 1..a + b PROVE Fine(U[i], n)
  <2> HIDE DEF U, a, b
  <2>1. CASE i \in 1..a
    BY <1>1, <2>1 DEF PacketsOK, a
  <2>2. CASE i > a
    BY <1>1, <2>2 DEF PacketsOK, b
  <2> QED BY <1>1, <2>1, <2>2
<1> QED BY <1>1, <1>2 DEF PacketsOK

\* Processing a message keeps the types.
LEMMA ProcessType ==
  ASSUME SmallMessages, TypeInv, NEW m \in Messages \cup {Goodbye}, Process(m),
         status' \in {"up", "failed", "dropping", "dropped"}
  PROVE  TypeInv'
<1>1. m \in AnyMessage /\ Count(m) < 256 /\ Count(m) \in Nat
  BY MessageType, Counts DEF SmallMessages
<1>2. CountersOK /\ script \in Seq(AnyMessage) /\ Len(script) \in Nat
  BY MessageType DEF TypeInv
<1>3. CountersOK'
  <2>1. message_number + Count(m) \in Int /\ unrel_seq_index + 1 \in Int /\ rel_ord_index + 1 \in Int
    BY <1>1, <1>2, IndexModAssumption DEF CountersOK
  <2>2. split_packet_index + 1 \in Int
    BY <1>2, SplitModAssumption DEF CountersOK
  <2>3. (split_packet_index + 1) % SplitMod \in 0..SplitMod - 1
    BY <2>2, SplitModAssumption, ModDivision
  <2>4. /\ Wrap(message_number + Count(m)) \in 0..IndexMod - 1
        /\ Wrap(unrel_seq_index + 1) \in 0..IndexMod - 1
        /\ Wrap(rel_ord_index + 1) \in 0..IndexMod - 1
    BY <2>1, WrapAdd
  <2> QED BY <1>2, <2>3, <2>4 DEF Process, CountersOK
<1>4. script' = Append(script, m) /\ rak_packets' = rak_packets \o Packets(m)
  BY DEF Process
<1>5. script' \in Seq(Messages \cup {Goodbye}) /\ Len(script') = Len(script) + 1
  <2> DEFINE S == Messages \cup {Goodbye}
  <2>1. script \in Seq(S) /\ m \in S
    BY DEF TypeInv
  <2> HIDE DEF S
  <2>2. script' \in Seq(S) /\ Len(script') = Len(script) + 1
    BY <1>4, <2>1
  <2> QED BY <2>2 DEF S
<1>6. PacketsOK(Packets(m), Len(script) + 1)
  BY <1>1, <1>2, PacketsFine DEF PacketsOK
<1>7. PacketsOK(read, Len(script) + 1) /\ PacketsOK(rak_packets, Len(script) + 1)
  BY <1>2, PacketsMore DEF TypeInv
<1>8. PacketsOK(rak_packets \o Packets(m), Len(script) + 1)
  BY <1>2, <1>6, <1>7, PacketsConcat
<1>9. UNCHANGED <<acks, remote_system_time, sending, datagram, read, inserted, acked>>
  BY DEF Process
<1> QED BY <1>3, <1>4, <1>5, <1>7, <1>8, <1>9 DEF TypeInv

-----------------------------------------------------------------------------
(* What a datagram is for its reader *)

\* The numbers to acknowledge, as the reader takes them.
LEMMA RangesAreAny ==
  Seq(List!RangeType) \subseteq Seq(AnyRange)
<1>1. List!RangeType \subseteq AnyRange
  BY MaxItemAssumption DEF List!RangeType, List!Item, AnyRange
<1> HIDE DEF List!RangeType
<1> QED BY <1>1

\* The bits of the acknowledgements in front of a packet.
LEMMA AckBits ==
  ASSUME NEW rs \in Seq(AnyRange), NEW time \in Nat
  PROVE  /\ AckFields(rs, time) \in Seq(Numeric) /\ Bits(AckFields(rs, time)) \in Nat
         /\ AckFields(rs, time) \o <<Bit(FALSE)>> \in Seq(Numeric)
         /\ Bits(AckFields(rs, time) \o <<Bit(FALSE)>>) = Bits(AckFields(rs, time)) + 1
<1> DEFINE x == AckFields(rs, time)
           b == Bit(FALSE)
<1>1. x \in Seq(Numeric) /\ b \in Numeric /\ b.w = 1
  BY AcksType, FieldType DEF Bit, Field
<1> HIDE DEF x, b
<1>2. <<b>> \in Seq(Numeric) /\ Bits(<<b>>) = 1
  <2>1. <<b>> \in Seq(Numeric)
    BY <1>1
  <2>2. Bits(<<b>>) = b.w
    BY <1>1, TupleBits
  <2> QED BY <1>1, <2>1, <2>2
<1> DEFINE y == <<b>>
<1> HIDE DEF y
<1>3. x \o y \in Seq(Numeric) /\ Bits(x \o y) = Bits(x) + Bits(y) /\ Bits(x) \in Nat
  BY <1>1, <1>2, ConcatProperties, NumericBits DEF y
<1> QED BY <1>1, <1>2, <1>3 DEF x, b, y

\* The size of a datagram with a packet, against that of its acknowledgements.
LEMMA DatagramSize ==
  ASSUME NEW rs \in Seq(AnyRange), Len(rs) < U16, NEW time \in Nat, NEW p, NEW n, Fine(p, n),
         NEW w, w = WritePacket(AckFields(rs, time) \o <<Bit(FALSE)>>, p)
  PROVE  LET extra == IF p.split_packet_info = <<>> THEN 2 ELSE 0
             ackBits == Bits(SubSeq(w, 1, ReadAcks(w).at - 1)) - 1
         IN  Bits(w) <= 8 * (MAX_PACKET_SIZE + extra) + ackBits + 7
<1> DEFINE x == AckFields(rs, time)
           b == <<Bit(FALSE)>>
           x0 == x \o b
           R == IF HasOrd(p.rel) THEN 40 ELSE 3
           P == IF p.split_packet_info = <<>> THEN 0 ELSE 40
           k == Bits(x)
           k0 == Bits(x0)
           t == Bits(w)
           l == p.data.len
           extra == IF p.split_packet_info = <<>> THEN 2 ELSE 0
<1>1. x \in Seq(Numeric) /\ x0 \in Seq(Numeric) /\ k \in Nat /\ k0 = k + 1
  BY AckBits
<1>2. Sendable(p) /\ l \in Nat /\ l <= Room(p.rel, p.split_packet_info)
  BY DEF Fine, Sendable, DataType
<1>3. /\ t <= k0 + 32 + R + 1 + P + 17 + 7 + 8 * l /\ t \in Nat
      /\ \E S : w \in Seq(S) /\ Numeric \subseteq S
  BY <1>1, <1>2, DatagramBits
<1>4. ReadAcks(w).at = 1 + Len(x)
  BY <1>2, DatagramRead
<1>5. Has(w, 1, x)
  <2>1. Has(w, 1, x0)
    BY <1>1, <1>2, HasPacket
  <2>2. b \in Seq(Numeric)
    <3> DEFINE f == Bit(FALSE)
    <3>1. f \in Numeric
      BY FieldType
    <3> HIDE DEF f
    <3>2. <<f>> \in Seq(Numeric)
      BY <3>1
    <3> QED BY <3>2 DEF f
  <2> HIDE DEF x, b
  <2> QED BY <1>1, <2>1, <2>2, HasConcat
<1>6. SubSeq(w, 1, ReadAcks(w).at - 1) = x
  <2>1. PICK S : w \in Seq(S) /\ Numeric \subseteq S
    BY <1>3
  <2> HIDE DEF x
  <2>2. x \in Seq(S)
    BY <1>1, <2>1
  <2>3. ReadAcks(w).at - 1 = Len(x)
    BY <1>1, <1>4
  <2>4. SubSeq(w, 1, Len(x)) = x
    BY <1>5, <2>1, <2>2, HasPrefix
  <2> QED BY <2>3, <2>4
<1>7. MAX_PACKET_SIZE = 1200
  BY HeaderLengths
<1> DEFINE o == HasOrd(p.rel)
           u == p.split_packet_info = <<>>
<1>8. /\ R = IF o THEN 40 ELSE 3
      /\ P = IF u THEN 0 ELSE 40
      /\ extra = IF u THEN 2 ELSE 0
      /\ l <= IF o THEN IF u THEN 1190 ELSE 1178 ELSE IF u THEN 1195 ELSE 1183
  BY <1>2 DEF Room
<1> HIDE DEF x, x0, b, R, P, k, k0, t, l, extra, o, u
<1>9. t <= 8 * (MAX_PACKET_SIZE + extra) + (k - 1) + 7
  BY <1>1, <1>2, <1>3, <1>7, <1>8, SMT
<1> DEFINE q == Bits(SubSeq(w, 1, ReadAcks(w).at - 1))
<1>q. q = k
  BY <1>6 DEF k
<1> HIDE DEF q
<1>10. t <= 8 * (MAX_PACKET_SIZE + extra) + (q - 1) + 7
  BY <1>9, <1>q
<1> QED BY <1>10 DEF t, extra, q

\* A packet is sent: its reader gets it and the acknowledgements.
LEMMA PacketSent ==
  ASSUME TypeInv, FewAcks, SendPacket
  PROVE  /\ acked' = acked \cup List!Items(acks) /\ acks' = <<>>
         /\ read' = Append(read, Head(rak_packets)) /\ rak_packets' = Tail(rak_packets)
         /\ rak_packets # <<>> /\ Fine(Head(rak_packets), Len(script))
         /\ Sized'
<1> DEFINE p == Head(rak_packets)
           w == WritePacket(AckFields(acks, remote_system_time) \o <<Bit(FALSE)>>, p)
<1>1. /\ rak_packets # <<>> /\ datagram' = w /\ acks' = <<>> /\ Acknowledge(datagram')
      /\ read' = Append(read, ReadDatagram(datagram')) /\ rak_packets' = Tail(rak_packets)
  BY DEF SendPacket
<1>2. Fine(p, Len(script))
  <2>1. rak_packets \in Seq(AnyPacket) /\ \A i \in 1..Len(rak_packets) : Fine(rak_packets[i], Len(script))
    BY DEF TypeInv, PacketsOK
  <2>2. 1 \in 1..Len(rak_packets) /\ p = rak_packets[1]
    BY <1>1, <2>1
  <2> QED BY <2>1, <2>2
<1>3. acks \in Seq(AnyRange) /\ remote_system_time \in Nat /\ Len(acks) < U16
  BY RangesAreAny DEF TypeInv, FewAcks
<1>4. Sendable(p)
  BY <1>2 DEF Fine
<1>5. ReadAcks(w).ranges = acks /\ ReadDatagram(w) = p
  <2>1. Gives(w, acks, p)
    <3> HIDE DEF p
    <3> QED BY <1>3, <1>4, DatagramRead
  <2> QED BY <2>1 DEF Gives
<1>6. acked' = acked \cup List!Items(acks)
  BY <1>1, <1>5 DEF Acknowledge
<1>7. read' = Append(read, p)
  BY <1>1, <1>5
<1>8. Last(read') = p
  <2>1. read \in Seq(AnyPacket)
    BY DEF TypeInv, PacketsOK
  <2>2. p \in AnyPacket
    BY <1>4 DEF Sendable, AnyPacket
  <2> HIDE DEF p
  <2>3. Len(read') = Len(read) + 1 /\ read'[Len(read) + 1] = p /\ Len(read) \in Nat
    BY <1>7, <2>1, <2>2
  <2> QED BY <2>3 DEF Last
<1>9. Sized'
  <2> DEFINE extra == IF p.split_packet_info = <<>> THEN 2 ELSE 0
             ackBits == Bits(SubSeq(w, 1, ReadAcks(w).at - 1)) - 1
  <2>1. Bits(w) <= 8 * (MAX_PACKET_SIZE + extra) + ackBits + 7
    <3> HIDE DEF p
    <3> QED BY <1>2, <1>3, DatagramSize
  <2> QED BY <1>1, <1>8, <2>1 DEF Sized
<1> QED BY <1>1, <1>2, <1>6, <1>7, <1>9

\* Acknowledgements go alone.
LEMMA AcksSent ==
  ASSUME TypeInv, FewAcks, SendAcks
  PROVE  acked' = acked \cup List!Items(acks) /\ acks' = <<>> /\ Sized'
<1> DEFINE x == AckFields(acks, remote_system_time)
           w == Align(x)
<1>1. datagram' = w /\ acks' = <<>> /\ Acknowledge(datagram')
  BY DEF SendAcks
<1>2. acks \in Seq(AnyRange) /\ remote_system_time \in Nat /\ Len(acks) < U16
  BY RangesAreAny DEF TypeInv, FewAcks
<1>3. Tells(w, acks) /\ ReadAcks(w).at = 1 + Len(x)
  BY <1>2, AcksRead
<1>4. acked' = acked \cup List!Items(acks)
  BY <1>1, <1>3 DEF Acknowledge, Tells
<1>5. x \in Seq(Numeric) /\ Bits(x) \in Nat
  BY <1>2, AckBits
<1>6. w \in Seq(Numeric) /\ Bits(w) \in Nat /\ Bits(w) <= Bits(x) + 7 /\ Has(w, 1, x)
  BY <1>5, AlignBits, AlignHas
<1> HIDE DEF x, w
<1>7. SubSeq(w, 1, ReadAcks(w).at - 1) = x
  <2>1. ReadAcks(w).at - 1 = Len(x)
    BY <1>3, <1>5
  <2>2. SubSeq(w, 1, Len(x)) = x
    BY <1>5, <1>6, HasPrefix
  <2> QED BY <2>1, <2>2
<1>8. ASSUME NEW extra \in {0, 2}
      PROVE  Bits(w) <= 8 * (MAX_PACKET_SIZE + extra) + (Bits(SubSeq(w, 1, ReadAcks(w).at - 1)) - 1) + 7
  <2> DEFINE k == Bits(x)
             t == Bits(w)
  <2>1. k \in Nat /\ t \in Nat /\ t <= k + 7
    BY <1>5, <1>6
  <2> HIDE DEF k, t
  <2>2. MAX_PACKET_SIZE = 1200
    BY HeaderLengths
  <2>3. t <= 8 * (MAX_PACKET_SIZE + extra) + (k - 1) + 7
    BY <2>1, <2>2, SMT
  <2> DEFINE q == Bits(SubSeq(w, 1, ReadAcks(w).at - 1))
  <2>4. q = k
    BY <1>7 DEF k
  <2> HIDE DEF q
  <2>5. t <= 8 * (MAX_PACKET_SIZE + extra) + (q - 1) + 7
    BY <2>3, <2>4
  <2> QED BY <2>5 DEF t, q
<1>9. Sized'
  <2> DEFINE extra == IF Last(read').split_packet_info = <<>> THEN 2 ELSE 0
  <2>1. extra \in {0, 2}
    OBVIOUS
  <2>2. Bits(w) <= 8 * (MAX_PACKET_SIZE + extra) + (Bits(SubSeq(w, 1, ReadAcks(w).at - 1)) - 1) + 7
    <3> HIDE DEF extra
    <3> QED BY <1>8, <2>1
  <2> QED BY <1>1, <2>2 DEF Sized
<1> QED BY <1>1, <1>4, <1>9

\* A new number goes into the list.
LEMMA Inserted ==
  ASSUME NEW rs \in Seq(List!RangeType), List!SortedList(rs), NEW n \in Numbers,
         n \notin List!Items(rs), NEW i \in 1..Len(rs) + 1, List!StopsAt(rs, n, i)
  PROVE  LET t == List!InsertedAt(rs, n, i) IN
         t \in Seq(List!RangeType) /\ List!SortedList(t) /\ List!Items(t) = List!Items(rs) \cup {n}
<1>1. /\ LP!RangeType = List!RangeType /\ LP!Item = List!Item
      /\ \A r : LP!Items(r) = List!Items(r) /\ (LP!SortedList(r) <=> List!SortedList(r))
  BY DEF LP!RangeType, List!RangeType, LP!Item, List!Item, LP!Items, List!Items,
         LP!SortedList, List!SortedList
<1>2. LP!StopsAt(rs, n, i) <=> List!StopsAt(rs, n, i)
  BY DEF LP!StopsAt, List!StopsAt, LP!Stops, List!Stops
<1>3. LP!InsertedAt(rs, n, i) = List!InsertedAt(rs, n, i)
  BY DEF LP!InsertedAt, List!InsertedAt, LP!Single, List!Single, LP!Extend, List!Extend
<1>4. n \in LP!Item
  BY NumbersAssumption DEF LP!Item
<1>5. U16 \in Nat \ {0}
  BY SMT DEF U16
<1> DEFINE t == LP!InsertedAt(rs, n, i)
<1>6. t \in Seq(LP!RangeType) /\ LP!Items(t) \subseteq LP!Items(rs) \cup {n}
  BY <1>1, <1>2, <1>4, <1>5, MaxItemAssumption, LP!InsertedSound
<1>7. LP!SortedList(t) /\ LP!Items(rs) \cup {n} \subseteq LP!Items(t)
  BY <1>1, <1>2, <1>4, <1>5, MaxItemAssumption, LP!InsertedFresh
<1> QED BY <1>1, <1>3, <1>6, <1>7

-----------------------------------------------------------------------------
(* The steps *)

\* The list without ranges.
LEMMA EmptyList ==
  <<>> \in Seq(List!RangeType) /\ List!SortedList(<<>>) /\ List!Items(<<>>) = {}
BY DEF List!SortedList, List!Items

LEMMA ItemsType ==
  ASSUME NEW rs
  PROVE  List!Items(rs) \subseteq Nat
BY MaxItemAssumption DEF List!Items, List!Item

\* Taking the first packet off.
LEMMA PacketsTaken ==
  ASSUME NEW V, NEW W, NEW n, PacketsOK(V, n), PacketsOK(W, n), W # <<>>
  PROVE  /\ PacketsOK(Append(V, Head(W)), n) /\ PacketsOK(Tail(W), n)
         /\ Append(V, Head(W)) \o Tail(W) = V \o W
<1> DEFINE h == Head(W)
           T == Tail(W)
           A == Append(V, h)
<1>1. V \in Seq(AnyPacket) /\ W \in Seq(AnyPacket) /\ Len(V) \in Nat /\ Len(W) \in Nat
  BY DEF PacketsOK
<1>2. /\ h \in AnyPacket /\ h = W[1] /\ 1 \in 1..Len(W)
      /\ T \in Seq(AnyPacket) /\ Len(T) = Len(W) - 1 /\ \A i \in 1..Len(W) - 1 : T[i] = W[i + 1]
  BY <1>1
<1>3. Fine(h, n)
  BY <1>2 DEF PacketsOK
<1> HIDE DEF h, T
<1>4. /\ A \in Seq(AnyPacket) /\ Len(A) = Len(V) + 1 /\ A[Len(V) + 1] = h
      /\ \A i \in 1..Len(V) : A[i] = V[i]
  BY <1>1, <1>2
<1> HIDE DEF A
<1>5. PacketsOK(A, n)
  <2>1. ASSUME NEW i \in 1..Len(A) PROVE Fine(A[i], n)
    <3>1. i \in 1..Len(V) \/ i = Len(V) + 1
      BY <1>1, <1>4
    <3> QED BY <1>3, <1>4, <3>1 DEF PacketsOK
  <2> QED BY <1>4, <2>1 DEF PacketsOK
<1>6. PacketsOK(T, n)
  <2>1. ASSUME NEW i \in 1..Len(T) PROVE Fine(T[i], n)
    <3>1. i \in 1..Len(W) - 1 /\ i + 1 \in 1..Len(W)
      BY <1>1, <1>2
    <3> QED BY <1>2, <3>1 DEF PacketsOK
  <2> QED BY <1>2, <2>1 DEF PacketsOK
<1>7. A \o T = V \o W
  <2> DEFINE x == A \o T
             y == V \o W
  <2>1. /\ x \in Seq(AnyPacket) /\ y \in Seq(AnyPacket)
        /\ Len(x) = Len(A) + Len(T) /\ Len(y) = Len(V) + Len(W)
        /\ \A i \in 1..Len(A) + Len(T) : x[i] = IF i <= Len(A) THEN A[i] ELSE T[i - Len(A)]
        /\ \A i \in 1..Len(V) + Len(W) : y[i] = IF i <= Len(V) THEN V[i] ELSE W[i - Len(V)]
    BY <1>1, <1>2, <1>4, ConcatProperties
  <2> HIDE DEF x, y
  <2>2. Len(x) = Len(y)
    BY <1>1, <1>2, <1>4, <2>1
  <2>3. ASSUME NEW i \in 1..Len(x) PROVE x[i] = y[i]
    <3>1. i \in 1..Len(V) + Len(W) /\ i \in 1..Len(A) + Len(T)
      BY <2>1, <2>2
    <3>2. CASE i <= Len(V)
      BY <1>1, <1>4, <2>1, <3>1, <3>2
    <3>3. CASE i = Len(V) + 1
      <4>1. i <= Len(A) /\ ~(i <= Len(V)) /\ i - Len(V) = 1
        BY <1>1, <1>4, <3>3
      <4>2. x[i] = A[i] /\ y[i] = W[1]
        BY <2>1, <3>1, <4>1
      <4> QED BY <1>2, <1>4, <3>3, <4>2
    <3>4. CASE i > Len(V) + 1
      <4> DEFINE j == i - Len(A)
      <4>1. ~(i <= Len(A)) /\ ~(i <= Len(V)) /\ j \in 1..Len(W) - 1 /\ i - Len(V) = j + 1
        BY <1>1, <1>2, <1>4, <3>1, <3>4
      <4> HIDE DEF j
      <4>2. x[i] = T[j] /\ y[i] = W[j + 1]
        BY <2>1, <3>1, <4>1 DEF j
      <4> QED BY <1>2, <4>1, <4>2
    <3> QED BY <1>1, <3>1, <3>2, <3>3, <3>4
  <2>4. x = y
    BY <2>1, <2>2, <2>3, SeqEqual
  <2> QED BY <2>4 DEF x, y
<1> QED BY <1>5, <1>6, <1>7 DEF A, h, T

\* A number to acknowledge comes in.
LEMMA DatagramHandled ==
  ASSUME TypeInv, AcksOnce, NEW n \in Numbers, NEW time, HandleDatagram(n, time)
  PROVE  /\ acks' \in Seq(List!RangeType) /\ List!SortedList(acks')
         /\ List!Items(acks') = List!Items(acks) \cup {n}
         /\ n \notin inserted /\ inserted' = inserted \cup {n}
<1>1. n \notin inserted /\ inserted' = inserted \cup {n}
  BY DEF HandleDatagram
<1>2. PICK i \in 1..Len(acks) + 1 :
        List!StopsAt(acks, n, i) /\ acks' = List!InsertedAt(acks, n, i)
  BY DEF HandleDatagram
<1>3. n \notin List!Items(acks)
  BY <1>1 DEF AcksOnce
<1>4. acks \in Seq(List!RangeType) /\ List!SortedList(acks)
  BY DEF TypeInv
<1> QED BY <1>1, <1>2, <1>3, <1>4, Inserted

\* The steps keep the types.
LEMMA StepType ==
  ASSUME SmallMessages, TypeInv, AcksOnce, FewAcks, [Next]_vars
  PROVE  TypeInv'
<1>p. Len(script) \in Nat /\ PacketsOK(<<>>, Len(script))
  BY DEF TypeInv, PacketsOK
<1>1. ASSUME NEW m \in Messages, ProcessOutgoing(m) PROVE TypeInv'
  <2>1. Process(m) /\ status' = status
    BY <1>1 DEF ProcessOutgoing
  <2>2. status' \in {"up", "failed", "dropping", "dropped"}
    BY <2>1 DEF TypeInv
  <2> QED BY <2>1, <2>2, ProcessType
<1>2. CASE SendPacket
  <2>1. /\ acked' = acked \cup List!Items(acks) /\ acks' = <<>>
        /\ read' = Append(read, Head(rak_packets)) /\ rak_packets' = Tail(rak_packets)
        /\ rak_packets # <<>>
    BY <1>2, PacketSent
  <2>2. PacketsOK(read', Len(script)) /\ PacketsOK(rak_packets', Len(script))
    BY <2>1, PacketsTaken DEF TypeInv
  <2>3. /\ sending' \in BOOLEAN /\ UNCHANGED <<counters, remote_system_time, script, inserted>>
        /\ status' = IF status = "dropping" THEN "dropped" ELSE status
    BY <1>2 DEF SendPacket
  <2>4. acked' \subseteq Nat
    BY <2>1, ItemsType DEF TypeInv
  <2> QED BY <2>1, <2>2, <2>3, <2>4, EmptyList DEF TypeInv, CountersOK, counters
<1>3. CASE SendAcks
  <2>1. acked' = acked \cup List!Items(acks) /\ acks' = <<>>
    BY <1>3, AcksSent
  <2>2. UNCHANGED <<counters, remote_system_time, rak_packets, sending, status, script, read, inserted>>
    BY <1>3 DEF SendAcks
  <2>3. acked' \subseteq Nat
    BY <2>1, ItemsType DEF TypeInv
  <2> QED BY <2>1, <2>2, <2>3, EmptyList DEF TypeInv, CountersOK, counters
<1>4. CASE SendFailed
  BY <1>p, <1>4, EmptyList DEF SendFailed, TypeInv, CountersOK, counters
<1>5. CASE Drop
  <2>1. Process(Goodbye) /\ status' = "dropping"
    BY <1>5 DEF Drop
  <2> QED BY <2>1, ProcessType
<1>6. ASSUME NEW n \in Numbers, NEW time \in {remote_system_time, 1}, HandleDatagram(n, time)
      PROVE  TypeInv'
  <2>1. acks' \in Seq(List!RangeType) /\ List!SortedList(acks') /\ inserted' = inserted \cup {n}
    BY <1>6, DatagramHandled
  <2>2. /\ remote_system_time' = time
        /\ UNCHANGED <<counters, rak_packets, sending, status, datagram, script, read, acked>>
    BY <1>6 DEF HandleDatagram
  <2> QED BY <2>1, <2>2 DEF TypeInv, CountersOK, counters
<1>7. CASE UNCHANGED vars
  BY <1>7 DEF vars, TypeInv, CountersOK, counters
<1> QED BY <1>1, <1>2, <1>3, <1>4, <1>5, <1>6, <1>7 DEF Next

\* The steps keep every acknowledgement.
LEMMA StepAcks ==
  ASSUME TypeInv, AcksOnce, FewAcks, [Next]_vars
  PROVE  AcksOnce'
<1>1. ASSUME NEW m, Process(m), status' = "up" => status = "up" PROVE AcksOnce'
  <2>1. UNCHANGED <<acks, inserted, acked>>
    BY <1>1 DEF Process
  <2> QED BY <1>1, <2>1 DEF AcksOnce
<1>2. CASE SendPacket
  <2>1. acked' = acked \cup List!Items(acks) /\ acks' = <<>>
    BY <1>2, PacketSent
  <2>2. inserted' = inserted /\ (status' = "up" => status = "up")
    BY <1>2 DEF SendPacket
  <2> QED BY <2>1, <2>2, EmptyList DEF AcksOnce
<1>3. CASE SendAcks
  <2>1. acked' = acked \cup List!Items(acks) /\ acks' = <<>>
    BY <1>3, AcksSent
  <2>2. inserted' = inserted /\ status' = status
    BY <1>3 DEF SendAcks
  <2> QED BY <2>1, <2>2, EmptyList DEF AcksOnce
<1>4. CASE SendFailed
  <2>1. acks' = <<>> /\ inserted' = inserted /\ acked' = acked /\ status' # "up"
    BY <1>4 DEF SendFailed
  <2> QED BY <2>1, EmptyList DEF AcksOnce
<1>5. CASE Drop
  BY <1>1, <1>5 DEF Drop
<1>6. ASSUME NEW n \in Numbers, NEW time \in {remote_system_time, 1}, HandleDatagram(n, time)
      PROVE  AcksOnce'
  <2>1. /\ List!Items(acks') = List!Items(acks) \cup {n}
        /\ n \notin inserted /\ inserted' = inserted \cup {n}
    BY <1>6, DatagramHandled
  <2>2. acked' = acked /\ status' = status
    BY <1>6 DEF HandleDatagram
  <2> QED BY <2>1, <2>2 DEF AcksOnce
<1>7. CASE UNCHANGED vars
  BY <1>7 DEF vars, AcksOnce
<1>8. ASSUME NEW m \in Messages, ProcessOutgoing(m) PROVE AcksOnce'
  BY <1>1, <1>8 DEF ProcessOutgoing
<1> QED BY <1>2, <1>3, <1>4, <1>5, <1>6, <1>7, <1>8 DEF Next

\* The steps keep to the size of a datagram.
LEMMA StepSized ==
  ASSUME TypeInv, FewAcks, Sized, [Next]_vars
  PROVE  Sized'
<1>1. ASSUME datagram' = datagram, read' = read PROVE Sized'
  BY <1>1 DEF Sized
<1>2. CASE SendPacket
  BY <1>2, PacketSent
<1>3. CASE SendAcks
  BY <1>3, AcksSent
<1>4. CASE SendFailed
  BY <1>1, <1>4 DEF SendFailed
<1>5. CASE Drop
  BY <1>1, <1>5 DEF Drop, Process
<1>6. ASSUME NEW n \in Numbers, NEW time \in {remote_system_time, 1}, HandleDatagram(n, time)
      PROVE  Sized'
  BY <1>1, <1>6 DEF HandleDatagram
<1>7. CASE UNCHANGED vars
  BY <1>1, <1>7 DEF vars
<1>8. ASSUME NEW m \in Messages, ProcessOutgoing(m) PROVE Sized'
  BY <1>1, <1>8 DEF ProcessOutgoing, Process
<1> QED BY <1>2, <1>3, <1>4, <1>5, <1>6, <1>7, <1>8 DEF Next

-----------------------------------------------------------------------------
(* Numbers and parts *)

\* While no datagram was lost to the socket, the packets are those of the
\* messages, one after the other, and the counters stand behind the last of them.
UpInv ==
  status = "up" =>
    LET n == Len(script) + 1 IN
    /\ message_number = Wrap(Len(Wire))
    /\ split_packet_index = Splits(script, n) % SplitMod
    /\ unrel_seq_index = Wrap(Rank(script, n, "UnreliableSequenced"))
    /\ rel_ord_index = Wrap(Rank(script, n, "ReliableOrdered"))
    /\ \E first : Laid(script, Wire, first)

LEMMA WireType ==
  ASSUME TypeInv
  PROVE  /\ script \in Seq(AnyMessage) /\ Len(script) \in Nat
         /\ PacketsOK(Wire, Len(script)) /\ Wire \in Seq(AnyPacket) /\ Len(Wire) \in Nat
<1>1. script \in Seq(AnyMessage) /\ Len(script) \in Nat
  BY MessageType DEF TypeInv
<1>2. PacketsOK(Wire, Len(script))
  BY <1>1, PacketsConcat DEF TypeInv, Wire
<1> QED BY <1>1, <1>2 DEF PacketsOK

\* The packets that a message becomes are the ones that are due.
LEMMA PacketsDue ==
  ASSUME SmallMessages, TypeInv, UpInv, status = "up", NEW m \in Messages,
         NEW j \in 1..Count(m)
  PROVE  Packets(m)[j] = Due(Append(script, m), Len(script) + 1, j, Len(Wire) + j)
<1> DEFINE t == Append(script, m)
           n == Len(script) + 1
           L == Len(Wire)
<1>1. script \in Seq(AnyMessage) /\ Len(script) \in Nat /\ L \in Nat
  BY WireType
<1>2. m \in AnyMessage /\ Count(m) < 256 /\ Count(m) \in Nat
  BY MessageType, Counts DEF SmallMessages
<1>3. CountersOK
  BY DEF TypeInv
<1>4. Packets(m)[j] = Piece(m, n, j, Wrap(message_number + j - 1), Ord(m.rel), split_packet_index)
  BY <1>1, <1>2, <1>3, PacketsFine
<1>5. t[n] = m
  BY <1>1, <1>2
<1>6. Wrap(message_number + j - 1) = Wrap((L + j) - 1)
  <2>1. message_number = Wrap(L)
    BY DEF UpInv
  <2> HIDE DEF L
  <2>2. Wrap(L) \in Int
    BY <1>1, WrapAdd, IndexModAssumption
  <2>3. j - 1 \in Int /\ Wrap(L) + j - 1 = Wrap(L) + (j - 1) /\ (L + j) - 1 = L + (j - 1)
    BY <1>1, <2>2
  <2>4. Wrap(Wrap(L) + (j - 1)) = Wrap(L + (j - 1))
    BY <1>1, <2>3, WrapAdd
  <2> QED BY <2>1, <2>3, <2>4
<1>7. split_packet_index = Splits(t, n) % SplitMod
  <2>1. split_packet_index = Splits(script, n) % SplitMod
    BY DEF UpInv
  <2>2. Splits(t, n) = Splits(script, n)
    BY <1>1, <1>2, RankNext
  <2> QED BY <2>1, <2>2
<1>8. Ord(m.rel) = OrdAt(t, n)
  <2>1. OrdAt(t, n) = IF HasOrd(m.rel) THEN Wrap(Rank(t, n, m.rel)) ELSE 0
    BY <1>5 DEF OrdAt
  <2>2. Rank(t, n, m.rel) = Rank(script, n, m.rel)
    BY <1>1, <1>2, RankNext
  <2>3. /\ unrel_seq_index = Wrap(Rank(script, n, "UnreliableSequenced"))
        /\ rel_ord_index = Wrap(Rank(script, n, "ReliableOrdered"))
    BY DEF UpInv
  <2>4. CASE m.rel = "UnreliableSequenced"
    BY <1>3, <2>1, <2>2, <2>3, <2>4, OrdValue DEF HasOrd
  <2>5. CASE m.rel = "ReliableOrdered"
    BY <1>3, <2>1, <2>2, <2>3, <2>5, OrdValue DEF HasOrd
  <2>6. CASE ~HasOrd(m.rel)
    BY <1>3, <2>1, <2>6, OrdValue
  <2> QED BY <2>4, <2>5, <2>6 DEF HasOrd
<1> HIDE DEF t, n, L
<1>9. Packets(m)[j] = Due(t, n, j, L + j)
  BY <1>4, <1>5, <1>6, <1>7, <1>8 DEF Due
<1> QED BY <1>9 DEF t, n, L

\* Another message of an open connection.
LEMMA ProcessUp ==
  ASSUME SmallMessages, TypeInv, UpInv, status = "up", NEW m \in Messages, Process(m)
  PROVE  UpInv'
<1> DEFINE t == Append(script, m)
           n == Len(script) + 1
           L == Len(Wire)
           P == Packets(m)
           c == Count(m)
<1>1. script \in Seq(AnyMessage) /\ Len(script) \in Nat /\ Wire \in Seq(AnyPacket) /\ L \in Nat
  BY WireType
<1>2. m \in AnyMessage /\ Count(m) < 256 /\ c \in Nat
  BY MessageType, Counts DEF SmallMessages
<1>3. CountersOK
  BY DEF TypeInv
<1>4. P \in Seq(AnyPacket) /\ Len(P) = c
  BY <1>1, <1>2, <1>3, PacketsFine
<1>5. script' = t /\ rak_packets' = rak_packets \o P /\ read' = read
  BY DEF Process
<1>6. Wire' = Wire \o P
  <2>1. read \in Seq(AnyPacket) /\ rak_packets \in Seq(AnyPacket)
    BY DEF TypeInv, PacketsOK
  <2> HIDE DEF P
  <2>2. read \o (rak_packets \o P) = (read \o rak_packets) \o P
    BY SMTT(40), <1>4, <2>1
  <2> QED BY <1>5, <2>2 DEF Wire
<1>7. Len(Wire') = L + c /\ Len(script') + 1 = n + 1
  <2> HIDE DEF P
  <2>1. Len(Wire \o P) = Len(Wire) + Len(P)
    BY <1>1, <1>4, ConcatProperties
  <2>2. Len(t) = Len(script) + 1
    BY <1>1, <1>2
  <2> QED BY <1>4, <1>5, <1>6, <2>1, <2>2
<1>8. \E f : Laid(script', Wire', f)
  <2>1. PICK first : Laid(script, Wire, first)
    BY DEF UpInv
  <2>2. \A j \in 1..Count(m) : P[j] = Due(Append(script, m), Len(script) + 1, j, Len(Wire) + j)
    BY PacketsDue
  <2> HIDE DEF P
  <2>3. \E f : Laid(Append(script, m), Wire \o P, f)
    BY <1>1, <1>2, <1>4, <2>1, <2>2, LaidMore
  <2> QED BY <1>5, <1>6, <2>3
<1>u. /\ message_number = Wrap(L) /\ split_packet_index = Splits(script, n) % SplitMod
      /\ unrel_seq_index = Wrap(Rank(script, n, "UnreliableSequenced"))
      /\ rel_ord_index = Wrap(Rank(script, n, "ReliableOrdered"))
  BY DEF UpInv
<1>r. /\ Splits(script, n) \in Nat
      /\ Splits(t, n + 1) = Splits(script, n) + (IF NeedsSplit(m) THEN 1 ELSE 0)
      /\ \A rel : /\ Rank(script, n, rel) \in Nat
                  /\ Rank(t, n + 1, rel) = Rank(script, n, rel) + (IF m.rel = rel THEN 1 ELSE 0)
  BY <1>1, <1>2, RankNext
<1> HIDE DEF t, n, L, P, c
<1>9. message_number' = Wrap(L + c)
  <2>1. message_number' = Wrap(message_number + c)
    BY DEF Process, c
  <2>2. Wrap(Wrap(L) + c) = Wrap(L + c)
    BY <1>1, <1>2, WrapAdd
  <2> QED BY <1>u, <2>1, <2>2
<1>10. split_packet_index' = Splits(t, n + 1) % SplitMod
  <2> DEFINE q == Splits(script, n)
  <2>1. split_packet_index' = IF NeedsSplit(m) THEN (split_packet_index + 1) % SplitMod ELSE split_packet_index
    BY DEF Process
  <2>2. q \in Nat
    BY <1>r
  <2> HIDE DEF q
  <2>3. ((q % SplitMod) + 1) % SplitMod = (q + 1) % SplitMod
    <3>1. q \in Int /\ 1 \in Int
      BY <2>2
    <3> QED BY <3>1, SplitModAssumption, ModAdd, Zenon
  <2>4. split_packet_index = q % SplitMod
    BY <1>u DEF q
  <2>5. CASE NeedsSplit(m)
    <3>1. Splits(t, n + 1) = q + 1
      BY <1>r, <2>5 DEF q
    <3> QED BY <2>1, <2>3, <2>4, <2>5, <3>1
  <2>6. CASE ~NeedsSplit(m)
    <3>1. Splits(t, n + 1) = q
      BY <1>r, <2>2, <2>6 DEF q
    <3> QED BY <2>1, <2>4, <2>6, <3>1
  <2> QED BY <2>5, <2>6
<1>11. ASSUME NEW rel, NEW x, x = Wrap(Rank(script, n, rel)),
              NEW y, y = IF m.rel = rel THEN Wrap(x + 1) ELSE x
       PROVE  y = Wrap(Rank(t, n + 1, rel))
  <2> DEFINE q == Rank(script, n, rel)
  <2>1. q \in Nat /\ Rank(t, n + 1, rel) = q + (IF m.rel = rel THEN 1 ELSE 0)
    BY <1>r
  <2>2. x = Wrap(q)
    BY <1>11
  <2> HIDE DEF q
  <2>3. Wrap(Wrap(q) + 1) = Wrap(q + 1)
    BY <2>1, WrapAdd
  <2>4. CASE m.rel = rel
    <3>1. y = Wrap(x + 1) /\ Rank(t, n + 1, rel) = q + 1
      BY <1>11, <2>1, <2>4
    <3> QED BY <2>2, <2>3, <3>1
  <2>5. CASE m.rel # rel
    <3>1. y = x /\ Rank(t, n + 1, rel) = q
      BY <1>11, <2>1, <2>5
    <3> QED BY <2>2, <3>1
  <2> QED BY <2>4, <2>5
<1>12. unrel_seq_index' = Wrap(Rank(t, n + 1, "UnreliableSequenced"))
  <2>1. unrel_seq_index' = IF m.rel = "UnreliableSequenced" THEN Wrap(unrel_seq_index + 1) ELSE unrel_seq_index
    BY DEF Process
  <2> QED BY <1>u, <1>11, <2>1
<1>13. rel_ord_index' = Wrap(Rank(t, n + 1, "ReliableOrdered"))
  <2>1. rel_ord_index' = IF m.rel = "ReliableOrdered" THEN Wrap(rel_ord_index + 1) ELSE rel_ord_index
    BY DEF Process
  <2> QED BY <1>u, <1>11, <2>1
<1> QED BY <1>5, <1>7, <1>8, <1>9, <1>10, <1>12, <1>13 DEF UpInv

\* The steps keep the packets in their places.
LEMMA StepUp ==
  ASSUME SmallMessages, TypeInv, UpInv, FewAcks, [Next]_vars
  PROVE  UpInv'
<1>1. ASSUME NEW m \in Messages, ProcessOutgoing(m) PROVE UpInv'
  BY <1>1, ProcessUp DEF ProcessOutgoing
<1>2. ASSUME UNCHANGED <<counters, script>>, Wire' = Wire, status' = "up" => status = "up"
      PROVE  UpInv'
  BY <1>2 DEF UpInv, counters
<1>3. CASE SendPacket
  <2>1. read' = Append(read, Head(rak_packets)) /\ rak_packets' = Tail(rak_packets) /\ rak_packets # <<>>
    BY <1>3, PacketSent
  <2>2. Append(read, Head(rak_packets)) \o Tail(rak_packets) = read \o rak_packets
    BY <2>1, PacketsTaken DEF TypeInv
  <2>3. Wire' = Wire
    BY <2>1, <2>2 DEF Wire
  <2>4. UNCHANGED <<counters, script>> /\ (status' = "up" => status = "up")
    BY <1>3 DEF SendPacket
  <2> QED BY <1>2, <2>3, <2>4
<1>4. CASE SendAcks
  BY <1>2, <1>4 DEF SendAcks, Wire
<1>5. CASE SendFailed
  BY <1>5 DEF SendFailed, UpInv
<1>6. CASE Drop
  BY <1>6 DEF Drop, UpInv
<1>7. ASSUME NEW n \in Numbers, NEW time \in {remote_system_time, 1}, HandleDatagram(n, time)
      PROVE  UpInv'
  BY <1>2, <1>7 DEF HandleDatagram, Wire
<1>8. CASE UNCHANGED vars
  BY <1>2, <1>8 DEF vars, Wire
<1> QED BY <1>1, <1>3, <1>4, <1>5, <1>6, <1>7, <1>8 DEF Next

\* What UpInv says of the packets is what their reader needs to number them.
LEMMA LaidNumbered ==
  ASSUME TypeInv, UpInv
  PROVE  Numbered
<1> SUFFICES ASSUME status = "up", NEW i \in 1..Len(Wire)
             PROVE  LET p == Wire[i]
                        k == p.data.msg
                    IN  /\ p.message_number = Wrap(i - 1)
                        /\ p.rel = script[k].rel
                        /\ p.ord = IF HasOrd(p.rel) THEN Wrap(EarlierRel(k, p.rel)) ELSE 0
  BY DEF Numbered
<1>1. PICK first : Laid(script, Wire, first)
  BY DEF UpInv
<1>2. PICK k \in 1..Len(script) : i \in first[k]..first[k + 1] - 1
  BY <1>1 DEF Laid
<1>3. Wire[i] = Due(script, k, i - first[k] + 1, i)
  BY <1>1, <1>2 DEF Laid
<1>4. /\ Wire[i].message_number = Wrap(i - 1) /\ Wire[i].rel = script[k].rel
      /\ Wire[i].ord = OrdAt(script, k) /\ Wire[i].data.msg = k
  BY <1>3 DEF Due, Piece
<1>5. Rank(script, k, script[k].rel) = EarlierRel(k, script[k].rel)
  BY DEF Rank, EarlierRel
<1> QED BY <1>4, <1>5 DEF OrdAt

\* And to put the messages together.
LEMMA LaidRejoins ==
  ASSUME TypeInv, UpInv
  PROVE  Rejoins
<1> SUFFICES ASSUME status = "up", NEW k \in 1..Len(script)
             PROVE  LET parts == {i \in 1..Len(Wire) : Wire[i].data.msg = k}
                        n     == Cardinality(parts)
                        a     == Min(parts)
                        b     == a + n - 1
                        id    == EarlierSplit(k) % SplitMod
                    IN  /\ parts # {} /\ parts = a..b
                        /\ Wire[a].data.from = 0
                        /\ Wire[b].data.from + Wire[b].data.len = script[k].len
                        /\ \A i \in a..b - 1 :
                             Wire[i + 1].data.from = Wire[i].data.from + Wire[i].data.len
                        /\ \A i \in a..b :
                             Wire[i].split_packet_info =
                               IF n = 1 THEN <<>> ELSE <<[id |-> id, index |-> i - a, count |-> n]>>
  BY DEF Rejoins
<1> DEFINE m == script[k]
           c == Count(m)
           id == EarlierSplit(k) % SplitMod
           parts == {i \in 1..Len(Wire) : Wire[i].data.msg = k}
<1>1. PICK first : Laid(script, Wire, first)
  BY DEF UpInv
<1>2. Len(script) \in Nat /\ Len(Wire) \in Nat /\ m \in AnyMessage
  BY WireType
<1>3. c \in Nat /\ c >= 1 /\ (~NeedsSplit(m) => c = 1) /\ (NeedsSplit(m) => c >= 2)
  BY <1>2, Counts
<1> DEFINE a == first[k]
           b == a + c - 1
<1>4. a \in 1..Len(Wire) + 1 /\ first[k + 1] = a + c /\ first[k + 1] \in 1..Len(Wire) + 1
  <2>1. k \in 1..Len(script) + 1 /\ k + 1 \in 1..Len(script) + 1
    BY <1>2
  <2> QED BY <1>1, <2>1 DEF Laid
<1>5. a \in Nat /\ b \in Nat /\ a <= b /\ b <= Len(Wire) /\ 1 <= a /\ (a + c) - 1 = b
  <2> HIDE DEF a, c
  <2> QED BY <1>2, <1>3, <1>4
<1>6. ASSUME NEW i \in a..b
      PROVE  /\ Wire[i].data.msg = k
             /\ Wire[i].data.from = From(m, i - a + 1) /\ Wire[i].data.len = PartLen(m, i - a + 1)
             /\ Wire[i].split_packet_info =
                  IF NeedsSplit(m) THEN <<[id |-> id, index |-> (i - a + 1) - 1, count |-> c]>> ELSE <<>>
  <2>1. i \in first[k]..first[k + 1] - 1
    BY <1>4, <1>5
  <2>2. Wire[i] = Due(script, k, i - first[k] + 1, i)
    BY <1>1, <2>1 DEF Laid
  <2>3. Splits(script, k) % SplitMod = id
    BY DEF Splits, EarlierSplit
  <2> DEFINE j == i - a + 1
  <2>4. Wire[i] = Piece(m, k, j, Wrap(i - 1), OrdAt(script, k), id)
    BY <2>2, <2>3 DEF Due
  <2> HIDE DEF m, a, c, id, j
  <2>5. /\ Wire[i].data.msg = k
        /\ Wire[i].data.from = From(m, j) /\ Wire[i].data.len = PartLen(m, j)
        /\ Wire[i].split_packet_info =
             IF NeedsSplit(m) THEN <<[id |-> id, index |-> j - 1, count |-> c]>> ELSE <<>>
    BY <2>4 DEF Piece, c
  <2> QED BY <2>5 DEF j
<1>7. ASSUME NEW i \in 1..Len(Wire), Wire[i].data.msg = k PROVE i \in a..b
  <2>1. PICK l \in 1..Len(script) : i \in first[l]..first[l + 1] - 1
    BY <1>1 DEF Laid
  <2>2. Wire[i] = Due(script, l, i - first[l] + 1, i)
    BY <1>1, <2>1 DEF Laid
  <2>3. Wire[i].data.msg = l
    BY <2>2 DEF Due, Piece
  <2> QED BY <1>4, <1>5, <1>7, <2>1, <2>3
<1> HIDE DEF m, c, id, a
<1>8. parts = a..b /\ a..b # {}
  <2>1. \A i \in a..b : i \in 1..Len(Wire)
    BY <1>2, <1>5
  <2>2. a \in a..b
    BY <1>5
  <2> QED BY <1>6, <1>7, <2>1, <2>2
<1> HIDE DEF b, parts
<1>9. Cardinality(parts) = c /\ Min(parts) = a /\ b = a + c - 1
  <2>1. Cardinality(a..b) = IF a > b THEN 0 ELSE b - a + 1
    BY <1>5, FS_Interval
  <2>2. b = a + c - 1
    BY DEF b
  <2>3. b - a + 1 = c
    BY <1>3, <1>5, <2>2
  <2>4. Min(a..b) = a
    BY <1>5, MinOfInterval
  <2>5. Cardinality(a..b) = c
    BY <1>5, <2>1, <2>3
  <2> QED BY <1>8, <2>2, <2>4, <2>5
<1>10. /\ 1 \in 1..c /\ c \in 1..c /\ a - a + 1 = 1 /\ b - a + 1 = c /\ a \in a..b /\ b \in a..b
       /\ \A i \in a..b - 1 : /\ i \in a..b /\ i + 1 \in a..b /\ i - a + 1 \in 1..c /\ i - a + 1 < c
                              /\ (i + 1) - a + 1 = (i - a + 1) + 1
       /\ \A i \in a..b : (i - a + 1) - 1 = i - a
  BY <1>3, <1>5, <1>9
<1>11. Wire[a].data.from = 0
  <2>1. From(m, 1) = 0
    BY <1>2, <1>10, Slices DEF c
  <2> QED BY <1>6, <1>10, <2>1
<1>12. Wire[b].data.from + Wire[b].data.len = m.len
  <2>1. From(m, c) + PartLen(m, c) = m.len
    BY <1>2, <1>10, Slices DEF c
  <2>2. Wire[b].data.from = From(m, c) /\ Wire[b].data.len = PartLen(m, c)
    BY <1>6, <1>10
  <2> QED BY <2>1, <2>2
<1>13. ASSUME NEW i \in a..b - 1 PROVE Wire[i + 1].data.from = Wire[i].data.from + Wire[i].data.len
  <2> DEFINE j == i - a + 1
  <2>1. j \in 1..c /\ j < c /\ (i + 1) - a + 1 = j + 1 /\ i \in a..b /\ i + 1 \in a..b
    BY <1>10
  <2>2. Wire[i].data.from = From(m, j) /\ Wire[i].data.len = PartLen(m, j)
    BY <1>6, <2>1
  <2>3. Wire[i + 1].data.from = From(m, j + 1)
    BY <1>6, <2>1
  <2> HIDE DEF j
  <2>4. From(m, j + 1) = From(m, j) + PartLen(m, j)
    BY <1>2, <2>1, Slices DEF c
  <2> QED BY <2>2, <2>3, <2>4
<1>14. ASSUME NEW i \in a..b
       PROVE  Wire[i].split_packet_info =
                IF c = 1 THEN <<>> ELSE <<[id |-> id, index |-> i - a, count |-> c]>>
  <2>1. NeedsSplit(m) <=> c # 1
    BY <1>3
  <2>2. (i - a + 1) - 1 = i - a
    BY <1>10
  <2>3. Wire[i].split_packet_info =
          IF NeedsSplit(m) THEN <<[id |-> id, index |-> (i - a + 1) - 1, count |-> c]>> ELSE <<>>
    BY <1>6
  <2> QED BY <2>1, <2>2, <2>3
<1> QED BY <1>8, <1>9, <1>11, <1>12, <1>13, <1>14 DEF parts, m, id

\* What the inductive invariant says of the types is what TypeOK says.
LEMMA TypesHold ==
  ASSUME TypeInv
  PROVE  TypeOK
<1>1. PacketsOK(Wire, Len(script))
  BY WireType
<1>2. ASSUME NEW i \in 1..Len(Wire)
      PROVE  /\ Wire[i].message_number \in 0..IndexMod - 1
             /\ Wire[i].ord \in 0..IndexMod - 1
             /\ Wire[i].data \in [msg : 1..Len(script), from : Nat, len : 0..MAX_PACKET_SIZE]
  <2> DEFINE p == Wire[i]
             l == p.data.len
  <2>1. Fine(p, Len(script))
    BY <1>1 DEF PacketsOK
  <2>2. /\ p.message_number \in 0..IndexMod - 1 /\ p.ord \in 0..IndexMod - 1
        /\ p.data \in [msg : Nat, from : Nat, len : Nat] /\ p.data.msg \in 1..Len(script)
        /\ l <= Room(p.rel, p.split_packet_info)
    BY <2>1 DEF Fine, Sendable, DataType
  <2>3. Room(p.rel, p.split_packet_info) \in {1190, 1178, 1195, 1183}
    BY SMT DEF Room
  <2>4. MAX_PACKET_SIZE = 1200
    BY HeaderLengths
  <2>5. l \in 0..MAX_PACKET_SIZE
    <3>1. l \in Nat
      BY <2>2
    <3> HIDE DEF l, p
    <3> QED BY <2>2, <2>3, <2>4, <3>1, SMT
  <2>6. p.data \in [msg : 1..Len(script), from : Nat, len : 0..MAX_PACKET_SIZE]
    <3> DEFINE d == p.data
    <3>1. d \in [msg : Nat, from : Nat, len : Nat] /\ d.msg \in 1..Len(script) /\ d.len \in 0..MAX_PACKET_SIZE
      BY <2>2, <2>5
    <3> HIDE DEF d
    <3>2. d \in [msg : 1..Len(script), from : Nat, len : 0..MAX_PACKET_SIZE]
      BY <3>1
    <3> QED BY <3>2 DEF d
  <2> QED BY <2>2, <2>6
<1> QED BY <1>2 DEF TypeInv, TypeOK, CountersOK

-----------------------------------------------------------------------------
(* Theorems *)

Inv == TypeInv /\ AcksOnce /\ Sized /\ UpInv

LEMMA InitInv == Init => Inv
<1> SUFFICES ASSUME Init PROVE Inv
  OBVIOUS
<1> USE DEF Init
<1>1. PacketsOK(<<>>, 0)
  BY DEF PacketsOK
<1>2. TypeInv
  <2>1. CountersOK
    BY IndexModAssumption, SplitModAssumption DEF CountersOK
  <2>2. acks \in Seq(List!RangeType) /\ List!SortedList(acks)
    BY EmptyList
  <2>3. script \in Seq(Messages \cup {Goodbye}) /\ Len(script) = 0
    OBVIOUS
  <2>4. PacketsOK(read, Len(script)) /\ PacketsOK(rak_packets, Len(script))
    BY <1>1, <2>3
  <2> QED BY <2>1, <2>2, <2>3, <2>4 DEF TypeInv
<1>3. AcksOnce
  BY EmptyList DEF AcksOnce
<1>4. Sized
  BY DEF Sized
<1>5. UpInv
  <2>1. Wire = <<>> /\ Len(<<>>) = 0 /\ script = <<>>
    BY DEF Wire
  <2>2. \A k \in 1..0 : FALSE
    OBVIOUS
  <2> DEFINE first == [k \in 1..1 |-> 1]
  <2>3. Laid(<<>>, <<>>, first)
    BY <2>1, <2>2 DEF Laid
  <2>4. Splits(<<>>, 1) = 0 /\ \A rel : Rank(<<>>, 1, rel) = 0
    <3>1. 1 - 1 = 0
      OBVIOUS
    <3>2. {j \in 1..0 : NeedsSplit(<<>>[j])} = {} /\ \A rel : {j \in 1..0 : <<>>[j].rel = rel} = {}
      BY <2>2
    <3> QED BY <3>1, <3>2, FS_EmptySet DEF Splits, Rank
  <2>5. Wrap(0) = 0 /\ 0 % SplitMod = 0
    BY IndexModAssumption, SplitModAssumption, SMT DEF Wrap
  <2>6. 0 + 1 = 1
    OBVIOUS
  <2> QED BY <2>1, <2>3, <2>4, <2>5, <2>6 DEF UpInv
<1> QED BY <1>2, <1>3, <1>4, <1>5 DEF Inv

LEMMA StepInv ==
  ASSUME SmallMessages
  PROVE  Inv /\ FewAcks /\ [Next]_vars => Inv'
<1> SUFFICES ASSUME Inv, FewAcks, [Next]_vars PROVE Inv'
  OBVIOUS
<1>1. TypeInv /\ AcksOnce /\ Sized /\ UpInv
  BY DEF Inv
<1> QED BY <1>1, StepType, StepAcks, StepSized, StepUp DEF Inv

LEMMA InvHolds ==
  ASSUME SmallMessages
  PROVE  Spec /\ []FewAcks => []Inv
<1>1. Inv /\ FewAcks /\ [Next]_vars => Inv'
  BY StepInv
<1> QED BY <1>1, InitInv, PTL DEF Spec

\* No counter outgrows its width, and neither do the numbers and lengths that are
\* read (send.rs:52-79), as long as no message needs more than 255 parts and no
\* datagram carries more ranges than a u16 can count.
THEOREM TypeCorrect ==
  ASSUME SmallMessages
  PROVE  Spec /\ []FewAcks => []TypeOK
<1>1. Inv => TypeOK
  BY TypesHold DEF Inv
<1> QED BY <1>1, InvHolds, PTL

\* Packets are numbered without a gap, and every sequenced or ordered message
\* takes the next index of its kind, for counters of any width and any number of
\* messages (process_outgoing_packets).
THEOREM PacketsAreNumbered ==
  ASSUME SmallMessages
  PROVE  Spec /\ []FewAcks => []Numbered
<1>1. Inv => Numbered
  BY LaidNumbered DEF Inv
<1> QED BY <1>1, InvHolds, PTL

\* Whoever reads the datagrams gets every message from its first to its last
\* byte, in parts that say where they belong (process_outgoing_packets,
\* RaknetPacket::serialize and deserialize).
THEOREM MessagesRejoin ==
  ASSUME SmallMessages
  PROVE  Spec /\ []FewAcks => []Rejoins
<1>1. Inv => Rejoins
  BY LaidRejoins DEF Inv
<1> QED BY <1>1, InvHolds, PTL

\* Every number is acknowledged once, on a packet or alone (write_acks).
THEOREM AckedOnce ==
  ASSUME SmallMessages
  PROVE  Spec /\ []FewAcks => []AcksOnce
<1>1. Inv => AcksOnce
  BY DEF Inv
<1> QED BY <1>1, InvHolds, PTL

\* Parts of a split message keep to MAX_PACKET_SIZE and whole messages exceed it
\* by at most two bytes, whatever their length and reliability (header_len).
THEOREM DatagramsAreSized ==
  ASSUME SmallMessages
  PROVE  Spec /\ []FewAcks => []Sized
<1>1. Inv => Sized
  BY DEF Inv
<1> QED BY <1>1, InvHolds, PTL
=============================================================================
