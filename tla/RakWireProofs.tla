--------------------------- MODULE RakWireProofs ---------------------------
(***************************************************************************)
(* What is written is read: the datagrams of RakWire, for any number of    *)
(* ranges in the acknowledgements and any packet of up to 255 parts.       *)
(***************************************************************************)
EXTENDS RakWire, Recursion, SequenceTheorems, TLAPS

-----------------------------------------------------------------------------
(* Pieces of a datagram *)

\* The fields t are in s from position p on.
Has(s, p, t) ==
  /\ p \in Nat \ {0} /\ Len(s) \in Nat /\ Len(t) \in Nat
  /\ p + Len(t) <= Len(s) + 1
  /\ \A x \in 1..Len(t) : s[p + x - 1] = t[x]

\* Two pieces that follow each other.
LEMMA HasConcat ==
  ASSUME NEW S, NEW s, NEW p, NEW t \in Seq(S), NEW u \in Seq(S), Has(s, p, t \o u)
  PROVE  Has(s, p, t) /\ Has(s, p + Len(t), u)
<1> DEFINE l == Len(t)
           n == Len(u)
           c == t \o u
<1>1. /\ l \in Nat /\ n \in Nat /\ Len(c) = l + n
      /\ \A x \in 1..l + n : c[x] = IF x <= l THEN t[x] ELSE u[x - l]
  OBVIOUS
<1>2. /\ p \in Nat \ {0} /\ Len(s) \in Nat /\ p + Len(c) <= Len(s) + 1
      /\ \A x \in 1..Len(c) : s[p + x - 1] = c[x]
  BY DEF Has
<1> HIDE DEF l, n, c
<1>3. p + l <= Len(s) + 1 /\ p + l \in Nat \ {0} /\ (p + l) + n <= Len(s) + 1
  BY <1>1, <1>2
<1>4. ASSUME NEW x \in 1..l PROVE s[p + x - 1] = t[x]
  <2>1. x \in 1..l + n /\ x <= l
    BY <1>1
  <2> QED BY <1>1, <1>2, <2>1
<1>5. ASSUME NEW x \in 1..n PROVE s[(p + l) + x - 1] = u[x]
  <2>1. /\ l + x \in 1..l + n /\ ~(l + x <= l) /\ (l + x) - l = x
        /\ p + (l + x) - 1 = (p + l) + x - 1
    BY <1>1, <1>2
  <2>2. c[l + x] = u[x]
    BY <1>1, <2>1
  <2>3. s[p + (l + x) - 1] = c[l + x]
    BY <1>1, <1>2, <2>1
  <2> QED BY <2>1, <2>2, <2>3
<1> QED BY <1>1, <1>2, <1>3, <1>4, <1>5 DEF Has, l, n

\* A field that is there is read.
LEMMA HasField ==
  ASSUME NEW s, NEW p, NEW w, NEW v, Has(s, p, <<Field(w, v)>>)
  PROVE  /\ p \in 1..Len(s) /\ s[p] = Field(w, v)
         /\ At(s, p, w) = v /\ DataAt(s, p, w) = v /\ Fits(s, p, w)
<1>1. Len(<<Field(w, v)>>) = 1 /\ <<Field(w, v)>>[1] = Field(w, v)
  OBVIOUS
<1>2. p \in Nat /\ p + 1 <= Len(s) + 1 /\ Len(s) \in Nat /\ p # 0 /\ s[p + 1 - 1] = Field(w, v)
  BY <1>1 DEF Has
<1>3. p \in 1..Len(s) /\ s[p] = Field(w, v)
  BY <1>2
<1> QED BY <1>3 DEF At, DataAt, Fits, Field

-----------------------------------------------------------------------------
(* Compressed integers *)

\* Fields that hold numbers.
Numeric == [w : Nat, v : Int]

LEMMA FieldType ==
  /\ \A w \in Nat, v \in Int : Field(w, v) \in Numeric
  /\ \A b : Bit(b) \in Numeric
  /\ Bit(TRUE) = Field(1, 1) /\ Bit(FALSE) = Field(1, 0)
BY DEF Field, Bit, Numeric

LEMMA SmallBelow ==
  \A n \in Nat : n < 256 => n < U16
BY SMT DEF U16

LEMMA ByteValues ==
  ASSUME NEW n \in Nat, n < U16
  PROVE  /\ Byte(n, 0) = n % 256 /\ Byte(n, 1) = n \div 256 /\ Byte(n, 2) = 0 /\ Byte(n, 3) = 0
         /\ n % 256 \in Nat /\ n \div 256 \in Nat /\ n = (n % 256) + 256 * (n \div 256)
         /\ (n < 256 <=> n \div 256 = 0) /\ (n < 256 => n % 256 = n)
<1>1. /\ Byte(n, 0) = (n \div 1) % 256 /\ Byte(n, 1) = (n \div 256) % 256
  BY SMT DEF Byte, Weight
<1>2. n \div 1 = n /\ (n \div 256) % 256 = n \div 256
  BY SMT DEF U16
<1>3. Byte(n, 2) = 0
  <2>1. Byte(n, 2) = (n \div 65536) % 256
    BY SMT DEF Byte, Weight
  <2> QED BY <2>1, SMT DEF U16
<1>4. Byte(n, 3) = 0
  <2>1. Byte(n, 3) = (n \div 16777216) % 256
    BY SMT DEF Byte, Weight
  <2> QED BY <2>1, SMT DEF U16
<1>5. n % 256 \in Nat /\ n \div 256 \in Nat /\ n = (n % 256) + 256 * (n \div 256)
  BY SMT
<1>6. (n < 256 <=> n \div 256 = 0) /\ (n < 256 => n % 256 = n)
  BY SMT
<1> QED BY <1>1, <1>2, <1>3, <1>4, <1>5, <1>6

\* The highest byte that is written.
LEMMA TopValues ==
  /\ \A n \in Nat, size \in 1..4 : n < 256 => Top(n, size) = 0
  /\ \A n \in Nat : 256 <= n /\ n < U16 => Top(n, 2) = 1
<1>1. ASSUME NEW n \in Nat, NEW size \in 1..4, n < 256 PROVE Top(n, size) = 0
  <2>1. Byte(n, 1) = 0 /\ Byte(n, 2) = 0 /\ Byte(n, 3) = 0
    <3>1. n < U16
      BY <1>1, SmallBelow
    <3> QED BY <1>1, <3>1, ByteValues
  <2>2. \A j \in 0..size - 1 : j = 0 \/ j = 1 \/ j = 2 \/ j = 3
    OBVIOUS
  <2>3. \A j \in 0..size - 1 : j > 0 => Byte(n, j) = 0
    BY <2>1, <2>2
  <2> QED BY <2>3 DEF Top
<1>2. ASSUME NEW n \in Nat, 256 <= n, n < U16 PROVE Top(n, 2) = 1
  <2>1. Byte(n, 1) # 0
    BY <1>2, ByteValues
  <2>2. \A j \in 0..1 : j = 0 \/ j = 1
    OBVIOUS
  <2> QED BY <2>1, <2>2 DEF Top
<1> QED BY <1>1, <1>2

\* A function on 1..k is a sequence.
Row(t, k, S) == t \in [1..k -> S]

LEMMA RowIsSeq ==
  ASSUME NEW S, NEW k \in Nat, NEW t, Row(t, k, S)
  PROVE  t \in Seq(S) /\ Len(t) = k
BY DEF Row

\* A row of ones, read one by one.
LEMMA HasOnes ==
  ASSUME NEW s, NEW p, NEW k \in Nat, Has(s, p, Ones(k))
  PROVE  Len(Ones(k)) = k /\ Ones(k) \in Seq(Numeric) /\ \A j \in 0..k - 1 : At(s, p + j, 1) = 1
<1> DEFINE o == Ones(k)
           b == Bit(TRUE)
<1>0. o = [i \in 1..k |-> b] /\ b \in Numeric /\ b = Field(1, 1)
  BY FieldType DEF Ones
<1> HIDE DEF o, b
<1>a. /\ [i \in 1..k |-> b] \in Seq(Numeric) /\ Len([i \in 1..k |-> b]) = k
      /\ \A j \in 1..k : [i \in 1..k |-> b][j] = b
  BY <1>0
<1>1. Len(o) = k /\ \A j \in 1..k : o[j] = Field(1, 1)
  BY <1>0, <1>a
<1>2. o \in Seq(Numeric)
  BY <1>0, <1>a
<1>3. ASSUME NEW j \in 0..k - 1 PROVE At(s, p + j, 1) = 1
  <2>1. j + 1 \in 1..k
    OBVIOUS
  <2>2. /\ p \in Nat \ {0} /\ Len(s) \in Nat /\ p + k <= Len(s) + 1
        /\ s[p + (j + 1) - 1] = Field(1, 1)
    BY <1>1, <2>1 DEF Has, o
  <2>3. p + j \in 1..Len(s) /\ s[p + j] = Field(1, 1)
    BY <2>2
  <2> QED BY <2>3 DEF At, Fits, Field
<1> QED BY <1>1, <1>2, <1>3 DEF o

\* Two fields, one after the other.
LEMMA HasTwo ==
  ASSUME NEW s, NEW p, NEW a, NEW b, Has(s, p, <<a, b>>)
  PROVE  Has(s, p, <<a>>) /\ Has(s, p + 1, <<b>>)
<1>1. /\ Len(<<a, b>>) = 2 /\ <<a, b>>[1] = a /\ <<a, b>>[2] = b
      /\ Len(<<a>>) = 1 /\ <<a>>[1] = a /\ Len(<<b>>) = 1 /\ <<b>>[1] = b
  OBVIOUS
<1>2. /\ p \in Nat \ {0} /\ Len(s) \in Nat /\ p + 2 <= Len(s) + 1
      /\ s[p + 1 - 1] = a /\ s[p + 2 - 1] = b
  BY <1>1 DEF Has
<1>3. p + 1 - 1 = p /\ p + 2 - 1 = p + 1 /\ (p + 1) + 1 - 1 = p + 1
  BY <1>2
<1>4. Has(s, p, <<a>>)
  BY <1>1, <1>2, <1>3 DEF Has
<1>5. Has(s, p + 1, <<b>>)
  BY <1>1, <1>2, <1>3 DEF Has
<1> QED BY <1>4, <1>5

Written(n, size, j, k) == Compress(n, size) = Ones(j) \o (<<Bit(FALSE)>> \o LowBytes(n, k))

\* A number whose highest byte is t is written as ones and t + 1 bytes.
LEMMA CompressTop ==
  ASSUME NEW n, NEW size, NEW t, t = Top(n, size), t > 0, NEW k, k = t + 1, NEW j, j = size - 1 - t
  PROVE  Written(n, size, j, k)
<1>1. Compress(n, size) =
        Ones(size - 1 - Top(n, size)) \o
          IF Top(n, size) > 0 THEN <<Bit(FALSE)>> \o LowBytes(n, Top(n, size) + 1) ELSE Lowest(n)
  BY DEF Compress
<1> QED BY <1>1 DEF Written

\* A number of one byte is written as a row of ones and its lowest byte.
LEMMA CompressSmall ==
  ASSUME NEW n \in Nat, n < 256, NEW size \in 1..4
  PROVE  Compress(n, size) = Ones(size - 1) \o Lowest(n)
<1>1. Top(n, size) = 0
  BY TopValues
<1>2. size - 1 - 0 = size - 1 /\ ~(0 > 0)
  OBVIOUS
<1> QED BY <1>1, <1>2 DEF Compress

LEMMA OnesType ==
  ASSUME NEW k \in Nat
  PROVE  Ones(k) \in Seq(Numeric) /\ Len(Ones(k)) = k
<1> DEFINE b == Bit(TRUE)
<1>0. Ones(k) = [i \in 1..k |-> b] /\ b \in Numeric
  BY FieldType DEF Ones
<1> HIDE DEF b
<1> QED BY <1>0

LEMMA LowestType ==
  ASSUME NEW n \in Nat, n < 256
  PROVE  Lowest(n) \in Seq(Numeric) /\ Len(Lowest(n)) = 2
<1> DEFINE a == Bit(TRUE)
           b == Bit(FALSE)
           c == Field(4, n % 16)
           d == Field(8, Byte(n, 0))
<1>1. n % 16 \in Int
  BY SMT
<1>2. n < U16
  BY SmallBelow
<1>3. Byte(n, 0) \in Int
  BY <1>2, ByteValues
<1>4. a \in Numeric /\ b \in Numeric /\ c \in Numeric /\ d \in Numeric
  BY <1>1, <1>3, FieldType
<1>5. Lowest(n) = <<a, c>> \/ Lowest(n) = <<b, d>>
  BY DEF Lowest
<1> HIDE DEF a, b, c, d
<1>6. Len(<<a, c>>) = 2 /\ Len(<<b, d>>) = 2
  OBVIOUS
<1>7. <<a, c>> \in Seq(Numeric) /\ <<b, d>> \in Seq(Numeric)
  BY <1>4
<1> QED BY <1>5, <1>6, <1>7

\* The lowest byte is read back.
LEMMA HasLowest ==
  ASSUME NEW s, NEW p, NEW n \in Nat, n < 256, Has(s, p, Lowest(n))
  PROVE  At(s, p + 1, IF At(s, p, 1) = 1 THEN 4 ELSE 8) = n
<1>1. n < U16
  BY SmallBelow
<1>2. Byte(n, 0) = n
  BY <1>1, ByteValues
<1>3. CASE Byte(n, 0) < 16
  <2>1. n % 16 = n
    BY <1>2, <1>3, SMT
  <2>2. Lowest(n) = <<Field(1, 1), Field(4, n)>>
    BY <1>3, <2>1, FieldType DEF Lowest
  <2>3. Has(s, p, <<Field(1, 1)>>) /\ Has(s, p + 1, <<Field(4, n)>>)
    BY <2>2, HasTwo
  <2>4. At(s, p, 1) = 1 /\ At(s, p + 1, 4) = n
    BY <2>3, HasField
  <2> QED BY <2>4
<1>4. CASE ~(Byte(n, 0) < 16)
  <2>1. Lowest(n) = <<Field(1, 0), Field(8, n)>>
    BY <1>2, <1>4, FieldType DEF Lowest
  <2>2. Has(s, p, <<Field(1, 0)>>) /\ Has(s, p + 1, <<Field(8, n)>>)
    BY <2>1, HasTwo
  <2>3. At(s, p, 1) = 0 /\ At(s, p + 1, 8) = n
    BY <2>2, HasField
  <2> QED BY <2>3
<1> QED BY <1>3, <1>4

LEMMA SmallType ==
  ASSUME NEW n \in Nat, n < 256, NEW size \in 1..4
  PROVE  Compress(n, size) \in Seq(Numeric) /\ Len(Compress(n, size)) = size + 1
<1> DEFINE a == Ones(size - 1)
           b == Lowest(n)
<1>1. size - 1 \in Nat
  OBVIOUS
<1>2. a \in Seq(Numeric) /\ Len(a) = size - 1 /\ b \in Seq(Numeric) /\ Len(b) = 2
  BY <1>1, OnesType, LowestType
<1> HIDE DEF a, b
<1>3. a \o b \in Seq(Numeric) /\ Len(a \o b) = Len(a) + Len(b)
  BY <1>2, ConcatProperties
<1>4. Len(a) + Len(b) = size + 1
  BY <1>1, <1>2
<1> QED BY <1>3, <1>4, CompressSmall DEF a, b

\* A number of one byte is read as it was written, whatever its type.
LEMMA DecompressSmall ==
  ASSUME NEW n \in Nat, n < 256, NEW size \in 1..4, NEW s, NEW p, Has(s, p, Compress(n, size))
  PROVE  Decompress(s, p, size) = [val |-> n, at |-> p + size + 1]
<1>1. size - 1 \in Nat /\ size \in Nat
  OBVIOUS
<1>2. /\ Ones(size - 1) \in Seq(Numeric) /\ Len(Ones(size - 1)) = size - 1
      /\ Lowest(n) \in Seq(Numeric) /\ Len(Lowest(n)) = 2
  BY <1>1, OnesType, LowestType
<1>3. Compress(n, size) = Ones(size - 1) \o Lowest(n)
  BY CompressSmall
<1>4. Has(s, p, Ones(size - 1) \o Lowest(n))
  BY <1>3
<1>5. Has(s, p, Ones(size - 1)) /\ Has(s, p + (size - 1), Lowest(n))
  BY <1>2, <1>4, HasConcat
<1>6. \A j \in 0..(size - 1) - 1 : At(s, p + j, 1) = 1
  BY <1>1, <1>5, HasOnes
<1>7. At(s, (p + (size - 1)) + 1, IF At(s, p + (size - 1), 1) = 1 THEN 4 ELSE 8) = n
  BY <1>5, HasLowest
<1>8. p \in Nat
  BY <1>5 DEF Has
<1>9. (CHOOSE i \in 0..size - 1 :
             /\ \A k \in 0..i - 1 : At(s, p + k, 1) = 1
             /\ i < size - 1 => At(s, p + i, 1) # 1) = size - 1
  <2>1. \A i \in 0..size - 1 : i < size - 1 => At(s, p + i, 1) = 1
    BY <1>1, <1>6
  <2>2. size - 1 \in 0..size - 1 /\ ~(size - 1 < size - 1) /\ \A i \in 0..size - 1 : ~(i < size - 1) => i = size - 1
    BY <1>1
  <2> QED BY <1>6, <2>1, <2>2
<1>10. (p + (size - 1)) + 1 = p + size /\ ~(size - 1 < size - 1)
  BY <1>1, <1>8
<1>11. Decompress(s, p, size) = [val |-> n, at |-> p + size + 1]
  BY <1>7, <1>9, <1>10 DEF Decompress
<1> QED BY <1>11

\* The sequence t of fields is a and b.
IsPair(t, a, b) == t \in Seq(Numeric) /\ Len(t) = 2 /\ t[1] = a /\ t[2] = b

\* The two bytes of a number that needs them.
LEMMA LowBytesPair ==
  ASSUME NEW n \in Nat, n < U16
  PROVE  IsPair(LowBytes(n, 2), Field(8, n % 256), Field(8, n \div 256))
<1> DEFINE l == LowBytes(n, 2)
<1>1. /\ Byte(n, 0) = n % 256 /\ Byte(n, 1) = n \div 256
      /\ n % 256 \in Int /\ n \div 256 \in Int
  BY ByteValues
<1>2. \A j \in 1..2 : l[j] = Field(8, Byte(n, j - 1))
  BY DEF LowBytes
<1>3. 1 \in 1..2 /\ 2 \in 1..2 /\ 1 - 1 = 0 /\ 2 - 1 = 1 /\ \A j \in 1..2 : j = 1 \/ j = 2
  OBVIOUS
<1>4. Field(8, n % 256) \in Numeric /\ Field(8, n \div 256) \in Numeric
  BY <1>1, FieldType
<1>5. \A j \in 1..2 : Field(8, Byte(n, j - 1)) \in Numeric
  BY <1>1, <1>3, <1>4
<1>6. Row(l, 2, Numeric)
  BY <1>5 DEF LowBytes, Row
<1> HIDE DEF l
<1>7. l[1] = Field(8, n % 256) /\ l[2] = Field(8, n \div 256)
  BY <1>1, <1>2, <1>3
<1>8. l \in Seq(Numeric) /\ Len(l) = 2
  BY <1>6, RowIsSeq
<1>9. IsPair(l, Field(8, n % 256), Field(8, n \div 256))
  BY <1>7, <1>8 DEF IsPair
<1> QED BY <1>9 DEF l

\* The fields c are a, which has none, b, which has one, and l, which has two.
IsThree(c, a, b, l) ==
  /\ a \in Seq(Numeric) /\ Len(a) = 0 /\ b \in Seq(Numeric) /\ Len(b) = 1
  /\ l \in Seq(Numeric) /\ Len(l) = 2 /\ b \o l \in Seq(Numeric) /\ Len(b \o l) = 3
  /\ c = a \o (b \o l)

LEMMA CompressLarge ==
  ASSUME NEW n \in Nat, 256 <= n, n < U16
  PROVE  IsThree(Compress(n, 2), Ones(0), <<Bit(FALSE)>>, LowBytes(n, 2))
<1>1. Top(n, 2) = 1
  BY TopValues
<1>2. 2 - 1 - 1 = 0 /\ 1 > 0 /\ 1 + 1 = 2
  OBVIOUS
<1>w. Written(n, 2, 0, 2)
  BY <1>1, <1>2, CompressTop
<1>3. Compress(n, 2) = Ones(0) \o (<<Bit(FALSE)>> \o LowBytes(n, 2))
  BY <1>w DEF Written
<1> DEFINE b == Bit(FALSE)
           l == LowBytes(n, 2)
<1>4. b \in Numeric /\ IsPair(l, Field(8, n % 256), Field(8, n \div 256))
  <2>1. b \in Numeric
    BY FieldType
  <2>2. IsPair(l, Field(8, n % 256), Field(8, n \div 256))
    BY LowBytesPair
  <2> QED BY <2>1, <2>2
<1> HIDE DEF b, l
<1>l. l \in Seq(Numeric) /\ Len(l) = 2
  BY <1>4 DEF IsPair
<1>5. <<b>> \in Seq(Numeric) /\ Len(<<b>>) = 1
  BY <1>4
<1>6. <<b>> \o l \in Seq(Numeric) /\ Len(<<b>> \o l) = Len(<<b>>) + Len(l)
  BY <1>l, <1>5, ConcatProperties
<1>7. Len(<<b>>) + Len(l) = 3
  BY <1>l, <1>5
<1> DEFINE e == <<b>>
           a == Ones(0)
           c == Compress(n, 2)
<1>8. a \in Seq(Numeric) /\ Len(a) = 0
  BY OnesType
<1>9. c = a \o (e \o l)
  BY <1>3 DEF b, l
<1>10. e \in Seq(Numeric) /\ Len(e) = 1 /\ e \o l \in Seq(Numeric) /\ Len(e \o l) = 3
  BY <1>5, <1>6, <1>7
<1> HIDE DEF a, c, e
<1>11. IsThree(c, a, e, l)
  BY <1>l, <1>8, <1>9, <1>10 DEF IsThree
<1> QED BY <1>11 DEF a, b, c, e, l

\* What a compressed u16 looks like, and that it is read as it was written.
LEMMA TwoType ==
  ASSUME NEW n \in Nat, n < U16
  PROVE  Compress(n, 2) \in Seq(Numeric) /\ Len(Compress(n, 2)) = 3
<1>1. CASE n < 256
  <2>1. 2 \in 1..4 /\ 2 + 1 = 3
    OBVIOUS
  <2> QED BY <1>1, <2>1, SmallType
<1>2. CASE 256 <= n
  <2>1. PICK a, b, l : IsThree(Compress(n, 2), a, b, l)
    BY <1>2, CompressLarge
  <2> DEFINE c == b \o l
  <2>2. a \in Seq(Numeric) /\ Len(a) = 0 /\ c \in Seq(Numeric) /\ Len(c) = 3 /\ Compress(n, 2) = a \o c
    BY <2>1 DEF IsThree
  <2> HIDE DEF c
  <2>3. a \o c \in Seq(Numeric) /\ Len(a \o c) = Len(a) + Len(c)
    BY <2>2, ConcatProperties
  <2>4. Len(a) + Len(c) = 3
    BY <2>2
  <2> QED BY <2>2, <2>3, <2>4
<1> QED BY <1>1, <1>2

LEMMA DecompressTwo ==
  ASSUME NEW n \in Nat, n < U16, NEW s, NEW p, Has(s, p, Compress(n, 2))
  PROVE  Decompress(s, p, 2) = [val |-> n, at |-> p + 3]
<1>0. p \in Nat
  BY DEF Has
<1>1. CASE n < 256
  <2>1. 2 \in 1..4 /\ p + 2 + 1 = p + 3
    BY <1>0
  <2>2. Decompress(s, p, 2) = [val |-> n, at |-> p + 2 + 1]
    BY <1>1, <2>1, DecompressSmall
  <2> QED BY <2>1, <2>2
<1>2. CASE 256 <= n
  <2> DEFINE a == Ones(0)
             b == <<Bit(FALSE)>>
             l == LowBytes(n, 2)
  <2>c. IsThree(Compress(n, 2), a, b, l)
    BY <1>2, CompressLarge
  <2>2. b = <<Field(1, 0)>>
    BY FieldType
  <2>i. IsPair(l, Field(8, n % 256), Field(8, n \div 256))
    BY LowBytesPair
  <2> HIDE DEF a, b, l
  <2>1. /\ a \in Seq(Numeric) /\ Len(a) = 0 /\ b \in Seq(Numeric) /\ Len(b) = 1
        /\ b \o l \in Seq(Numeric) /\ Compress(n, 2) = a \o (b \o l)
    BY <2>c DEF IsThree
  <2>3. l \in Seq(Numeric) /\ Len(l) = 2 /\ l[1] = Field(8, n % 256) /\ l[2] = Field(8, n \div 256)
    BY <2>i DEF IsPair
  <2>4. Has(s, p, a \o (b \o l))
    BY <2>1
  <2>5. Has(s, p + Len(a), b \o l)
    BY <2>1, <2>4, HasConcat
  <2>6. p + 0 = p
    BY <1>0
  <2>7. Has(s, p, b \o l)
    BY <2>1, <2>5, <2>6
  <2>8. Has(s, p, b) /\ Has(s, p + Len(b), l)
    BY ZenonT(60), <2>1, <2>3, <2>7, HasConcat
  <2>9. At(s, p, 1) = 0
    BY <2>2, <2>8, HasField
  <2>10. Has(s, p + 1, l)
    BY <2>1, <2>8
  <2>11. At(s, p + 1, 8) = n % 256 /\ At(s, p + 2, 8) = n \div 256
    <3>1. /\ (p + 1) + 2 <= Len(s) + 1 /\ Len(s) \in Nat
          /\ s[(p + 1) + 1 - 1] = l[1] /\ s[(p + 1) + 2 - 1] = l[2]
      BY <2>3, <2>10 DEF Has
    <3>2. /\ p + 1 \in 1..Len(s) /\ p + 2 \in 1..Len(s)
          /\ (p + 1) + 1 - 1 = p + 1 /\ (p + 1) + 2 - 1 = p + 2
      BY <1>0, <3>1
    <3>3. s[p + 1] = Field(8, n % 256) /\ s[p + 2] = Field(8, n \div 256)
      BY <2>3, <3>1, <3>2
    <3> QED BY <3>2, <3>3 DEF At, Fits, Field
  <2>12. (CHOOSE i \in 0..2 - 1 :
             /\ \A k \in 0..i - 1 : At(s, p + k, 1) = 1
             /\ i < 2 - 1 => At(s, p + i, 1) # 1) = 0
    <3>1. \A i \in 0..2 - 1 : i = 0 \/ i = 1
      OBVIOUS
    <3>2. At(s, p + 0, 1) = 0
      BY <2>6, <2>9
    <3>3. 0 \in 0..1 - 1 /\ 0 \in 0..2 - 1 /\ ~\E k \in 0..0 - 1 : TRUE
      OBVIOUS
    <3> QED BY <3>1, <3>2, <3>3
  <2>13. /\ 0 \in 0..2 - 1 /\ 1 \in 0..2 - 1 /\ 2 \notin 0..2 - 1 /\ 3 \notin 0..2 - 1
         /\ 0 < 2 - 1 /\ p + 1 + 0 = p + 1 /\ p + 1 + 1 = p + 2 /\ p + 1 + 2 = p + 3
    BY <1>0
  <2>14. Weight(0) = 1 /\ Weight(1) = 256
    BY DEF Weight
  <2>15. n % 256 \in Nat /\ n \div 256 \in Nat /\ n = (n % 256) + 256 * (n \div 256)
    BY ByteValues
  <2> DEFINE x == n % 256
             y == n \div 256
  <2>16. x * 1 + y * 256 + 0 + 0 = n
    <3> HIDE DEF x, y
    <3> QED BY <2>15 DEF x, y
  <2> QED BY <2>11, <2>12, <2>13, <2>14, <2>16 DEF Decompress
<1> QED BY <1>1, <1>2

-----------------------------------------------------------------------------
(* Ranges *)

AnyRange == [min : Nat, max : Nat]

LEMMA RangeFieldsType ==
  ASSUME NEW r \in AnyRange
  PROVE  /\ RangeFields(r) \in Seq(Numeric)
         /\ r.min = r.max => RangeFields(r) = <<Field(1, 1), Field(32, r.min)>> \o <<>>
         /\ r.min # r.max => RangeFields(r) = <<Field(1, 0), Field(32, r.min)>> \o <<Field(32, r.max)>>
         /\ <<Field(1, 1), Field(32, r.min)>> \in Seq(Numeric)
         /\ <<Field(1, 0), Field(32, r.min)>> \in Seq(Numeric)
         /\ <<Field(32, r.max)>> \in Seq(Numeric)
<1> DEFINE a == Field(1, 1)
           b == Field(1, 0)
           c == Field(32, r.min)
           d == Field(32, r.max)
<1>1. r.min \in Nat /\ r.max \in Nat
  BY DEF AnyRange
<1>2. a \in Numeric /\ b \in Numeric /\ c \in Numeric /\ d \in Numeric
  BY <1>1, FieldType
<1>3. /\ r.min = r.max => RangeFields(r) = <<a, c>> \o <<>>
      /\ r.min # r.max => RangeFields(r) = <<b, c>> \o <<d>>
  BY FieldType DEF RangeFields
<1> HIDE DEF a, b, c, d
<1>4. /\ <<a, c>> \in Seq(Numeric) /\ <<b, c>> \in Seq(Numeric)
      /\ <<d>> \in Seq(Numeric) /\ <<>> \in Seq(Numeric)
  BY <1>2
<1>5. <<a, c>> \o <<>> \in Seq(Numeric) /\ <<b, c>> \o <<d>> \in Seq(Numeric)
  BY <1>4, ConcatProperties
<1> QED BY <1>3, <1>4, <1>5 DEF a, b, c, d

\* A range is read as it was written.
LEMMA HasRange ==
  ASSUME NEW r \in AnyRange, NEW s, NEW p, Has(s, p, RangeFields(r))
  PROVE  RangeAt(s, p) = [range |-> r, at |-> p + Len(RangeFields(r))]
<1>1. p \in Nat
  BY DEF Has
<1>2. r = [min |-> r.min, max |-> r.max]
  BY DEF AnyRange
<1> DEFINE t == <<Field(1, 1), Field(32, r.min)>>
           u == <<Field(1, 0), Field(32, r.min)>>
           v == <<Field(32, r.max)>>
<1>3. Len(t) = 2 /\ Len(u) = 2 /\ Len(v) = 1
  OBVIOUS
<1>4. t \in Seq(Numeric) /\ u \in Seq(Numeric) /\ v \in Seq(Numeric) /\ <<>> \in Seq(Numeric)
  <2>1. t \in Seq(Numeric) /\ u \in Seq(Numeric) /\ v \in Seq(Numeric)
    BY RangeFieldsType
  <2>2. <<>> \in Seq(Numeric)
    OBVIOUS
  <2> QED BY <2>1, <2>2
<1>5. CASE r.min = r.max
  <2>1. RangeFields(r) = t \o <<>>
    BY <1>5, RangeFieldsType
  <2>2. Has(s, p, t \o <<>>)
    BY <2>1
  <2>3. Has(s, p, t)
    <3> HIDE DEF t
    <3> QED BY <1>4, <2>2, HasConcat
  <2>4. Has(s, p, <<Field(1, 1)>>) /\ Has(s, p + 1, <<Field(32, r.min)>>)
    BY <2>3, HasTwo
  <2>5. At(s, p, 1) = 1 /\ At(s, p + 1, 32) = r.min
    BY <2>4, HasField
  <2>6. Len(RangeFields(r)) = 2
    <3> HIDE DEF t
    <3>1. Len(t \o <<>>) = Len(t) + Len(<<>>) /\ Len(<<>>) = 0
      BY <1>4, ConcatProperties
    <3> QED BY <1>3, <2>1, <3>1
  <2> QED BY <1>2, <1>5, <2>5, <2>6 DEF RangeAt
<1>6. CASE r.min # r.max
  <2>1. RangeFields(r) = u \o v
    BY <1>6, RangeFieldsType
  <2>2. Has(s, p, u \o v)
    BY <2>1
  <2>3. Has(s, p, u) /\ Has(s, p + 2, v)
    <3> HIDE DEF u, v
    <3> QED BY <1>3, <1>4, <2>2, HasConcat
  <2>4. Has(s, p, <<Field(1, 0)>>) /\ Has(s, p + 1, <<Field(32, r.min)>>)
    BY <2>3, HasTwo
  <2>5. At(s, p, 1) = 0 /\ At(s, p + 1, 32) = r.min /\ At(s, p + 2, 32) = r.max
    BY <2>3, <2>4, HasField
  <2>6. Len(RangeFields(r)) = 3
    <3> HIDE DEF u, v
    <3>1. Len(u \o v) = Len(u) + Len(v)
      BY <1>4, ConcatProperties
    <3> QED BY <1>3, <2>1, <3>1
  <2> QED BY <1>2, <2>5, <2>6 DEF RangeAt
<1> QED BY <1>5, <1>6

\* The fields of the first ranges of rs.
Firsts(f, rs) ==
  /\ f \in [0..Len(rs) -> Seq(Numeric)] /\ f[0] = <<>>
  /\ \A i \in 1..Len(rs) : f[i] = f[i - 1] \o RangeFields(rs[i])

LEMMA RangesFieldsDef ==
  ASSUME NEW rs \in Seq(AnyRange)
  PROVE  \E f : Firsts(f, rs) /\ RangesFields(rs) = Compress(Len(rs) % U16, 2) \o f[Len(rs)]
<1> DEFINE N == Len(rs)
           S == Seq(Numeric)
           F(i) == RangeFields(rs[i])
           G(f) == [i \in 0..N |-> IF i = 0 THEN <<>> ELSE f[i - 1] \o F(i)]
           step == [i \in 1..N |-> [x \in S |-> x \o F(i)]]
           Q == CHOOSE q : q = G(q)
<1>0. N \in Nat /\ <<>> \in S /\ \A i \in 1..N : F(i) \in S
  <2>1. N \in Nat /\ \A i \in 1..N : rs[i] \in AnyRange
    OBVIOUS
  <2>2. <<>> \in S
    OBVIOUS
  <2>3. \A i \in 1..N : F(i) \in S
    BY <2>1, RangeFieldsType
  <2> QED BY <2>1, <2>2, <2>3
<1>1. RangesFields(rs) = Compress(N % U16, 2) \o Q[N]
  BY DEF RangesFields
<1> HIDE DEF F, N
<1>2. \A x \in S, i \in 1..N : x \o F(i) \in S
  BY <1>0, ConcatProperties
<1> HIDE DEF S
<1>3. Steps(step, N, S)
  BY <1>2 DEF Steps
<1>4. PICK f : Follows(f, step, N, S, <<>>)
  <2> HIDE DEF step
  <2> QED BY <1>0, <1>3, RecursionExists
<1>5. f \in [0..N -> S] /\ f[0] = <<>> /\ \A i \in 1..N : f[i] = f[i - 1] \o F(i)
  <2>1. f \in [0..N -> S] /\ f[0] = <<>> /\ \A i \in 1..N : f[i] = step[i][f[i - 1]]
    BY <1>4 DEF Follows
  <2>2. \A i \in 1..N : i - 1 \in 0..N
    BY <1>0
  <2> QED BY <2>1, <2>2
<1>6. f = G(f)
  <2>1. \A i \in 0..N : f[i] = G(f)[i]
    <3> TAKE i \in 0..N
    <3>1. CASE i = 0
      BY <1>5, <3>1
    <3>2. CASE i # 0
      <4>1. i \in 1..N
        BY <1>0, <3>2
      <4> QED BY <1>5, <3>2, <4>1
    <3> QED BY <3>1, <3>2
  <2> QED BY <1>5, <2>1
<1> HIDE DEF G
<1>7. Q = G(Q)
  BY <1>6
<1> HIDE DEF Q
<1>8. Q[0] = <<>> /\ \A i \in 1..N : Q[i] = Q[i - 1] \o F(i)
  <2>1. \A i \in 0..N : Q[i] = IF i = 0 THEN <<>> ELSE Q[i - 1] \o F(i)
    BY <1>7 DEF G
  <2>2. 0 \in 0..N /\ \A i \in 1..N : i \in 0..N /\ i # 0
    BY <1>0
  <2> QED BY <2>1, <2>2
<1> DEFINE T == {i \in Nat : i <= N => Q[i] = f[i]}
<1>9. 0 \in T
  BY <1>5, <1>8
<1>10. ASSUME NEW i \in Nat, i \in T PROVE i + 1 \in T
  <2>1. ASSUME i + 1 <= N PROVE Q[i + 1] = f[i + 1]
    <3>1. i + 1 \in 1..N /\ (i + 1) - 1 = i /\ i <= N
      BY <1>0, <2>1
    <3>2. Q[i] = f[i]
      BY <1>10, <3>1
    <3> QED BY <1>5, <1>8, <3>1, <3>2
  <2> QED BY <2>1
<1>11. Q[N] = f[N]
  <2> HIDE DEF T
  <2>1. Nat \subseteq T
    BY <1>9, <1>10, SetInduction
  <2> QED BY <1>0, <2>1 DEF T
<1>12. Firsts(f, rs)
  BY <1>5 DEF Firsts, S, N, F
<1> QED BY <1>1, <1>11, <1>12 DEF N

\* The ranges of rs lie one after the other from position p on.
LEMMA RangesInPlace ==
  ASSUME NEW rs \in Seq(AnyRange), NEW f, Firsts(f, rs), NEW s, NEW p, Has(s, p, f[Len(rs)])
  PROVE  /\ p \in Nat
         /\ \A i \in 1..Len(rs) :
              /\ Len(f[i]) = Len(f[i - 1]) + Len(RangeFields(rs[i]))
              /\ Len(f[i - 1]) \in Nat /\ Len(RangeFields(rs[i])) \in Nat
              /\ RangeAt(s, p + Len(f[i - 1])) =
                   [range |-> rs[i], at |-> (p + Len(f[i - 1])) + Len(RangeFields(rs[i]))]
<1> DEFINE N == Len(rs)
           F(i) == RangeFields(rs[i])
           T == {j \in Nat : j <= N => Has(s, p, f[N - j])}
<1>0. p \in Nat
  BY DEF Has
<1>1. N \in Nat /\ \A i \in 1..N : rs[i] \in AnyRange
  OBVIOUS
<1>2. \A i \in 1..N : F(i) \in Seq(Numeric)
  BY <1>1, RangeFieldsType
<1>3. f \in [0..N -> Seq(Numeric)] /\ \A i \in 1..N : f[i] = f[i - 1] \o F(i)
  BY DEF Firsts
<1>4. \A i \in 1..N : i - 1 \in 0..N
  BY <1>1
<1>5. ASSUME NEW i \in 1..N, Has(s, p, f[i])
      PROVE  Has(s, p, f[i - 1]) /\ Has(s, p + Len(f[i - 1]), F(i))
  <2> DEFINE g == f[i - 1]
             h == F(i)
  <2>1. g \in Seq(Numeric) /\ h \in Seq(Numeric) /\ Has(s, p, g \o h)
    BY <1>2, <1>3, <1>4, <1>5
  <2> HIDE DEF g, h
  <2>2. Has(s, p, g) /\ Has(s, p + Len(g), h)
    BY <2>1, HasConcat
  <2> QED BY <2>2 DEF g, h
<1>6. 0 \in T
  <2>1. N - 0 = N
    BY <1>1
  <2> QED BY <2>1
<1>7. ASSUME NEW j \in Nat, j \in T PROVE j + 1 \in T
  <2>1. ASSUME j + 1 <= N PROVE Has(s, p, f[N - (j + 1)])
    <3>1. N - j \in 1..N /\ (N - j) - 1 = N - (j + 1) /\ j <= N
      BY <1>1, <2>1
    <3>2. Has(s, p, f[N - j])
      BY <1>7, <3>1
    <3>3. Has(s, p, f[(N - j) - 1])
      BY <1>5, <3>1, <3>2
    <3> QED BY <3>1, <3>3
  <2> QED BY <2>1
<1>8. ASSUME NEW i \in 0..N PROVE Has(s, p, f[i])
  <2>1. Nat \subseteq T
    <3> HIDE DEF T
    <3> QED BY <1>6, <1>7, SetInduction
  <2>2. N - i \in Nat /\ N - i <= N /\ N - (N - i) = i
    BY <1>1
  <2>3. N - i \in T
    BY <2>1, <2>2
  <2> QED BY <2>2, <2>3
<1>9. ASSUME NEW i \in 1..N
      PROVE  /\ Len(f[i]) = Len(f[i - 1]) + Len(F(i))
             /\ Len(f[i - 1]) \in Nat /\ Len(F(i)) \in Nat
             /\ RangeAt(s, p + Len(f[i - 1])) =
                   [range |-> rs[i], at |-> (p + Len(f[i - 1])) + Len(F(i))]
  <2> DEFINE g == f[i - 1]
             h == F(i)
  <2>1. g \in Seq(Numeric) /\ h \in Seq(Numeric) /\ f[i] = g \o h
    BY <1>2, <1>3, <1>4
  <2>2. i \in 0..N
    BY <1>1
  <2>3. Has(s, p + Len(g), RangeFields(rs[i]))
    BY <1>5, <1>8, <2>2
  <2>4. RangeAt(s, p + Len(g)) = [range |-> rs[i], at |-> (p + Len(g)) + Len(h)]
    BY <1>1, <2>3, HasRange
  <2> HIDE DEF g, h
  <2>5. Len(g \o h) = Len(g) + Len(h) /\ Len(g) \in Nat /\ Len(h) \in Nat
    BY <2>1, ConcatProperties
  <2> QED BY <2>1, <2>4, <2>5 DEF g, h
<1> QED BY <1>0, <1>9

\* The ranges are read as they were written.
LEMMA HasRanges ==
  ASSUME NEW rs \in Seq(AnyRange), Len(rs) < U16, NEW s, NEW p, Has(s, p, RangesFields(rs))
  PROVE  ReadRanges(s, p) = [ranges |-> rs, at |-> p + Len(RangesFields(rs))]
<1> DEFINE N == Len(rs)
           c == Compress(N, 2)
           at == p + 3
<1>1. N \in Nat /\ \A i \in 1..N : rs[i] \in AnyRange
  OBVIOUS
<1>2. N % U16 = N
  <2> HIDE DEF N
  <2> QED BY <1>1, SMT DEF U16, N
<1>3. PICK f : Firsts(f, rs) /\ RangesFields(rs) = c \o f[N]
  <2>1. PICK f : Firsts(f, rs) /\ RangesFields(rs) = Compress(N % U16, 2) \o f[N]
    BY RangesFieldsDef
  <2> QED BY <1>2, <2>1
<1>4. f[N] \in Seq(Numeric) /\ c \in Seq(Numeric) /\ Len(c) = 3 /\ Len(f[0]) = 0
  <2>1. N \in 0..N
    BY <1>1
  <2>2. f[N] \in Seq(Numeric) /\ f[0] = <<>>
    BY <1>3, <2>1 DEF Firsts
  <2>3. c \in Seq(Numeric) /\ Len(c) = 3
    BY <1>1, TwoType
  <2> QED BY <2>2, <2>3
<1>5. Has(s, p, c) /\ Has(s, p + 3, f[N])
  <2> DEFINE d == f[N]
  <2>1. d \in Seq(Numeric) /\ Has(s, p, c \o d)
    BY <1>3, <1>4
  <2> HIDE DEF c, d
  <2>2. Has(s, p, c) /\ Has(s, p + Len(c), d)
    BY <1>4, <2>1, HasConcat
  <2> QED BY <1>4, <2>2 DEF d
<1>6. Decompress(s, p, 2) = [val |-> N, at |-> at] /\ p \in Nat
  BY <1>1, <1>5, DecompressTwo DEF Has
<1>7. Len(RangesFields(rs)) = 3 + Len(f[N]) /\ Len(f[N]) \in Nat
  <2> DEFINE d == f[N]
  <2>1. d \in Seq(Numeric) /\ RangesFields(rs) = c \o d
    BY <1>3, <1>4
  <2> HIDE DEF c, d
  <2>2. Len(c \o d) = Len(c) + Len(d)
    BY <1>4, <2>1, ConcatProperties
  <2>3. Len(d) \in Nat
    BY <2>1
  <2> QED BY <1>4, <2>1, <2>2, <2>3 DEF d
<1> DEFINE R(a) == RangeAt(s, a)
           L(i) == Len(f[i])
           Z == [ranges |-> <<>>, at |-> at]
           Step(x) == [ranges |-> Append(x.ranges, R(x.at).range), at |-> R(x.at).at]
           G(q) == [i \in 0..N |-> IF i = 0 THEN Z ELSE Step(q[i - 1])]
           Q == CHOOSE q : q = G(q)
           W(i) == [ranges |-> SubSeq(rs, 1, i), at |-> at + L(i)]
           w == [i \in 0..N |-> W(i)]
<1>8. ReadRanges(s, p) = Q[N]
  <2>1. ReadRanges(s, p) = RangesAt(s, at, N)
    BY <1>6 DEF ReadRanges
  <2>2. RangesAt(s, at, N) = Q[N]
    BY DEF RangesAt
  <2> QED BY <2>1, <2>2
<1>9. W(0) = Z
  <2>1. SubSeq(rs, 1, 0) = <<>>
    OBVIOUS
  <2>2. at + L(0) = at
    BY <1>4, <1>6
  <2> QED BY <2>1, <2>2
<1>10. ASSUME NEW i \in 1..N PROVE W(i) = Step(W(i - 1))
  <2>1. /\ L(i) = L(i - 1) + Len(RangeFields(rs[i])) /\ L(i - 1) \in Nat
        /\ Len(RangeFields(rs[i])) \in Nat
        /\ R(at + L(i - 1)) = [range |-> rs[i], at |-> (at + L(i - 1)) + Len(RangeFields(rs[i]))]
    BY ZenonT(60), <1>3, <1>5, RangesInPlace
  <2>2. SubSeq(rs, 1, i) = Append(SubSeq(rs, 1, i - 1), rs[i])
    BY <1>1
  <2>3. (at + L(i - 1)) + Len(RangeFields(rs[i])) = at + L(i)
    <3> DEFINE x == Len(RangeFields(rs[i]))
               y == L(i - 1)
               z == L(i)
    <3>1. x \in Nat /\ y \in Nat /\ z = y + x
      BY <2>1
    <3> HIDE DEF x, y, z
    <3>2. (at + y) + x = at + z
      BY <1>6, <3>1
    <3> QED BY <3>2 DEF x, y, z
  <2> DEFINE x == at + L(i - 1)
             sub == SubSeq(rs, 1, i - 1)
             y == Len(RangeFields(rs[i]))
             u == W(i - 1)
  <2>4. R(x) = [range |-> rs[i], at |-> x + y] /\ x + y = at + L(i)
    BY <2>1, <2>3
  <2>5. W(i) = [ranges |-> Append(sub, rs[i]), at |-> at + L(i)] /\ u = [ranges |-> sub, at |-> x]
    BY <2>2
  <2> HIDE DEF L, R, at, W, x, y, sub, u
  <2>6. u.ranges = sub /\ u.at = x
    BY <2>5
  <2>7. R(x).range = rs[i] /\ R(x).at = at + L(i)
    BY <2>4
  <2>8. Step(u) = [ranges |-> Append(sub, rs[i]), at |-> at + L(i)]
    BY <2>6, <2>7
  <2> QED BY <2>5, <2>8 DEF u
<1> HIDE DEF W, Step, Z
<1>11. w = G(w)
  <2>1. ASSUME NEW i \in 0..N PROVE w[i] = G(w)[i]
    <3>1. CASE i = 0
      BY <1>9, <3>1
    <3>2. CASE i # 0
      <4>1. i \in 1..N /\ i - 1 \in 0..N
        BY <1>1, <3>2
      <4> QED BY <1>10, <3>2, <4>1
    <3> QED BY <3>1, <3>2
  <2> QED BY <2>1
<1>12. Q = G(Q)
  <2> HIDE DEF G, w
  <2> QED BY <1>11
<1> HIDE DEF Q
<1>13. Q[0] = Z /\ \A i \in 1..N : Q[i] = Step(Q[i - 1])
  <2>1. \A i \in 0..N : Q[i] = IF i = 0 THEN Z ELSE Step(Q[i - 1])
    BY <1>12
  <2>2. 0 \in 0..N /\ \A i \in 1..N : i \in 0..N /\ i # 0
    BY <1>1
  <2> QED BY <2>1, <2>2
<1> DEFINE T == {i \in Nat : i <= N => Q[i] = W(i)}
<1>14. 0 \in T
  BY <1>9, <1>13
<1>15. ASSUME NEW i \in Nat, i \in T PROVE i + 1 \in T
  <2>1. ASSUME i + 1 <= N PROVE Q[i + 1] = W(i + 1)
    <3>1. i + 1 \in 1..N /\ (i + 1) - 1 = i /\ i <= N
      BY <1>1, <2>1
    <3>2. Q[i] = W(i)
      BY <1>15, <3>1
    <3>3. W(i + 1) = Step(W(i)) /\ Q[i + 1] = Step(Q[i])
      BY <1>10, <1>13, <3>1
    <3> QED BY <3>2, <3>3
  <2> QED BY <2>1
<1>16. Q[N] = W(N)
  <2> HIDE DEF T
  <2>1. Nat \subseteq T
    BY <1>14, <1>15, SetInduction
  <2> QED BY <1>1, <2>1 DEF T
<1>17. SubSeq(rs, 1, N) = rs
  BY <1>1
<1>18. at + L(N) = p + Len(RangesFields(rs))
  <2> DEFINE y == Len(f[N])
             z == Len(RangesFields(rs))
  <2>1. y \in Nat /\ z = 3 + y
    BY <1>7
  <2> HIDE DEF y, z
  <2>2. (p + 3) + y = p + z
    BY <1>6, <2>1
  <2> QED BY <2>2 DEF y, z
<1> QED BY <1>8, <1>16, <1>17, <1>18 DEF W

LEMMA RangesType ==
  ASSUME NEW rs \in Seq(AnyRange)
  PROVE  RangesFields(rs) \in Seq(Numeric)
<1> DEFINE n == Len(rs) % U16
           c == Compress(n, 2)
<1>1. PICK f : Firsts(f, rs) /\ RangesFields(rs) = c \o f[Len(rs)]
  BY RangesFieldsDef
<1>2. Len(rs) \in Nat
  OBVIOUS
<1>3. n \in Nat /\ n < U16
  <2> DEFINE k == Len(rs)
  <2> HIDE DEF k
  <2>1. k \in Nat => k % U16 \in Nat /\ k % U16 < U16
    BY SMT DEF U16
  <2> QED BY <1>2, <2>1 DEF k
<1>4. c \in Seq(Numeric)
  <2> HIDE DEF n
  <2> QED BY <1>3, TwoType
<1>5. f[Len(rs)] \in Seq(Numeric)
  <2>1. Len(rs) \in 0..Len(rs)
    BY <1>2
  <2> QED BY <1>1, <2>1 DEF Firsts
<1> DEFINE d == f[Len(rs)]
<1> HIDE DEF c, d
<1>6. c \o d \in Seq(Numeric)
  BY <1>4, <1>5, ConcatProperties DEF d
<1> QED BY <1>1, <1>6 DEF d

-----------------------------------------------------------------------------
(* Acknowledgements *)

LEMMA AcksType ==
  ASSUME NEW rs \in Seq(AnyRange), NEW time \in Nat
  PROVE  /\ AckFields(rs, time) \in Seq(Numeric)
         /\ rs = <<>> => AckFields(rs, time) = <<Field(1, 0)>>
         /\ rs # <<>> => AckFields(rs, time) = <<Field(1, 1), Field(32, time)>> \o RangesFields(rs)
         /\ <<Field(1, 1), Field(32, time)>> \in Seq(Numeric)
<1> DEFINE a == Field(1, 0)
           b == Field(1, 1)
           c == Field(32, time)
           r == RangesFields(rs)
<1>1. a \in Numeric /\ b \in Numeric /\ c \in Numeric
  BY FieldType
<1>2. r \in Seq(Numeric)
  BY RangesType
<1>3. /\ rs = <<>> => AckFields(rs, time) = <<a>>
      /\ rs # <<>> => AckFields(rs, time) = <<b, c>> \o r
  BY FieldType DEF AckFields
<1> HIDE DEF a, b, c, r
<1>4. <<a>> \in Seq(Numeric) /\ <<b, c>> \in Seq(Numeric)
  BY <1>1
<1>5. <<b, c>> \o r \in Seq(Numeric)
  BY <1>2, <1>4, ConcatProperties
<1>6. AckFields(rs, time) \in Seq(Numeric)
  BY <1>3, <1>4, <1>5
<1> QED BY <1>3, <1>4, <1>6 DEF a, b, c, r

\* The acknowledgements in front of a datagram are read as they were written.
LEMMA HasAcks ==
  ASSUME NEW rs \in Seq(AnyRange), NEW time \in Nat, Len(rs) < U16,
         NEW s, Has(s, 1, AckFields(rs, time))
  PROVE  /\ ReadAcks(s).ranges = rs
         /\ ReadAcks(s).at = 1 + Len(AckFields(rs, time))
<1>1. CASE rs = <<>>
  <2>1. AckFields(rs, time) = <<Field(1, 0)>>
    BY <1>1, AcksType
  <2>2. At(s, 1, 1) = 0
    BY <2>1, HasField
  <2>3. Len(AckFields(rs, time)) = 1
    BY <2>1
  <2>4. ReadAcks(s) = [time |-> 0, ranges |-> <<>>, at |-> 2]
    BY <2>2 DEF ReadAcks
  <2>5. ReadAcks(s).ranges = <<>> /\ ReadAcks(s).at = 2
    BY <2>4
  <2>6. 1 + Len(AckFields(rs, time)) = 2
    BY <2>3
  <2> QED BY <1>1, <2>5, <2>6, Zenon
<1>2. CASE rs # <<>>
  <2> DEFINE t == <<Field(1, 1), Field(32, time)>>
             r == RangesFields(rs)
  <2>1. AckFields(rs, time) = t \o r /\ t \in Seq(Numeric)
    BY <1>2, AcksType
  <2>2. Len(t) = 2
    OBVIOUS
  <2>3. r \in Seq(Numeric)
    BY RangesType
  <2>4. Has(s, 1, t \o r)
    BY <2>1
  <2>5. Has(s, 1, t) /\ Has(s, 1 + 2, r) /\ Len(t \o r) = 2 + Len(r)
    <3> HIDE DEF t, r
    <3>1. Has(s, 1, t) /\ Has(s, 1 + Len(t), r)
      BY <2>1, <2>3, <2>4, HasConcat
    <3>2. Len(t \o r) = Len(t) + Len(r)
      BY <2>1, <2>3, ConcatProperties
    <3> QED BY <2>2, <3>1, <3>2
  <2>6. Has(s, 1, <<Field(1, 1)>>)
    BY <2>5, HasTwo
  <2>7. At(s, 1, 1) = 1
    BY <2>6, HasField
  <2>8. Has(s, 3, r)
    <3>1. 1 + 2 = 3
      OBVIOUS
    <3> QED BY <2>5, <3>1
  <2>9. ReadRanges(s, 3) = [ranges |-> rs, at |-> 3 + Len(r)]
    BY <2>8, HasRanges
  <2>10. Len(r) \in Nat
    BY <2>3
  <2> HIDE DEF t, r
  <2>11. 3 + Len(r) = 1 + Len(AckFields(rs, time))
    BY <2>1, <2>5, <2>10
  <2> QED BY <2>7, <2>9, <2>11 DEF ReadAcks
<1> QED BY <1>1, <1>2

-----------------------------------------------------------------------------
(* Packets *)

\* Every reliability has its id.
LEMMA RelIds ==
  ASSUME NEW rel \in Range(RelNames)
  PROVE  \E i \in 0..3 : /\ RelNames[i + 1] = rel
                         /\ (CHOOSE j \in 0..3 : RelNames[j + 1] = rel) = i
<1>1. /\ RelNames[1] = "Unreliable" /\ RelNames[2] = "UnreliableSequenced"
      /\ RelNames[3] = "Reliable" /\ RelNames[4] = "ReliableOrdered"
  BY DEF RelNames
<1>2. DOMAIN RelNames = 1..4
  BY DEF RelNames
<1>3. PICK k \in 1..4 : rel = RelNames[k]
  BY <1>2 DEF Range
<1>4. \A j \in 0..3 : j = 0 \/ j = 1 \/ j = 2 \/ j = 3
  OBVIOUS
<1>5. 0 + 1 = 1 /\ 1 + 1 = 2 /\ 2 + 1 = 3 /\ 3 + 1 = 4
  OBVIOUS
<1>6. \A i, j \in 0..3 : RelNames[i + 1] = RelNames[j + 1] => i = j
  BY <1>1, <1>4, <1>5
<1>7. k - 1 \in 0..3 /\ (k - 1) + 1 = k
  OBVIOUS
<1> WITNESS k - 1 \in 0..3
<1> QED BY <1>3, <1>6, <1>7

LEMMA RelFieldsType ==
  ASSUME NEW rel \in Range(RelNames), NEW ord \in Nat
  PROVE  /\ RelFields(rel, ord) \in Seq(Numeric)
         /\ \E id \in 0..3 :
              /\ RelNames[id + 1] = rel
              /\ HasOrd(rel) => RelFields(rel, ord) = <<Field(3, id)>> \o <<Field(5, 0), Field(32, ord)>>
              /\ ~HasOrd(rel) => RelFields(rel, ord) = <<Field(3, id)>> \o <<>>
<1>1. PICK id \in 0..3 : RelNames[id + 1] = rel /\ (CHOOSE j \in 0..3 : RelNames[j + 1] = rel) = id
  BY RelIds
<1> DEFINE a == Field(3, id)
           b == Field(5, 0)
           c == Field(32, ord)
<1>2. a \in Numeric /\ b \in Numeric /\ c \in Numeric
  BY FieldType
<1>3. /\ HasOrd(rel) => RelFields(rel, ord) = <<a>> \o <<b, c>>
      /\ ~HasOrd(rel) => RelFields(rel, ord) = <<a>> \o <<>>
  BY <1>1 DEF RelFields
<1> HIDE DEF a, b, c
<1>4. <<a>> \in Seq(Numeric) /\ <<b, c>> \in Seq(Numeric) /\ <<>> \in Seq(Numeric)
  BY <1>2
<1>5. <<a>> \o <<b, c>> \in Seq(Numeric) /\ <<a>> \o <<>> \in Seq(Numeric)
  BY <1>4, ConcatProperties
<1>6. RelFields(rel, ord) \in Seq(Numeric)
  BY <1>3, <1>5
<1> QED BY <1>1, <1>3, <1>6 DEF a, b, c

\* The reliability is read as it was written.
LEMMA HasRel ==
  ASSUME NEW rel \in Range(RelNames), NEW ord \in Nat, ~HasOrd(rel) => ord = 0,
         NEW s, NEW p, Has(s, p, RelFields(rel, ord))
  PROVE  RelAt(s, p) = [rel |-> rel, ord |-> ord, at |-> p + Len(RelFields(rel, ord))]
<1>1. PICK id \in 0..3 :
        /\ RelNames[id + 1] = rel
        /\ HasOrd(rel) => RelFields(rel, ord) = <<Field(3, id)>> \o <<Field(5, 0), Field(32, ord)>>
        /\ ~HasOrd(rel) => RelFields(rel, ord) = <<Field(3, id)>> \o <<>>
  BY RelFieldsType
<1>2. p \in Nat
  BY DEF Has
<1> DEFINE a == <<Field(3, id)>>
           b == <<Field(5, 0), Field(32, ord)>>
<1>3. Len(a) = 1 /\ Len(b) = 2 /\ Len(<<>>) = 0
  OBVIOUS
<1>4. a \in Seq(Numeric) /\ b \in Seq(Numeric) /\ <<>> \in Seq(Numeric)
  <2> DEFINE x == Field(3, id)
             y == Field(5, 0)
             z == Field(32, ord)
  <2>1. x \in Numeric /\ y \in Numeric /\ z \in Numeric
    BY FieldType
  <2> HIDE DEF x, y, z
  <2>2. <<x>> \in Seq(Numeric) /\ <<y, z>> \in Seq(Numeric) /\ <<>> \in Seq(Numeric)
    BY <2>1
  <2> QED BY <2>2 DEF x, y, z
<1>5. CASE HasOrd(rel)
  <2>1. RelFields(rel, ord) = a \o b
    BY <1>1, <1>5
  <2>2. Has(s, p, a) /\ Has(s, p + 1, b) /\ Len(RelFields(rel, ord)) = 3
    <3> HIDE DEF a, b
    <3>1. Has(s, p, a) /\ Has(s, p + Len(a), b)
      BY <1>4, <2>1, HasConcat
    <3>2. Len(a \o b) = Len(a) + Len(b)
      BY <1>4, ConcatProperties
    <3> QED BY <1>3, <2>1, <3>1, <3>2
  <2>3. At(s, p, 3) = id
    BY <2>2, HasField
  <2>4. Has(s, p + 1, <<Field(5, 0)>>) /\ Has(s, (p + 1) + 1, <<Field(32, ord)>>)
    BY <2>2, HasTwo
  <2>5. (p + 1) + 1 = p + 2
    BY <1>2
  <2>6. At(s, p + 1, 5) = 0 /\ At(s, p + 2, 32) = ord
    BY <2>4, <2>5, HasField
  <2> QED BY <1>1, <1>5, <2>2, <2>3, <2>6 DEF RelAt
<1>6. CASE ~HasOrd(rel)
  <2>1. RelFields(rel, ord) = a \o <<>>
    BY <1>1, <1>6
  <2>2. Has(s, p, a) /\ Len(RelFields(rel, ord)) = 1
    <3> HIDE DEF a
    <3>1. Has(s, p, a)
      BY <1>4, <2>1, HasConcat
    <3>2. Len(a \o <<>>) = Len(a) + Len(<<>>)
      BY <1>4, ConcatProperties
    <3> QED BY <1>3, <2>1, <3>1, <3>2
  <2>3. At(s, p, 3) = id
    BY <2>2, HasField
  <2> QED BY <1>1, <1>6, <2>2, <2>3 DEF RelAt
<1> QED BY <1>5, <1>6

\* What says where a part of a message belongs: fewer than 256 parts.
Infos == {x \in [id : Nat, index : Nat, count : Nat] : x.index < 256 /\ x.count < 256}

LEMMA SplitType ==
  ASSUME NEW info \in Infos
  PROVE  /\ SplitFields(info) \in Seq(Numeric) /\ Len(SplitFields(info)) = 11
         /\ <<Field(16, info.id)>> \in Seq(Numeric) /\ Len(<<Field(16, info.id)>>) = 1
         /\ Compress(info.index, 4) \in Seq(Numeric) /\ Len(Compress(info.index, 4)) = 5
         /\ Compress(info.count, 4) \in Seq(Numeric) /\ Len(Compress(info.count, 4)) = 5
         /\ <<Field(16, info.id)>> \o Compress(info.index, 4) \in Seq(Numeric)
         /\ Len(<<Field(16, info.id)>> \o Compress(info.index, 4)) = 6
<1> DEFINE a == Field(16, info.id)
           b == Compress(info.index, 4)
           c == Compress(info.count, 4)
<1>1. info.id \in Nat /\ info.index \in Nat /\ info.index < 256 /\ info.count \in Nat /\ info.count < 256
  BY DEF Infos
<1>2. a \in Numeric
  BY <1>1, FieldType
<1>3. b \in Seq(Numeric) /\ Len(b) = 5 /\ c \in Seq(Numeric) /\ Len(c) = 5
  <2>1. 4 \in 1..4 /\ 4 + 1 = 5
    OBVIOUS
  <2> QED BY <1>1, <2>1, SmallType
<1>4. SplitFields(info) = (<<a>> \o b) \o c
  BY DEF SplitFields
<1> HIDE DEF a, b, c
<1>5. <<a>> \in Seq(Numeric) /\ Len(<<a>>) = 1
  BY <1>2
<1>6. <<a>> \o b \in Seq(Numeric) /\ Len(<<a>> \o b) = Len(<<a>>) + Len(b)
  BY <1>3, <1>5, ConcatProperties
<1> DEFINE ab == <<a>> \o b
<1> HIDE DEF ab
<1>7. ab \in Seq(Numeric) /\ Len(ab) = 6
  BY <1>3, <1>5, <1>6 DEF ab
<1>8. ab \o c \in Seq(Numeric) /\ Len(ab \o c) = Len(ab) + Len(c)
  BY <1>3, <1>7, ConcatProperties
<1>9. Len(ab) + Len(c) = 11
  BY <1>3, <1>7
<1>10. SplitFields(info) \in Seq(Numeric) /\ Len(SplitFields(info)) = 11
  BY <1>4, <1>8, <1>9 DEF ab
<1> QED BY <1>3, <1>5, <1>7, <1>10 DEF a, b, c, ab

LEMMA HasSplit ==
  ASSUME NEW info \in Infos, NEW s, NEW p, Has(s, p, SplitFields(info))
  PROVE  SplitAt(s, p) = [info |-> info, at |-> p + 11]
<1> DEFINE a == <<Field(16, info.id)>>
           b == Compress(info.index, 4)
           c == Compress(info.count, 4)
<1>1. info.id \in Nat /\ info.index \in Nat /\ info.index < 256 /\ info.count \in Nat /\ info.count < 256
  BY DEF Infos
<1>2. info = [id |-> info.id, index |-> info.index, count |-> info.count]
  BY DEF Infos
<1>3. /\ a \in Seq(Numeric) /\ Len(a) = 1 /\ b \in Seq(Numeric) /\ c \in Seq(Numeric)
      /\ a \o b \in Seq(Numeric) /\ Len(a \o b) = 6
  BY SplitType
<1>4. Has(s, p, (a \o b) \o c)
  BY DEF SplitFields
<1>5. Has(s, p, a) /\ Has(s, p + 1, b) /\ Has(s, p + 6, c)
  <2> HIDE DEF a, b, c
  <2>1. Has(s, p, a \o b) /\ Has(s, p + 6, c)
    <3> DEFINE ab == a \o b
    <3>1. ab \in Seq(Numeric) /\ Len(ab) = 6 /\ Has(s, p, ab \o c)
      BY <1>3, <1>4
    <3> HIDE DEF ab
    <3>2. Has(s, p, ab) /\ Has(s, p + Len(ab), c)
      BY <1>3, <3>1, HasConcat
    <3> QED BY <3>1, <3>2 DEF ab
  <2>2. Has(s, p, a) /\ Has(s, p + Len(a), b)
    BY <1>3, <2>1, HasConcat
  <2> QED BY <1>3, <2>1, <2>2
<1>6. At(s, p, 16) = info.id
  BY <1>5, HasField
<1>7. p \in Nat /\ (p + 1) + 4 + 1 = p + 6 /\ (p + 6) + 4 + 1 = p + 11 /\ 4 \in 1..4
  BY <1>5 DEF Has
<1>8. Decompress(s, p + 1, 4) = [val |-> info.index, at |-> (p + 1) + 4 + 1]
  BY <1>1, <1>5, <1>7, DecompressSmall
<1>9. Decompress(s, p + 6, 4) = [val |-> info.count, at |-> (p + 6) + 4 + 1]
  BY <1>1, <1>5, <1>7, DecompressSmall
<1> QED BY <1>2, <1>6, <1>7, <1>8, <1>9 DEF SplitAt

\* A packet that can be sent: its length in bits fits the u16 it is written as.
Parts == {<<>>} \cup {<<x>> : x \in Infos}
DataType == [msg : Nat, from : Nat, len : Nat]

Sendable(packet) ==
  /\ packet \in [message_number : Nat, rel : Range(RelNames), ord : Nat,
                 split_packet_info : Parts, data : DataType]
  /\ ~HasOrd(packet.rel) => packet.ord = 0
  /\ 8 * packet.data.len < U16

\* The fields of a packet in the order they are written, after those of s.
PartFields(split) == IF split # <<>> THEN SplitFields(split[1]) ELSE <<>>

PacketFields(s, packet) ==
  s \o <<Field(32, packet.message_number)>>
    \o RelFields(packet.rel, packet.ord)
    \o <<Bit(packet.split_packet_info # <<>>)>>
    \o PartFields(packet.split_packet_info)
    \o Compress(8 * packet.data.len, 2)

LEMMA WrittenFields ==
  ASSUME NEW s, NEW packet, Sendable(packet)
  PROVE  WritePacket(s, packet) =
           Append(Align(PacketFields(s, packet)), Field(8 * packet.data.len, packet.data))
<1> DEFINE len == packet.data.len
<1>1. len \in Nat /\ 8 * len < U16
  BY DEF Sendable, DataType
<1>2. ((len % U16) * 8) % U16 = 8 * len
  <2> HIDE DEF len
  <2> QED BY <1>1, SMT DEF U16
<1> QED BY <1>2 DEF WritePacket, PacketFields, PartFields

LEMMA PartType ==
  ASSUME NEW split \in Parts
  PROVE  /\ PartFields(split) \in Seq(Numeric)
         /\ split = <<>> => PartFields(split) = <<>> /\ Len(PartFields(split)) = 0
         /\ split # <<>> => /\ PartFields(split) = SplitFields(split[1]) /\ split[1] \in Infos
                            /\ split = <<split[1]>> /\ Len(PartFields(split)) = 11
<1>1. CASE split = <<>>
  BY <1>1 DEF PartFields
<1>2. CASE split # <<>>
  <2>1. PICK x \in Infos : split = <<x>>
    BY <1>2 DEF Parts
  <2>2. split[1] = x
    BY <2>1
  <2>3. SplitFields(x) \in Seq(Numeric) /\ Len(SplitFields(x)) = 11
    BY SplitType
  <2>4. PartFields(split) = SplitFields(x)
    BY <1>2, <2>2 DEF PartFields
  <2> QED BY <1>2, <2>1, <2>2, <2>3, <2>4
<1> QED BY <1>1, <1>2

\* The sequence x ends with t, which begins at position q.
LEMMA HasLast ==
  ASSUME NEW s, NEW x \in Seq(Numeric), NEW t \in Seq(Numeric), Has(s, 1, x \o t)
  PROVE  /\ Has(s, 1, x) /\ Has(s, 1 + Len(x), t)
         /\ x \o t \in Seq(Numeric) /\ Len(x \o t) = Len(x) + Len(t)
         /\ Len(x) \in Nat /\ Len(t) \in Nat
<1>1. Has(s, 1, x) /\ Has(s, 1 + Len(x), t)
  BY HasConcat
<1>2. x \o t \in Seq(Numeric) /\ Len(x \o t) = Len(x) + Len(t)
  BY ConcatProperties
<1>3. Len(x) \in Nat /\ Len(t) \in Nat
  OBVIOUS
<1> QED BY <1>1, <1>2, <1>3

\* Where the fields of a packet are.
Pieces(s, x0, a, b, c, d, e, x) ==
  LET p == 1 + Len(x0) IN
  /\ Has(s, 1, x0) /\ Has(s, p, a) /\ Has(s, p + 1, b) /\ Has(s, p + 1 + Len(b), c)
  /\ Has(s, p + 1 + Len(b) + 1, d)
  /\ Has(s, p + 1 + Len(b) + 1 + Len(d), e)
  /\ 1 + Len(x) = p + 1 + Len(b) + 1 + Len(d) + Len(e)
  /\ p \in Nat /\ Len(b) \in Nat /\ Len(d) \in Nat

LEMMA PacketPieces ==
  ASSUME NEW s, NEW x0 \in Seq(Numeric), NEW a \in Seq(Numeric), NEW b \in Seq(Numeric),
         NEW c \in Seq(Numeric), NEW d \in Seq(Numeric), NEW e \in Seq(Numeric),
         Len(a) = 1, Len(c) = 1, NEW x, x = x0 \o a \o b \o c \o d \o e, Has(s, 1, x)
  PROVE  Pieces(s, x0, a, b, c, d, e, x)
<1> DEFINE x1 == x0 \o a
           x2 == x1 \o b
           x3 == x2 \o c
           x4 == x3 \o d
           x5 == x4 \o e
<1>1. x1 \in Seq(Numeric) /\ Len(x1) = Len(x0) + Len(a)
  BY ConcatProperties
<1> HIDE DEF x1
<1>2. x2 \in Seq(Numeric) /\ Len(x2) = Len(x1) + Len(b)
  BY <1>1, ConcatProperties
<1> HIDE DEF x2
<1>3. x3 \in Seq(Numeric) /\ Len(x3) = Len(x2) + Len(c)
  BY <1>2, ConcatProperties
<1> HIDE DEF x3
<1>4. x4 \in Seq(Numeric) /\ Len(x4) = Len(x3) + Len(d)
  BY <1>3, ConcatProperties
<1> HIDE DEF x4
<1>5. x5 \in Seq(Numeric) /\ Len(x5) = Len(x4) + Len(e)
  BY <1>4, ConcatProperties
<1>6. Has(s, 1, x4) /\ Has(s, 1 + Len(x4), e)
  <2>1. Has(s, 1, x4 \o e)
    BY DEF x1, x2, x3, x4
  <2> QED BY <1>4, <2>1, HasLast
<1>7. Has(s, 1, x3) /\ Has(s, 1 + Len(x3), d)
  <2>1. Has(s, 1, x3 \o d)
    BY <1>6 DEF x4
  <2> QED BY <1>3, <2>1, HasLast
<1>8. Has(s, 1, x2) /\ Has(s, 1 + Len(x2), c)
  <2>1. Has(s, 1, x2 \o c)
    BY <1>7 DEF x3
  <2> QED BY <1>2, <2>1, HasLast
<1>9. Has(s, 1, x1) /\ Has(s, 1 + Len(x1), b)
  <2>1. Has(s, 1, x1 \o b)
    BY <1>8 DEF x2
  <2> QED BY <1>1, <2>1, HasLast
<1>10. Has(s, 1, x0) /\ Has(s, 1 + Len(x0), a)
  <2>1. Has(s, 1, x0 \o a)
    BY <1>9 DEF x1
  <2> QED BY <2>1, HasLast
<1>11. Len(x0) \in Nat /\ Len(b) \in Nat /\ Len(d) \in Nat /\ Len(e) \in Nat
  OBVIOUS
<1> DEFINE p == 1 + Len(x0)
<1>12. /\ 1 + Len(x1) = p + 1 /\ 1 + Len(x2) = p + 1 + Len(b)
       /\ 1 + Len(x3) = p + 1 + Len(b) + 1 /\ 1 + Len(x4) = p + 1 + Len(b) + 1 + Len(d)
       /\ 1 + Len(x5) = p + 1 + Len(b) + 1 + Len(d) + Len(e) /\ p \in Nat
  <2> HIDE DEF x5
  <2> QED BY <1>1, <1>2, <1>3, <1>4, <1>5, <1>11
<1>13. x5 = x0 \o a \o b \o c \o d \o e
  BY DEF x1, x2, x3, x4
<1> HIDE DEF x5
<1>14. /\ Has(s, 1, x0) /\ Has(s, p, a) /\ Has(s, p + 1, b) /\ Has(s, p + 1 + Len(b), c)
       /\ Has(s, p + 1 + Len(b) + 1, d) /\ Has(s, p + 1 + Len(b) + 1 + Len(d), e)
  BY <1>6, <1>7, <1>8, <1>9, <1>10, <1>12
<1>15. x5 \in Seq(Numeric) /\ 1 + Len(x5) = p + 1 + Len(b) + 1 + Len(d) + Len(e)
  BY <1>5, <1>12
<1> QED BY <1>11, <1>12, <1>13, <1>14, <1>15 DEF Pieces

\* Data that stand behind the filling are found there.
LEMMA Aligned ==
  ASSUME NEW x \in Seq(Numeric), NEW f, NEW d, d = Append(Align(x), f)
  PROVE  Has(d, 1, x) /\ Has(d, AlignAt(d, 1 + Len(x)), <<f>>)
<1> DEFINE pad == Field(8 - (Bits(x) % 8), 0)
           S == Numeric \cup {pad, f}
           n == Len(x)
           full == Bits(x) % 8 = 0
           y == IF full THEN x ELSE Append(x, pad)
<1>1. Align(x) = y
  BY DEF Align
<1> HIDE DEF pad, full
<1>2. x \in Seq(S) /\ pad \in S /\ f \in S /\ n \in Nat
  BY DEF S
<1> HIDE DEF S
<1>3. /\ y \in Seq(S) /\ Len(y) = IF full THEN n ELSE n + 1
      /\ \A i \in 1..n : y[i] = x[i]
  BY <1>2
<1> HIDE DEF y
<1>4. /\ d \in Seq(S) /\ Len(d) = Len(y) + 1 /\ d[Len(y) + 1] = f
      /\ \A i \in 1..Len(y) : d[i] = y[i]
  BY <1>1, <1>2, <1>3
<1>5. Len(y) \in Nat /\ n <= Len(y)
  BY <1>2, <1>3
<1>6. \A i \in 1..n : i \in 1..Len(y) /\ d[i] = x[i]
  <2>1. \A i \in 1..n : i \in 1..Len(y)
    BY <1>2, <1>5
  <2> QED BY <1>3, <1>4, <2>1
<1>7. Has(d, 1, x)
  <2>1. 1 + n <= Len(d) + 1 /\ Len(d) \in Nat
    BY <1>2, <1>4, <1>5
  <2>2. \A i \in 1..n : 1 + i - 1 = i
    BY <1>2
  <2>3. \A i \in 1..n : d[1 + i - 1] = x[i]
    BY <1>6, <2>2
  <2>4. 1 \in Nat \ {0}
    OBVIOUS
  <2> QED BY <1>2, <2>1, <2>3, <2>4 DEF Has
<1>8. SubSeq(d, 1, n) = x
  <2> DEFINE u == SubSeq(d, 1, n)
  <2>1. n <= Len(d)
    BY <1>2, <1>4, <1>5
  <2>2. u \in Seq(S) /\ Len(u) = n /\ \A i \in 1..n : u[i] = d[i]
    BY <1>2, <1>4, <2>1
  <2> HIDE DEF u
  <2>3. u = x
    BY <1>2, <1>6, <2>2, SeqEqual
  <2> QED BY <2>3 DEF u
<1>9. AlignAt(d, 1 + n) = Len(y) + 1
  <2>1. (1 + n) - 1 = n /\ (1 + n) + 1 = n + 2
    BY <1>2
  <2>2. AlignAt(d, 1 + n) = IF full THEN 1 + n ELSE (1 + n) + 1
    BY <1>8, <2>1 DEF AlignAt, full
  <2>3. full => Len(y) + 1 = 1 + n
    BY <1>2, <1>3
  <2>4. ~full => Len(y) + 1 = (1 + n) + 1
    BY <1>2, <1>3
  <2> QED BY <2>2, <2>3, <2>4
<1>10. Has(d, Len(y) + 1, <<f>>)
  <2>1. Len(<<f>>) = 1 /\ <<f>>[1] = f
    OBVIOUS
  <2>2. /\ Len(y) + 1 \in Nat \ {0} /\ Len(d) \in Nat /\ (Len(y) + 1) + 1 <= Len(d) + 1
        /\ (Len(y) + 1) + 1 - 1 = Len(y) + 1
    BY <1>4, <1>5
  <2>3. \A i \in 1..1 : i = 1
    OBVIOUS
  <2> QED BY <1>4, <2>1, <2>2, <2>3 DEF Has
<1> QED BY <1>7, <1>9, <1>10

\* The packet is read as it was written.
LEMMA HasPacket ==
  ASSUME NEW x0 \in Seq(Numeric), NEW packet, Sendable(packet)
  PROVE  /\ ReadPacket(WritePacket(x0, packet), 1 + Len(x0)) = packet
         /\ Has(WritePacket(x0, packet), 1, x0)
<1> DEFINE w == WritePacket(x0, packet)
           num == packet.message_number
           rel == packet.rel
           ord == packet.ord
           split == packet.split_packet_info
           data == packet.data
           n == 8 * data.len
           a == <<Field(32, num)>>
           b == RelFields(rel, ord)
           c == <<Bit(split # <<>>)>>
           d == PartFields(split)
           e == Compress(n, 2)
           f == Field(n, data)
           x == PacketFields(x0, packet)
           p == 1 + Len(x0)
<1>1. /\ num \in Nat /\ rel \in Range(RelNames) /\ ord \in Nat /\ split \in Parts
      /\ data \in DataType /\ (~HasOrd(rel) => ord = 0) /\ n < U16
      /\ packet = [message_number |-> num, rel |-> rel, ord |-> ord,
                   split_packet_info |-> split, data |-> data]
  BY DEF Sendable
<1>2. n \in Nat
  BY <1>1 DEF DataType
<1>3. w = Append(Align(x), f)
  BY WrittenFields
<1>4. x = x0 \o a \o b \o c \o d \o e
  BY DEF PacketFields
<1> HIDE DEF w, num, rel, ord, split, data, n, x
<1>5. /\ a \in Seq(Numeric) /\ Len(a) = 1 /\ c \in Seq(Numeric) /\ Len(c) = 1
  <2> DEFINE u == Field(32, num)
             v == Bit(split # <<>>)
  <2>1. u \in Numeric /\ v \in Numeric
    BY <1>1, FieldType
  <2> HIDE DEF u, v
  <2>2. <<u>> \in Seq(Numeric) /\ Len(<<u>>) = 1 /\ <<v>> \in Seq(Numeric) /\ Len(<<v>>) = 1
    BY <2>1
  <2> QED BY <2>2 DEF u, v
<1>6. b \in Seq(Numeric) /\ d \in Seq(Numeric) /\ e \in Seq(Numeric) /\ Len(e) = 3
  BY <1>1, <1>2, RelFieldsType, PartType, TwoType
<1> HIDE DEF a, b, c, d, e, f
<1>7. x \in Seq(Numeric)
  <2>1. x0 \o a \in Seq(Numeric)
    BY <1>5, ConcatProperties
  <2> DEFINE x1 == x0 \o a
             x2 == x1 \o b
             x3 == x2 \o c
             x4 == x3 \o d
  <2> HIDE DEF x1
  <2>2. x2 \in Seq(Numeric)
    BY <1>6, <2>1, ConcatProperties DEF x1
  <2> HIDE DEF x2
  <2>3. x3 \in Seq(Numeric)
    BY <1>5, <2>2, ConcatProperties
  <2> HIDE DEF x3
  <2>4. x4 \in Seq(Numeric)
    BY <1>6, <2>3, ConcatProperties
  <2> HIDE DEF x4
  <2>5. x4 \o e \in Seq(Numeric)
    BY <1>6, <2>4, ConcatProperties
  <2> QED BY <1>4, <2>5 DEF x1, x2, x3, x4
<1>8. Has(w, 1, x) /\ Has(w, AlignAt(w, 1 + Len(x)), <<f>>)
  BY <1>3, <1>7, Aligned
<1>9. /\ Has(w, 1, x0) /\ Has(w, p, a) /\ Has(w, p + 1, b) /\ Has(w, p + 1 + Len(b), c)
      /\ Has(w, p + 1 + Len(b) + 1, d) /\ Has(w, p + 1 + Len(b) + 1 + Len(d), e)
      /\ 1 + Len(x) = p + 1 + Len(b) + 1 + Len(d) + 3
      /\ p \in Nat /\ Len(b) \in Nat /\ Len(d) \in Nat
  <2>1. Pieces(w, x0, a, b, c, d, e, x)
    BY <1>4, <1>5, <1>6, <1>8, PacketPieces
  <2> QED BY <1>6, <2>1 DEF Pieces
<1> HIDE DEF p
<1>10. At(w, p, 32) = num
  BY <1>9, HasField DEF a
<1>11. RelAt(w, p + 1) = [rel |-> rel, ord |-> ord, at |-> p + 1 + Len(b)]
  BY <1>1, <1>9, HasRel DEF b
<1> DEFINE q == p + 1 + Len(b)
           r == q + 1 + Len(d)
<1>12. /\ split = <<>> => At(w, q, 1) = 0
       /\ split # <<>> => At(w, q, 1) = 1
  <2>1. CASE split = <<>>
    <3>1. c = <<Field(1, 0)>>
      BY <2>1, FieldType DEF c, Bit, Field
    <3> QED BY <1>9, <2>1, <3>1, HasField
  <2>2. CASE split # <<>>
    <3>1. c = <<Field(1, 1)>>
      BY <2>2, FieldType DEF c, Bit, Field
    <3> QED BY <1>9, <2>2, <3>1, HasField
  <2> QED BY <2>1, <2>2
<1>13. split # <<>> => SplitAt(w, q + 1) = [info |-> split[1], at |-> r]
  <2> SUFFICES ASSUME split # <<>> PROVE SplitAt(w, q + 1) = [info |-> split[1], at |-> r]
    OBVIOUS
  <2>1. split[1] \in Infos /\ d = SplitFields(split[1]) /\ Len(d) = 11
    BY <1>1, PartType DEF d
  <2>2. SplitAt(w, q + 1) = [info |-> split[1], at |-> (q + 1) + 11]
    BY <1>9, <2>1, HasSplit
  <2> QED BY <2>1, <2>2
<1>14. split = <<>> => r = q + 1
  <2> SUFFICES ASSUME split = <<>> PROVE r = q + 1
    OBVIOUS
  <2>1. Len(d) = 0
    BY <1>1, PartType DEF d
  <2> QED BY <1>9, <2>1
<1>15. Decompress(w, r, 2) = [val |-> n, at |-> r + 3]
  BY <1>1, <1>2, <1>9, DecompressTwo DEF e
<1>16. r + 3 = 1 + Len(x)
  BY <1>9
<1>17. 8 * (n \div 8) = n
  <2>1. data.len \in Nat
    BY <1>1 DEF DataType
  <2> QED BY <2>1, SMT DEF n
<1>18. DataAt(w, AlignAt(w, r + 3), n) = data
  BY <1>8, <1>16, HasField DEF f
<1> HIDE DEF q, r
<1>19. split # <<>> => split = <<split[1]>>
  BY <1>1, PartType
<1> DEFINE isSplit == At(w, q, 1) = 1
           length == Decompress(w, IF isSplit THEN SplitAt(w, q + 1).at ELSE q + 1, 2)
<1>20. isSplit <=> split # <<>>
  BY <1>12
<1>21. length = [val |-> n, at |-> r + 3]
  BY <1>13, <1>14, <1>15, <1>20
<1>22. (IF isSplit THEN <<SplitAt(w, q + 1).info>> ELSE <<>>) = split
  BY <1>13, <1>19, <1>20
<1>23. RelAt(w, p + 1).at = q /\ RelAt(w, p + 1).rel = rel /\ RelAt(w, p + 1).ord = ord
  BY <1>11 DEF q
<1>24. ReadPacket(w, p) =
         [message_number |-> At(w, p, 32), rel |-> rel, ord |-> ord,
          split_packet_info |-> IF isSplit THEN <<SplitAt(w, q + 1).info>> ELSE <<>>,
          data |-> DataAt(w, AlignAt(w, length.at), 8 * (length.val \div 8))]
  BY <1>23 DEF ReadPacket
<1>25. length.at = r + 3 /\ length.val = n
  BY <1>21
<1> HIDE DEF length, isSplit
<1>26. ReadPacket(w, p) = packet
  BY <1>1, <1>10, <1>17, <1>18, <1>22, <1>24, <1>25
<1> QED BY <1>9, <1>26 DEF w, p

-----------------------------------------------------------------------------
(* Datagrams *)

\* The reader of a datagram gets the ranges rs and the packet p.
Gives(w, rs, p) == ReadAcks(w).ranges = rs /\ ReadDatagram(w) = p

\* A datagram is read as it was written: whatever ranges write_acks and whatever packet
\* RaknetPacket::serialize put into it, handle_header and RaknetPacket::deserialize get them
\* back, and the reader of the acknowledgements stops where the writer did.
THEOREM DatagramRead ==
  ASSUME NEW rs \in Seq(AnyRange), Len(rs) < U16, NEW time \in Nat, NEW packet, Sendable(packet),
         NEW w, w = WritePacket(AckFields(rs, time) \o <<Bit(FALSE)>>, packet)
  PROVE  Gives(w, rs, packet) /\ ReadAcks(w).at = 1 + Len(AckFields(rs, time))
<1> DEFINE a == AckFields(rs, time)
           b == <<Bit(FALSE)>>
           x == a \o b
<1>1. a \in Seq(Numeric)
  BY AcksType
<1>2. b \in Seq(Numeric) /\ Len(b) = 1 /\ b = <<Field(1, 0)>>
  <2> DEFINE u == Bit(FALSE)
  <2>1. u \in Numeric /\ u = Field(1, 0)
    BY FieldType
  <2> HIDE DEF u
  <2>2. <<u>> \in Seq(Numeric) /\ Len(<<u>>) = 1
    BY <2>1
  <2> QED BY <2>1, <2>2 DEF u
<1> HIDE DEF a, b
<1>3. x \in Seq(Numeric) /\ Len(x) = Len(a) + Len(b) /\ Len(a) \in Nat
  BY <1>1, <1>2, ConcatProperties
<1>4. ReadPacket(w, 1 + Len(x)) = packet /\ Has(w, 1, x)
  <2>1. w = WritePacket(x, packet)
    BY DEF a, b
  <2> HIDE DEF x
  <2> QED BY <1>3, <2>1, HasPacket
<1>5. Has(w, 1, a) /\ Has(w, 1 + Len(a), b)
  BY <1>1, <1>2, <1>4, HasLast
<1>6. ReadAcks(w).ranges = rs /\ ReadAcks(w).at = 1 + Len(a)
  BY <1>5, HasAcks DEF a
<1>7. At(w, 1 + Len(a), 1) = 0
  BY <1>2, <1>5, HasField
<1>8. (1 + Len(a)) + 1 = 1 + Len(x)
  BY <1>2, <1>3
<1>9. ReadDatagram(w) = packet
  <2> DEFINE k == 1 + Len(a)
  <2>1. ReadAcks(w).at = k /\ At(w, k, 1) = 0 /\ ReadPacket(w, k + 1) = packet
    BY <1>4, <1>6, <1>7, <1>8
  <2> HIDE DEF k
  <2> QED BY <2>1 DEF ReadDatagram
<1> QED BY <1>6, <1>9 DEF a, Gives

\* The filling comes behind everything.
LEMMA AlignHas ==
  ASSUME NEW x \in Seq(Numeric)
  PROVE  Has(Align(x), 1, x)
<1> DEFINE pad == Field(8 - (Bits(x) % 8), 0)
           S == Numeric \cup {pad}
           n == Len(x)
           full == Bits(x) % 8 = 0
           y == IF full THEN x ELSE Append(x, pad)
<1>1. Align(x) = y
  BY DEF Align
<1> HIDE DEF pad, full
<1>2. x \in Seq(S) /\ pad \in S /\ n \in Nat
  BY DEF S
<1> HIDE DEF S
<1>3. Len(y) \in Nat /\ n <= Len(y) /\ \A i \in 1..n : y[i] = x[i]
  BY <1>2
<1> HIDE DEF y
<1>4. Has(y, 1, x)
  <2>1. 1 + n <= Len(y) + 1
    BY <1>2, <1>3
  <2>2. \A i \in 1..n : 1 + i - 1 = i
    BY <1>2
  <2>3. \A i \in 1..n : y[1 + i - 1] = x[i]
    BY <1>3, <2>2
  <2>4. 1 \in Nat \ {0}
    OBVIOUS
  <2> QED BY <1>2, <1>3, <2>1, <2>3, <2>4 DEF Has
<1> QED BY <1>1, <1>4

\* Its reader gets the ranges rs.
Tells(w, rs) == ReadAcks(w).ranges = rs

\* A datagram with acknowledgements alone is read as it was written.
LEMMA AcksRead ==
  ASSUME NEW rs \in Seq(AnyRange), Len(rs) < U16, NEW time \in Nat,
         NEW w, w = Align(AckFields(rs, time))
  PROVE  Tells(w, rs) /\ ReadAcks(w).at = 1 + Len(AckFields(rs, time))
<1>1. AckFields(rs, time) \in Seq(Numeric)
  BY AcksType
<1>2. Has(w, 1, AckFields(rs, time))
  BY <1>1, AlignHas
<1> QED BY <1>2, HasAcks DEF Tells

-----------------------------------------------------------------------------
(* The number of bits *)

HasWidths(s) == Len(s) \in Nat /\ \A i \in 1..Len(s) : s[i].w \in Nat

Sums(f, s) ==
  f \in [0..Len(s) -> Nat] /\ f[0] = 0 /\ \A i \in 1..Len(s) : f[i] = f[i - 1] + s[i].w

LEMMA BitsDef ==
  ASSUME NEW s, HasWidths(s)
  PROVE  \E f : Sums(f, s) /\ Bits(s) = f[Len(s)]
<1> DEFINE N == Len(s)
           W(i) == s[i].w
           G(f) == [i \in 0..N |-> IF i = 0 THEN 0 ELSE f[i - 1] + W(i)]
           step == [i \in 1..N |-> [x \in Nat |-> x + W(i)]]
           Q == CHOOSE q : q = G(q)
<1>0. N \in Nat /\ \A i \in 1..N : W(i) \in Nat
  BY DEF HasWidths
<1>1. Bits(s) = Q[N]
  BY DEF Bits
<1> HIDE DEF W, N
<1>2. \A x \in Nat, i \in 1..N : x + W(i) \in Nat
  BY <1>0
<1>3. Steps(step, N, Nat)
  BY <1>2 DEF Steps
<1>4. PICK f : Follows(f, step, N, Nat, 0)
  <2> HIDE DEF step
  <2> QED BY <1>0, <1>3, RecursionExists
<1>5. f \in [0..N -> Nat] /\ f[0] = 0 /\ \A i \in 1..N : f[i] = f[i - 1] + W(i)
  <2>1. f \in [0..N -> Nat] /\ f[0] = 0 /\ \A i \in 1..N : f[i] = step[i][f[i - 1]]
    BY <1>4 DEF Follows
  <2>2. \A i \in 1..N : i - 1 \in 0..N
    BY <1>0
  <2> QED BY <2>1, <2>2
<1>6. f = G(f)
  <2>1. \A i \in 0..N : f[i] = G(f)[i]
    <3> TAKE i \in 0..N
    <3>1. CASE i = 0
      BY <1>5, <3>1
    <3>2. CASE i # 0
      <4>1. i \in 1..N
        BY <1>0, <3>2
      <4> QED BY <1>5, <3>2, <4>1
    <3> QED BY <3>1, <3>2
  <2> QED BY <1>5, <2>1
<1> HIDE DEF G
<1>7. Q = G(Q)
  BY <1>6
<1> HIDE DEF Q
<1>8. Q[0] = 0 /\ \A i \in 1..N : Q[i] = Q[i - 1] + W(i)
  <2>1. \A i \in 0..N : Q[i] = IF i = 0 THEN 0 ELSE Q[i - 1] + W(i)
    BY <1>7 DEF G
  <2>2. 0 \in 0..N /\ \A i \in 1..N : i \in 0..N /\ i # 0
    BY <1>0
  <2> QED BY <2>1, <2>2
<1> DEFINE T == {i \in Nat : i <= N => Q[i] = f[i]}
<1>9. 0 \in T
  BY <1>5, <1>8
<1>10. ASSUME NEW i \in Nat, i \in T PROVE i + 1 \in T
  <2>1. ASSUME i + 1 <= N PROVE Q[i + 1] = f[i + 1]
    <3>1. i + 1 \in 1..N /\ (i + 1) - 1 = i /\ i <= N
      BY <1>0, <2>1
    <3>2. Q[i] = f[i]
      BY <1>10, <3>1
    <3> QED BY <1>5, <1>8, <3>1, <3>2
  <2> QED BY <2>1
<1>11. Q[N] = f[N]
  <2> HIDE DEF T
  <2>1. Nat \subseteq T
    BY <1>9, <1>10, SetInduction
  <2> QED BY <1>0, <2>1 DEF T
<1>12. Sums(f, s)
  BY <1>5 DEF Sums, N, W
<1> QED BY <1>1, <1>11, <1>12 DEF N

\* Equal fields make equal sums, wherever they are.
LEMMA SumsShift ==
  ASSUME NEW z, NEW y, HasWidths(z), HasWidths(y), NEW h, Sums(h, z), NEW g, Sums(g, y),
         NEW k \in Nat, k + Len(y) <= Len(z), \A j \in 1..Len(y) : z[k + j].w = y[j].w
  PROVE  h[k + Len(y)] = h[k] + g[Len(y)]
<1> DEFINE N == Len(y)
           T == {j \in Nat : j <= N => h[k + j] = h[k] + g[j]}
<1>0. N \in Nat /\ Len(z) \in Nat /\ \A j \in 1..N : y[j].w \in Nat
  BY DEF HasWidths
<1>1. /\ h \in [0..Len(z) -> Nat] /\ \A i \in 1..Len(z) : h[i] = h[i - 1] + z[i].w
      /\ g \in [0..N -> Nat] /\ g[0] = 0 /\ \A i \in 1..N : g[i] = g[i - 1] + y[i].w
  BY DEF Sums
<1> HIDE DEF N
<1>2. k \in 0..Len(z) /\ h[k] \in Nat
  <2>1. k \in 0..Len(z)
    BY <1>0 DEF N
  <2> QED BY <1>1, <2>1
<1>3. 0 \in T
  <2>1. k + 0 = k /\ h[k] + 0 = h[k]
    BY <1>2
  <2> QED BY <1>1, <2>1
<1>4. ASSUME NEW j \in Nat, j \in T PROVE j + 1 \in T
  <2>1. ASSUME j + 1 <= N PROVE h[k + (j + 1)] = h[k] + g[j + 1]
    <3>1. /\ j + 1 \in 1..N /\ (j + 1) - 1 = j /\ j <= N /\ k + (j + 1) \in 1..Len(z)
          /\ (k + (j + 1)) - 1 = k + j /\ j \in 0..N
      BY <1>0, <2>1 DEF N
    <3>2. h[k + j] = h[k] + g[j]
      BY <1>4, <3>1
    <3> DEFINE u == y[j + 1].w
    <3>3. u \in Nat /\ z[k + (j + 1)].w = u
      BY <1>0, <3>1 DEF N
    <3> HIDE DEF u
    <3>4. h[k + (j + 1)] = h[k + j] + u /\ g[j + 1] = g[j] + u /\ g[j] \in Nat
      BY <1>1, <3>1, <3>3 DEF u
    <3> QED BY <1>2, <3>2, <3>3, <3>4
  <2> QED BY <2>1
<1>5. Nat \subseteq T
  <2> HIDE DEF T
  <2> QED BY <1>3, <1>4, SetInduction
<1> QED BY <1>0, <1>5 DEF N

LEMMA BitsType ==
  ASSUME NEW s, HasWidths(s)
  PROVE  Bits(s) \in Nat
<1>1. PICK f : Sums(f, s) /\ Bits(s) = f[Len(s)]
  BY BitsDef
<1>2. Len(s) \in Nat /\ f \in [0..Len(s) -> Nat]
  BY <1>1 DEF Sums, HasWidths
<1>3. Len(s) \in 0..Len(s)
  BY <1>2
<1> QED BY <1>1, <1>2, <1>3

\* The bits of two pieces.
LEMMA BitsConcat ==
  ASSUME NEW S, \A e \in S : e.w \in Nat, NEW x \in Seq(S), NEW y \in Seq(S)
  PROVE  /\ HasWidths(x) /\ HasWidths(y) /\ HasWidths(x \o y)
         /\ Bits(x \o y) = Bits(x) + Bits(y) /\ Bits(x) \in Nat /\ Bits(y) \in Nat
<1> DEFINE z == x \o y
           k == Len(x)
           n == Len(y)
<1>1. /\ z \in Seq(S) /\ Len(z) = k + n /\ k \in Nat /\ n \in Nat
      /\ \A i \in 1..k : z[i] = x[i]
      /\ \A j \in 1..n : z[k + j] = y[j]
  <2>1. z \in Seq(S) /\ Len(z) = k + n
    BY ConcatProperties
  <2>2. k \in Nat /\ n \in Nat
    OBVIOUS
  <2>3. \A i \in 1..k + n : z[i] = IF i <= k THEN x[i] ELSE y[i - k]
    OBVIOUS
  <2> HIDE DEF k, n, z
  <2>4. ASSUME NEW i \in 1..k PROVE z[i] = x[i]
    <3>1. i \in 1..k + n /\ i <= k
      BY <2>2
    <3> QED BY <2>3, <3>1
  <2>5. ASSUME NEW j \in 1..n PROVE z[k + j] = y[j]
    <3>1. k + j \in 1..k + n /\ ~(k + j <= k) /\ (k + j) - k = j
      BY <2>2
    <3> QED BY <2>3, <3>1
  <2> QED BY <2>1, <2>2, <2>4, <2>5
<1> HIDE DEF z
<1>2. ASSUME NEW t \in Seq(S) PROVE HasWidths(t)
  <2>1. Len(t) \in Nat /\ \A i \in 1..Len(t) : t[i] \in S
    OBVIOUS
  <2> QED BY <2>1 DEF HasWidths
<1>3. HasWidths(x) /\ HasWidths(y) /\ HasWidths(z)
  BY <1>1, <1>2
<1>4. PICK h : Sums(h, z) /\ Bits(z) = h[Len(z)]
  BY <1>3, BitsDef
<1>5. PICK f : Sums(f, x) /\ Bits(x) = f[k]
  BY <1>3, BitsDef
<1>6. PICK g : Sums(g, y) /\ Bits(y) = g[n]
  BY <1>3, BitsDef
<1>7. Bits(x) \in Nat /\ Bits(y) \in Nat
  BY <1>3, BitsType
<1>8. h[k] = Bits(x)
  <2>1. 0 \in Nat /\ 0 + k <= Len(z) /\ 0 + k = k /\ \A j \in 1..k : 0 + j = j
    BY <1>1
  <2>2. \A j \in 1..k : z[0 + j].w = x[j].w
    BY <1>1, <2>1
  <2>3. h[0 + k] = h[0] + f[k]
    BY <1>3, <1>4, <1>5, <2>1, <2>2, SumsShift
  <2>4. h[0] = 0
    BY <1>4 DEF Sums
  <2> HIDE DEF k
  <2> QED BY <1>5, <1>7, <2>1, <2>3, <2>4
<1>9. h[k + n] = h[k] + Bits(y)
  <2>1. k + n <= Len(z) /\ k \in Nat
    BY <1>1
  <2>2. \A j \in 1..n : z[k + j].w = y[j].w
    BY <1>1
  <2> HIDE DEF k
  <2>3. h[k + n] = h[k] + g[n]
    BY <1>3, <1>4, <1>6, <2>1, <2>2, SumsShift
  <2> QED BY <1>6, <2>3
<1> QED BY <1>1, <1>3, <1>4, <1>7, <1>8, <1>9 DEF z

LEMMA BitsSmall ==
  ASSUME NEW S, \A e \in S : e.w \in Nat, NEW x \in Seq(S)
  PROVE  /\ HasWidths(x)
         /\ Len(x) = 0 => Bits(x) = 0
         /\ Len(x) = 1 => Bits(x) = x[1].w
         /\ Len(x) = 2 => Bits(x) = x[1].w + x[2].w
         /\ Len(x) = 3 => Bits(x) = x[1].w + x[2].w + x[3].w
<1>1. Len(x) \in Nat /\ \A i \in 1..Len(x) : x[i] \in S
  OBVIOUS
<1>2. HasWidths(x)
  BY <1>1 DEF HasWidths
<1>3. PICK f : Sums(f, x) /\ Bits(x) = f[Len(x)]
  BY <1>2, BitsDef
<1>4. /\ f[0] = 0 /\ \A i \in 1..Len(x) : f[i] = f[i - 1] + x[i].w
      /\ \A i \in 1..Len(x) : x[i].w \in Nat
  BY <1>2, <1>3 DEF Sums, HasWidths
<1>5. Len(x) = 1 => Bits(x) = x[1].w
  <2> SUFFICES ASSUME Len(x) = 1 PROVE Bits(x) = x[1].w
    OBVIOUS
  <2>1. 1 \in 1..1 /\ 1 - 1 = 0
    OBVIOUS
  <2>2. f[1] = f[0] + x[1].w /\ x[1].w \in Nat
    BY <1>4, <2>1
  <2> QED BY <1>3, <1>4, <2>2
<1>6. Len(x) = 2 => Bits(x) = x[1].w + x[2].w
  <2> SUFFICES ASSUME Len(x) = 2 PROVE Bits(x) = x[1].w + x[2].w
    OBVIOUS
  <2>1. 1 \in 1..2 /\ 1 - 1 = 0 /\ 2 \in 1..2 /\ 2 - 1 = 1
    OBVIOUS
  <2>2. f[1] = f[0] + x[1].w /\ x[1].w \in Nat /\ f[2] = f[1] + x[2].w /\ x[2].w \in Nat
    BY <1>4, <2>1
  <2> QED BY <1>3, <1>4, <2>2
<1>7. Len(x) = 3 => Bits(x) = x[1].w + x[2].w + x[3].w
  <2> SUFFICES ASSUME Len(x) = 3 PROVE Bits(x) = x[1].w + x[2].w + x[3].w
    OBVIOUS
  <2>1. 1 \in 1..3 /\ 1 - 1 = 0 /\ 2 \in 1..3 /\ 2 - 1 = 1 /\ 3 \in 1..3 /\ 3 - 1 = 2
    OBVIOUS
  <2>2. /\ f[1] = f[0] + x[1].w /\ x[1].w \in Nat /\ f[2] = f[1] + x[2].w /\ x[2].w \in Nat
        /\ f[3] = f[2] + x[3].w /\ x[3].w \in Nat
    BY <1>4, <2>1
  <2> QED BY <1>3, <1>4, <2>2
<1> QED BY <1>2, <1>3, <1>4, <1>5, <1>6, <1>7

\* Fields of numbers have a width.
LEMMA NumericWidth ==
  \A e \in Numeric : e.w \in Nat
BY DEF Numeric

LEMMA NumericBits ==
  ASSUME NEW x \in Seq(Numeric), NEW y \in Seq(Numeric)
  PROVE  Bits(x \o y) = Bits(x) + Bits(y) /\ Bits(x) \in Nat /\ Bits(y) \in Nat
BY NumericWidth, BitsConcat

LEMMA OnesBits ==
  Bits(Ones(0)) = 0 /\ Bits(Ones(1)) = 1 /\ Bits(Ones(3)) = 3
<1>1. ASSUME NEW k \in Nat, NEW i \in 1..k PROVE Ones(k)[i].w = 1
  BY DEF Ones, Bit, Field
<1>2. \A k \in Nat : Ones(k) \in Seq(Numeric) /\ Len(Ones(k)) = k
  BY OnesType
<1>3. Bits(Ones(0)) = 0
  BY <1>2, NumericWidth, BitsSmall
<1>4. Bits(Ones(1)) = 1
  <2>1. Ones(1)[1].w = 1
    BY <1>1
  <2>2. Bits(Ones(1)) = Ones(1)[1].w
    BY <1>2, NumericWidth, BitsSmall
  <2> QED BY <2>1, <2>2
<1>5. Bits(Ones(3)) = 3
  <2>1. Ones(3)[1].w = 1 /\ Ones(3)[2].w = 1 /\ Ones(3)[3].w = 1
    BY <1>1
  <2>2. Bits(Ones(3)) = Ones(3)[1].w + Ones(3)[2].w + Ones(3)[3].w
    BY <1>2, NumericWidth, BitsSmall
  <2> QED BY <2>1, <2>2
<1> QED BY <1>3, <1>4, <1>5

\* Single fields and pairs.
LEMMA TupleBits ==
  ASSUME NEW a \in Numeric, NEW b \in Numeric
  PROVE  Bits(<<a>>) = a.w /\ Bits(<<a, b>>) = a.w + b.w
<1>1. <<a>> \in Seq(Numeric) /\ Len(<<a>>) = 1 /\ <<a>>[1] = a
  OBVIOUS
<1>2. <<a, b>> \in Seq(Numeric) /\ Len(<<a, b>>) = 2 /\ <<a, b>>[1] = a /\ <<a, b>>[2] = b
  OBVIOUS
<1> DEFINE x == <<a>>
           y == <<a, b>>
<1> HIDE DEF x, y
<1>3. Bits(x) = x[1].w
  BY <1>1, NumericWidth, BitsSmall DEF x
<1>4. Bits(y) = y[1].w + y[2].w
  BY <1>2, NumericWidth, BitsSmall DEF y
<1> QED BY <1>1, <1>2, <1>3, <1>4 DEF x, y

LEMMA LowestBits ==
  ASSUME NEW n \in Nat, n < 256
  PROVE  Bits(Lowest(n)) \in Nat /\ Bits(Lowest(n)) <= 9
<1> DEFINE x == Lowest(n)
<1>1. x \in Seq(Numeric) /\ Len(x) = 2
  BY LowestType
<1>2. x[1].w = 1 /\ x[2].w \in {4, 8}
  BY DEF Lowest, Bit, Field
<1> HIDE DEF x
<1>3. Bits(x) = x[1].w + x[2].w
  BY <1>1, NumericWidth, BitsSmall
<1> QED BY <1>2, <1>3 DEF x

\* A compressed number takes at most so many bits.
LEMMA CompressBits ==
  /\ \A n \in Nat : n < U16 => Bits(Compress(n, 2)) \in Nat /\ Bits(Compress(n, 2)) <= 17
  /\ \A n \in Nat : n < 256 => Bits(Compress(n, 4)) \in Nat /\ Bits(Compress(n, 4)) <= 12
<1>1. ASSUME NEW n \in Nat, n < 256
      PROVE  /\ Bits(Compress(n, 2)) \in Nat /\ Bits(Compress(n, 2)) <= 17
             /\ Bits(Compress(n, 4)) \in Nat /\ Bits(Compress(n, 4)) <= 12
  <2> DEFINE l == Lowest(n)
             o == Ones(1)
             q == Ones(3)
  <2>1. l \in Seq(Numeric) /\ Bits(l) \in Nat /\ Bits(l) <= 9
    BY <1>1, LowestType, LowestBits
  <2>2. o \in Seq(Numeric) /\ q \in Seq(Numeric) /\ Bits(o) = 1 /\ Bits(q) = 3
    BY OnesType, OnesBits
  <2>3. 2 \in 1..4 /\ 4 \in 1..4 /\ 2 - 1 = 1 /\ 4 - 1 = 3
    OBVIOUS
  <2>4. Compress(n, 2) = o \o l
    <3>1. Compress(n, 2) = Ones(2 - 1) \o Lowest(n)
      BY <1>1, <2>3, CompressSmall
    <3> QED BY <2>3, <3>1
  <2>5. Compress(n, 4) = q \o l
    <3>1. Compress(n, 4) = Ones(4 - 1) \o Lowest(n)
      BY <1>1, <2>3, CompressSmall
    <3> QED BY <2>3, <3>1
  <2> HIDE DEF l, o, q
  <2>6. Bits(o \o l) = Bits(o) + Bits(l) /\ Bits(q \o l) = Bits(q) + Bits(l)
    BY <2>1, <2>2, NumericBits
  <2> DEFINE k == Bits(l)
  <2>7. Bits(Compress(n, 2)) = 1 + k /\ Bits(Compress(n, 4)) = 3 + k
    BY <2>2, <2>4, <2>5, <2>6
  <2>8. k \in Nat /\ k <= 9
    BY <2>1
  <2> HIDE DEF k
  <2>9. 1 + k \in Nat /\ 1 + k <= 17 /\ 3 + k \in Nat /\ 3 + k <= 12
    BY <2>8
  <2> QED BY <2>7, <2>9
<1>2. ASSUME NEW n \in Nat, n < U16, 256 <= n
      PROVE  Bits(Compress(n, 2)) \in Nat /\ Bits(Compress(n, 2)) <= 17
  <2> DEFINE a == Ones(0)
             b == <<Bit(FALSE)>>
             l == LowBytes(n, 2)
             bl == b \o l
  <2>1. IsThree(Compress(n, 2), a, b, l)
    BY <1>2, CompressLarge
  <2>2. Bits(a) = 0
    BY OnesBits
  <2>3. Bits(b) = 1
    <3> DEFINE u == Bit(FALSE)
    <3>1. u \in Numeric /\ u.w = 1
      BY FieldType DEF Bit, Field
    <3> HIDE DEF u
    <3>2. Bits(<<u>>) = 1
      BY <3>1, TupleBits
    <3> QED BY <3>2 DEF u
  <2>4. IsPair(l, Field(8, n % 256), Field(8, n \div 256))
    BY <1>2, LowBytesPair
  <2> HIDE DEF a, b, l
  <2>5. /\ a \in Seq(Numeric) /\ b \in Seq(Numeric) /\ l \in Seq(Numeric) /\ Len(l) = 2
        /\ bl \in Seq(Numeric) /\ Compress(n, 2) = a \o bl
    BY <2>1 DEF IsThree
  <2>6. l[1].w = 8 /\ l[2].w = 8
    BY <2>4 DEF IsPair, Field
  <2>7. Bits(l) = 16
    <3>1. Bits(l) = l[1].w + l[2].w
      BY <2>5, NumericWidth, BitsSmall
    <3> QED BY <2>6, <3>1
  <2>8. Bits(bl) = 17
    <3>1. Bits(bl) = Bits(b) + Bits(l)
      BY <2>5, NumericBits
    <3> QED BY <2>3, <2>7, <3>1
  <2> HIDE DEF bl
  <2>9. Bits(a \o bl) = Bits(a) + Bits(bl)
    BY <2>5, NumericBits
  <2>10. Bits(Compress(n, 2)) = 0 + 17
    BY <2>2, <2>5, <2>8, <2>9
  <2> HIDE DEF Compress
  <2> QED BY <2>10
<1>3. \A n \in Nat : n < 256 \/ 256 <= n
  OBVIOUS
<1> QED BY <1>1, <1>2, <1>3

LEMMA RelBits ==
  ASSUME NEW rel \in Range(RelNames), NEW ord \in Nat
  PROVE  Bits(RelFields(rel, ord)) = IF HasOrd(rel) THEN 40 ELSE 3
<1>1. PICK id \in 0..3 :
        /\ HasOrd(rel) => RelFields(rel, ord) = <<Field(3, id)>> \o <<Field(5, 0), Field(32, ord)>>
        /\ ~HasOrd(rel) => RelFields(rel, ord) = <<Field(3, id)>> \o <<>>
  BY RelFieldsType
<1> DEFINE a == Field(3, id)
           b == Field(5, 0)
           c == Field(32, ord)
<1>2. a \in Numeric /\ b \in Numeric /\ c \in Numeric
  BY FieldType
<1>3. a.w = 3 /\ b.w = 5 /\ c.w = 32
  BY DEF Field
<1> HIDE DEF a, b, c
<1> DEFINE x == <<a>>
           y == <<b, c>>
<1>4. x \in Seq(Numeric) /\ y \in Seq(Numeric) /\ <<>> \in Seq(Numeric) /\ Len(<<>>) = 0
  BY <1>2
<1>5. Bits(x) = 3
  BY <1>2, <1>3, TupleBits
<1>6. Bits(y) = 37
  <2>1. Bits(y) = b.w + c.w
    BY <1>2, TupleBits
  <2> QED BY <1>3, <2>1
<1>7. Bits(<<>>) = 0
  BY <1>4, NumericWidth, BitsSmall
<1>8. /\ HasOrd(rel) => RelFields(rel, ord) = x \o y
      /\ ~HasOrd(rel) => RelFields(rel, ord) = x \o <<>>
  BY <1>1 DEF a, b, c
<1> HIDE DEF x, y
<1>9. Bits(x \o y) = Bits(x) + Bits(y) /\ Bits(x \o <<>>) = Bits(x) + Bits(<<>>)
  BY <1>4, NumericBits
<1>10. Bits(x \o y) = 40 /\ Bits(x \o <<>>) = 3
  BY <1>5, <1>6, <1>7, <1>9
<1> QED BY <1>8, <1>10

LEMMA PartBits ==
  ASSUME NEW split \in Parts
  PROVE  /\ Bits(PartFields(split)) \in Nat
         /\ split = <<>> => Bits(PartFields(split)) = 0
         /\ split # <<>> => Bits(PartFields(split)) <= 40
<1>1. CASE split = <<>>
  <2>1. PartFields(split) = <<>>
    BY <1>1, PartType
  <2>2. <<>> \in Seq(Numeric) /\ Len(<<>>) = 0
    OBVIOUS
  <2>3. Bits(<<>>) = 0
    BY <2>2, NumericWidth, BitsSmall
  <2> QED BY <1>1, <2>1, <2>3
<1>2. CASE split # <<>>
  <2>1. PICK x \in Infos : PartFields(split) = SplitFields(x)
    BY <1>2, PartType
  <2> DEFINE a == Field(16, x.id)
             b == Compress(x.index, 4)
             c == Compress(x.count, 4)
             ab == <<a>> \o b
  <2>2. /\ <<a>> \in Seq(Numeric) /\ b \in Seq(Numeric) /\ c \in Seq(Numeric) /\ ab \in Seq(Numeric)
    BY SplitType
  <2>3. x.id \in Nat /\ x.index \in Nat /\ x.index < 256 /\ x.count \in Nat /\ x.count < 256
    BY DEF Infos
  <2>4. Bits(b) \in Nat /\ Bits(b) <= 12 /\ Bits(c) \in Nat /\ Bits(c) <= 12
    BY <2>3, CompressBits
  <2>5. a \in Numeric /\ a.w = 16
    BY <2>3, FieldType DEF Field
  <2>6. SplitFields(x) = ab \o c
    BY DEF SplitFields
  <2> HIDE DEF a, b, c
  <2>7. Bits(<<a>>) = 16
    BY <2>5, TupleBits
  <2>8. Bits(ab) = Bits(<<a>>) + Bits(b)
    BY <2>2, NumericBits
  <2> HIDE DEF ab
  <2>9. Bits(ab \o c) = Bits(ab) + Bits(c)
    BY <2>2, NumericBits
  <2> DEFINE k == Bits(b)
             m == Bits(c)
  <2>10. Bits(PartFields(split)) = (16 + k) + m
    BY <2>1, <2>6, <2>7, <2>8, <2>9
  <2>11. k \in Nat /\ k <= 12 /\ m \in Nat /\ m <= 12
    BY <2>4
  <2> HIDE DEF k, m
  <2>12. (16 + k) + m \in Nat /\ (16 + k) + m <= 40
    BY <2>11
  <2> QED BY <1>2, <2>10, <2>12
<1> QED BY <1>1, <1>2

\* Filling up the last byte takes at most seven bits.
LEMMA AlignBits ==
  ASSUME NEW x \in Seq(Numeric)
  PROVE  Align(x) \in Seq(Numeric) /\ Bits(Align(x)) \in Nat /\ Bits(Align(x)) <= Bits(x) + 7
<1> DEFINE k == Bits(x)
           pad == Field(8 - (k % 8), 0)
<1>1. k \in Nat
  BY NumericBits
<1>2. Align(x) = IF k % 8 = 0 THEN x ELSE Append(x, pad)
  BY DEF Align
<1>3. 8 - (k % 8) \in Nat /\ (k % 8 # 0 => 8 - (k % 8) <= 7)
  <2> HIDE DEF k
  <2> QED BY <1>1, SMT
<1>4. pad \in Numeric /\ pad.w = 8 - (k % 8)
  BY <1>3, FieldType DEF Field
<1> HIDE DEF pad
<1>5. CASE k % 8 = 0
  <2>1. Align(x) = x
    BY <1>2, <1>5
  <2>2. k <= k + 7
    BY <1>1
  <2> QED BY <1>1, <2>1, <2>2
<1>6. CASE k % 8 # 0
  <2>1. Align(x) = Append(x, pad) /\ Append(x, pad) = x \o <<pad>> /\ <<pad>> \in Seq(Numeric)
    BY <1>2, <1>4, <1>6
  <2>2. Align(x) \in Seq(Numeric)
    BY <1>4, <2>1
  <2>3. Bits(x \o <<pad>>) = Bits(x) + Bits(<<pad>>)
    BY <2>1, NumericBits
  <2>4. Bits(<<pad>>) = pad.w
    BY <1>4, TupleBits
  <2> DEFINE j == pad.w
  <2>5. Bits(Align(x)) = k + j
    BY <2>1, <2>3, <2>4
  <2>6. j \in Nat /\ j <= 7
    BY <1>3, <1>4, <1>6
  <2> HIDE DEF j, k
  <2>7. k + j \in Nat /\ k + j <= k + 7
    BY <1>1, <2>6
  <2> QED BY <2>2, <2>5, <2>7 DEF k
<1> QED BY <1>5, <1>6

\* The size of a datagram with a packet.
LEMMA DatagramBits ==
  ASSUME NEW x0 \in Seq(Numeric), NEW packet, Sendable(packet)
  PROVE  /\ \E S : WritePacket(x0, packet) \in Seq(S) /\ Numeric \subseteq S
         /\ Bits(WritePacket(x0, packet)) \in Nat /\ Bits(x0) \in Nat
         /\ Bits(WritePacket(x0, packet)) <=
              Bits(x0) + 32 + (IF HasOrd(packet.rel) THEN 40 ELSE 3) + 1
                + (IF packet.split_packet_info = <<>> THEN 0 ELSE 40) + 17 + 7 + 8 * packet.data.len
<1> DEFINE num == packet.message_number
           rel == packet.rel
           ord == packet.ord
           split == packet.split_packet_info
           data == packet.data
           n == 8 * data.len
           a == <<Field(32, num)>>
           b == RelFields(rel, ord)
           c == <<Bit(split # <<>>)>>
           d == PartFields(split)
           e == Compress(n, 2)
           f == Field(n, data)
           x == PacketFields(x0, packet)
           y == Align(x)
           R == IF HasOrd(rel) THEN 40 ELSE 3
           P == IF split = <<>> THEN 0 ELSE 40
<1>1. /\ num \in Nat /\ rel \in Range(RelNames) /\ ord \in Nat /\ split \in Parts
      /\ data \in DataType /\ n < U16
  BY DEF Sendable
<1>2. n \in Nat
  BY <1>1 DEF DataType
<1>3. WritePacket(x0, packet) = Append(y, f)
  BY WrittenFields
<1>4. x = x0 \o a \o b \o c \o d \o e
  BY DEF PacketFields
<1> HIDE DEF num, rel, ord, split, data, n, x
<1>5. a \in Seq(Numeric) /\ c \in Seq(Numeric) /\ Bits(a) = 32 /\ Bits(c) = 1
  <2> DEFINE u == Field(32, num)
             v == Bit(split # <<>>)
  <2>1. u \in Numeric /\ v \in Numeric /\ u.w = 32 /\ v.w = 1
    BY <1>1, FieldType DEF Field, Bit
  <2> HIDE DEF u, v
  <2>2. <<u>> \in Seq(Numeric) /\ <<v>> \in Seq(Numeric)
    BY <2>1
  <2>3. Bits(<<u>>) = 32 /\ Bits(<<v>>) = 1
    BY <2>1, TupleBits
  <2> QED BY <2>2, <2>3 DEF u, v
<1>6. /\ b \in Seq(Numeric) /\ d \in Seq(Numeric) /\ e \in Seq(Numeric)
  BY <1>1, <1>2, RelFieldsType, PartType, TwoType
<1>7. Bits(b) = R /\ R \in Nat
  BY <1>1, RelBits
<1>8. Bits(d) \in Nat /\ Bits(d) <= P /\ P \in Nat
  BY <1>1, PartBits
<1>9. Bits(e) \in Nat /\ Bits(e) <= 17
  BY <1>1, <1>2, CompressBits
<1> HIDE DEF a, b, c, d, e, R, P
<1>10. x \in Seq(Numeric) /\ Bits(x) = Bits(x0) + 32 + R + 1 + Bits(d) + Bits(e) /\ Bits(x0) \in Nat
  <2> DEFINE x1 == x0 \o a
             x2 == x1 \o b
             x3 == x2 \o c
             x4 == x3 \o d
             x5 == x4 \o e
  <2>1. x1 \in Seq(Numeric) /\ Bits(x1) = Bits(x0) + Bits(a) /\ Bits(x0) \in Nat
    BY <1>5, ConcatProperties, NumericBits
  <2> HIDE DEF x1
  <2>2. x2 \in Seq(Numeric) /\ Bits(x2) = Bits(x1) + Bits(b)
    BY <1>6, <2>1, ConcatProperties, NumericBits
  <2> HIDE DEF x2
  <2>3. x3 \in Seq(Numeric) /\ Bits(x3) = Bits(x2) + Bits(c)
    BY <1>5, <2>2, ConcatProperties, NumericBits
  <2> HIDE DEF x3
  <2>4. x4 \in Seq(Numeric) /\ Bits(x4) = Bits(x3) + Bits(d)
    BY <1>6, <2>3, ConcatProperties, NumericBits
  <2> HIDE DEF x4
  <2>5. x5 \in Seq(Numeric) /\ Bits(x5) = Bits(x4) + Bits(e)
    BY <1>6, <2>4, ConcatProperties, NumericBits
  <2>6. x = x5
    BY <1>4 DEF x1, x2, x3, x4
  <2> HIDE DEF x5
  <2>7. Bits(x5) = Bits(x0) + 32 + R + 1 + Bits(d) + Bits(e)
    BY <1>5, <1>7, <2>1, <2>2, <2>3, <2>4, <2>5
  <2> QED BY <2>1, <2>5, <2>6, <2>7
<1>11. y \in Seq(Numeric) /\ Bits(y) \in Nat /\ Bits(y) <= Bits(x) + 7
  BY <1>10, AlignBits
<1> HIDE DEF y
<1>12. /\ Bits(Append(y, f)) = Bits(y) + n
       /\ \E S : Append(y, f) \in Seq(S) /\ Numeric \subseteq S
  <2> DEFINE S == Numeric \cup {f}
  <2>1. f.w = n
    BY DEF Field
  <2>2. \A g \in S : g.w \in Nat
    BY <1>2, <2>1, NumericWidth
  <2> HIDE DEF f
  <2>3. y \in Seq(S) /\ f \in S
    BY <1>11
  <2>n. Numeric \subseteq S /\ Append(y, f) \in Seq(S)
    BY <2>3
  <2> HIDE DEF S
  <2>4. <<f>> \in Seq(S) /\ Len(<<f>>) = 1 /\ <<f>>[1] = f /\ Append(y, f) = y \o <<f>>
    BY <2>3
  <2> DEFINE t == <<f>>
  <2> HIDE DEF t
  <2>5. Bits(t) = n
    <3>1. Bits(t) = t[1].w
      BY <2>2, <2>4, BitsSmall DEF t
    <3> QED BY <2>1, <2>4, <3>1 DEF t
  <2>6. Bits(y \o t) = Bits(y) + Bits(t)
    BY <2>2, <2>3, <2>4, BitsConcat DEF t
  <2> QED BY <2>4, <2>5, <2>6, <2>n DEF t
<1> DEFINE k0 == Bits(x0)
           k1 == Bits(d)
           k2 == Bits(e)
           k3 == Bits(x)
           k4 == Bits(y)
<1>13. /\ k0 \in Nat /\ R \in Nat /\ k1 \in Nat /\ k1 <= P /\ P \in Nat /\ k2 \in Nat /\ k2 <= 17
       /\ k3 = k0 + 32 + R + 1 + k1 + k2 /\ k4 \in Nat /\ k4 <= k3 + 7 /\ n \in Nat
  BY <1>2, <1>7, <1>8, <1>9, <1>10, <1>11
<1> HIDE DEF k0, k1, k2, k3, k4
<1>14. k4 + n <= k0 + 32 + R + 1 + P + 17 + 7 + n
  BY <1>13
<1>15. k4 + n \in Nat
  BY <1>13
<1>16. /\ Bits(WritePacket(x0, packet)) <= Bits(x0) + 32 + R + 1 + P + 17 + 7 + n
       /\ Bits(WritePacket(x0, packet)) \in Nat /\ Bits(x0) \in Nat
  BY <1>3, <1>12, <1>13, <1>14, <1>15 DEF k0, k4
<1> QED BY <1>3, <1>12, <1>16 DEF R, P, n, rel, split, data

\* What a datagram begins with can be cut off.
LEMMA HasPrefix ==
  ASSUME NEW S, NEW w \in Seq(S), NEW x \in Seq(S), Has(w, 1, x)
  PROVE  SubSeq(w, 1, Len(x)) = x
<1> DEFINE n == Len(x)
           u == SubSeq(w, 1, n)
<1>1. n \in Nat /\ Len(w) \in Nat
  OBVIOUS
<1>2. 1 + n <= Len(w) + 1 /\ \A i \in 1..n : w[1 + i - 1] = x[i]
  BY DEF Has
<1>3. n <= Len(w) /\ \A i \in 1..n : 1 + i - 1 = i
  BY <1>1, <1>2
<1>4. \A i \in 1..n : w[i] = x[i]
  BY <1>2, <1>3
<1>5. u \in Seq(S) /\ Len(u) = n /\ \A i \in 1..n : u[i] = w[i]
  BY <1>1, <1>3
<1> HIDE DEF u
<1>6. u = x
  BY <1>4, <1>5, SeqEqual
<1> QED BY <1>6 DEF u
=============================================================================
