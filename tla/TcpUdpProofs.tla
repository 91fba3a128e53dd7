---------------------------- MODULE TcpUdpProofs ----------------------------
(***************************************************************************)
(* Proofs about TcpUdp: that sequenced datagrams are handed on in the      *)
(* order of their numbers, for every width of the numbers, the types, and  *)
(* that the stream of bytes implements the stream of messages of           *)
(* OrderedStream, for every width of bytes and lengths and any set of      *)
(* messages.                                                               *)
(***************************************************************************)
EXTENDS TcpUdp, Recursion, FiniteSetTheorems, SequenceTheorems

-----------------------------------------------------------------------------
(* Sequenced datagrams *)

\* The numbers on the wire are those that were meant, wrapped, at both ends; the
\* sender's are the numbers below the count of what it sent.
NumInv ==
  /\ IsFiniteSet(datagrams)
  /\ \A d \in Sequenced : d.num \in 0 .. Cardinality(Sequenced) - 1 /\ d.seq = Wrap(d.num)
  /\ seq_num_send = Wrap(Cardinality(Sequenced))
  /\ newest \in Nat /\ seq_num_recv = Wrap(newest)

-----------------------------------------------------------------------------
\* Quotient and remainder.
LEMMA WrapDivision ==
  ASSUME NEW a \in Int
  PROVE  /\ Wrap(a) \in 0 .. NumMod - 1
         /\ a \div NumMod \in Int
         /\ a = NumMod * (a \div NumMod) + Wrap(a)
BY WidthAssumption, SeqAssumption, SMT DEF Wrap

\* The remainder is unique.
LEMMA WrapUnique ==
  ASSUME NEW q \in Int, NEW r \in 0 .. NumMod - 1
  PROVE  Wrap(NumMod * q + r) = r
BY WidthAssumption, SeqAssumption, SMT DEF Wrap

\* Whole turns make no difference.
LEMMA WrapTurns ==
  ASSUME NEW a \in Int, NEW k \in Int
  PROVE  Wrap(NumMod * k + a) = Wrap(a)
<1> DEFINE q == a \div NumMod
           r == Wrap(a)
           m == k + q
<1>1. q \in Int /\ r \in 0 .. NumMod - 1 /\ a = NumMod * q + r /\ NumMod \in Int
  BY WrapDivision, WidthAssumption
<1> HIDE DEF q, r
<1>2. m \in Int /\ NumMod * k + a = NumMod * m + r
  BY <1>1, SMT
<1> HIDE DEF m
<1>3. Wrap(NumMod * m + r) = r
  BY <1>1, <1>2, WrapUnique
<1> QED BY <1>2, <1>3 DEF r

\* A wrapped number may be counted on, and wrapped again.
LEMMA WrapSum ==
  ASSUME NEW a \in Int, NEW b \in Int
  PROVE  Wrap(Wrap(a) + b) = Wrap(a + b)
<1> DEFINE q == a \div NumMod
           r == Wrap(a)
<1>1. q \in Int /\ r \in 0 .. NumMod - 1 /\ a = NumMod * q + r /\ NumMod \in Int
  BY WrapDivision, WidthAssumption
<1> HIDE DEF q, r
<1>2. a + b = NumMod * q + (r + b) /\ r + b \in Int
  BY <1>1
<1>3. Wrap(NumMod * q + (r + b)) = Wrap(r + b)
  BY <1>1, <1>2, WrapTurns
<1> QED BY <1>2, <1>3 DEF r

\* The wrapping difference of two wrapped numbers.
LEMMA WrapDifference ==
  ASSUME NEW a \in Int, NEW b \in Int
  PROVE  Wrap(Wrap(a) - Wrap(b)) = Wrap(a - b)
<1> DEFINE u == b \div NumMod
           v == Wrap(b)
<1>1. u \in Int /\ v \in 0 .. NumMod - 1 /\ b = NumMod * u + v /\ NumMod \in Int
  BY WrapDivision, WidthAssumption
<1> HIDE DEF u, v
<1>2. Wrap(Wrap(a) - v) = Wrap(a - v)
  <2>1. Wrap(Wrap(a) + (0 - v)) = Wrap(a + (0 - v))
    BY <1>1, WrapSum
  <2>2. /\ Wrap(a) \in Int /\ v \in Int
        /\ Wrap(a) + (0 - v) = Wrap(a) - v /\ a + (0 - v) = a - v
    BY <1>1, WrapDivision
  <2> QED BY <2>1, <2>2
<1>3. a - v = NumMod * u + (a - b) /\ a - b \in Int
  BY <1>1
<1> QED BY <1>1, <1>2, <1>3, WrapTurns DEF v

\* Within the horizon the window takes no number for new that is not.
LEMMA NewIsNew ==
  ASSUME NEW d, d.num \in Nat, newest \in Nat, seq_num_recv = Wrap(newest),
         d.seq = Wrap(d.num), InHorizon(d), IsNew(d.seq)
  PROVE  d.num >= newest
<1> DEFINE e == d.num - newest
<1>1. NumMod \in Nat /\ NumMod >= 4 /\ Half \in Nat /\ Half < NumMod
  BY WidthAssumption, SeqAssumption, SMT DEF Half
<1>2. e \in Int /\ e >= Half - NumMod
  BY <1>1 DEF InHorizon
<1>3. Wrap(e) < Half
  <2>1. d.num \in Int /\ newest \in Int
    OBVIOUS
  <2>2. Wrap(Wrap(d.num) - Wrap(newest)) = Wrap(e)
    BY <2>1, WrapDifference
  <2> QED BY <2>2 DEF IsNew
<1>4. ASSUME e < 0 PROVE FALSE
  <2>1. NumMod + e \in 0 .. NumMod - 1 /\ NumMod + e >= Half
    BY <1>1, <1>2, <1>4
  <2>2. Wrap(NumMod * 1 + e) = Wrap(e)
    BY <1>2, WrapTurns
  <2>3. Wrap(NumMod * 0 + (NumMod + e)) = NumMod + e
    BY <2>1, WrapUnique
  <2>4. NumMod * 1 + e = NumMod + e /\ NumMod * 0 + (NumMod + e) = NumMod + e
    BY <1>1, <1>2
  <2> HIDE DEF e
  <2> QED BY <1>1, <1>3, <2>1, <2>2, <2>3, <2>4
<1> QED BY <1>1, <1>2, <1>4

-----------------------------------------------------------------------------
LEMMA InitNumInv == Init => NumInv
<1> SUFFICES ASSUME Init PROVE NumInv
  OBVIOUS
<1>1. Sequenced = {}
  BY DEF Init, Sequenced
<1>2. IsFiniteSet(datagrams) /\ Cardinality(Sequenced) = 0
  BY <1>1, FS_EmptySet DEF Init
<1>3. Wrap(0) = 0
  BY WidthAssumption, SeqAssumption, SMT DEF Wrap
<1> QED BY <1>1, <1>2, <1>3 DEF Init, NumInv

\* What the numbers depend on.
numVars == <<datagrams, seq_num_send, seq_num_recv, newest>>

LEMMA NumStable == NumInv /\ UNCHANGED numVars => NumInv'
BY DEF NumInv, numVars, Sequenced

LEMMA SendSequencedKeeps ==
  ASSUME NumInv, NEW n \in Nat, SendSequenced(n)
  PROVE  NumInv'
<1> DEFINE d == [rel |-> "sequenced", seq |-> seq_num_send, num |-> n]
<1>1. datagrams' = datagrams \cup {d} /\ Sequenced' = Sequenced \cup {d}
  BY DEF SendSequenced, Sequenced
<1>2. IsFiniteSet(Sequenced) /\ IsFiniteSet(datagrams')
  BY <1>1, FS_Subset, FS_AddElement DEF NumInv, Sequenced
<1>3. d \notin Sequenced
  BY DEF NumInv, SendSequenced
<1>4. Cardinality(Sequenced') = Cardinality(Sequenced) + 1 /\ Cardinality(Sequenced) = n
  BY <1>1, <1>2, <1>3, FS_AddElement DEF SendSequenced
<1>5. seq_num_send = Wrap(n)
  BY <1>4 DEF NumInv
<1>6. seq_num_send' = Wrap(n + 1)
  BY <1>5, WrapSum DEF SendSequenced
<1>7. \A x \in Sequenced' : x.num \in 0 .. Cardinality(Sequenced') - 1 /\ x.seq = Wrap(x.num)
  BY <1>1, <1>4, <1>5 DEF NumInv
<1>8. newest' = newest /\ seq_num_recv' = seq_num_recv
  BY DEF SendSequenced, recvVars
<1> QED BY <1>2, <1>4, <1>6, <1>7, <1>8 DEF NumInv

LEMMA TakeSequencedKeeps ==
  ASSUME NumInv, NEW d \in datagrams, TakeSequenced(d)
  PROVE  NumInv' /\ d.num >= newest
<1>1. d \in Sequenced /\ d.num \in Nat /\ d.seq = Wrap(d.num)
  <2>1. d \in Sequenced
    BY DEF TakeSequenced, Sequenced
  <2> QED BY <2>1 DEF NumInv
<1>2. d.num >= newest
  BY <1>1, NewIsNew DEF TakeSequenced, NumInv
<1>3. newest' = d.num + 1 /\ seq_num_recv' = Wrap(d.num + 1)
  <2>1. d.num \in Int /\ 1 \in Int
    BY <1>1
  <2>2. Wrap(Wrap(d.num) + 1) = Wrap(d.num + 1)
    BY <2>1, WrapSum
  <2> QED BY <1>1, <2>2 DEF TakeSequenced
<1>4. UNCHANGED <<datagrams, seq_num_send>>
  BY DEF TakeSequenced, sendVars, netVars
<1> QED BY <1>1, <1>2, <1>3, <1>4 DEF NumInv, Sequenced

LEMMA SendUnreliableKeeps ==
  ASSUME NumInv, SendUnreliable
  PROVE  NumInv'
<1>1. Sequenced' = Sequenced
  BY DEF SendUnreliable, Sequenced
<1>2. IsFiniteSet(datagrams')
  BY FS_AddElement DEF NumInv, SendUnreliable
<1>3. UNCHANGED <<seq_num_send, seq_num_recv, newest>>
  BY DEF SendUnreliable, sendVars, recvVars
<1> QED BY <1>1, <1>2, <1>3 DEF NumInv

LEMMA StepNumInv ==
  ASSUME NumInv, [Next]_vars
  PROVE  NumInv'
<1>2. CASE SendUnreliable
  BY <1>2, SendUnreliableKeeps
<1>3. CASE \E n \in 0 .. MaxNum - 1 : SendSequenced(n)
  <2>1. PICK n \in Nat : SendSequenced(n)
    BY <1>3, BoundAssumption
  <2> QED BY <2>1, SendSequencedKeeps
<1>4. CASE \E d \in datagrams : TakeSequenced(d)
  BY <1>4, TakeSequencedKeeps
<1>5. CASE \E m \in Messages : SendReliable(m) \/ SendFailed(m)
  <2>1. UNCHANGED numVars
    BY <1>5 DEF SendReliable, SendFailed, numVars, sendVars, netVars, recvVars
  <2> QED BY <2>1, NumStable
<1>6. CASE Receive \/ ReceiveTcp
  <2>1. UNCHANGED numVars
    BY <1>6 DEF Receive, ReceiveTcp, ReadTcp, LengthRead, BodyRead, TcpWouldBlock, TcpFailed,
                ReceiveFails, numVars, sendVars, netVars, recvVars
  <2> QED BY <2>1, NumStable
<1>7. CASE \/ \E d \in datagrams : TakeUnreliable(d) \/ PassOver(d)
           \/ UdpWouldBlock \/ UdpFailed \/ UNCHANGED vars
  <2>1. UNCHANGED numVars
    BY <1>7 DEF TakeUnreliable, PassOver, UdpWouldBlock, UdpFailed, ReceiveFails,
                numVars, vars, sendVars, netVars, recvVars
  <2> QED BY <2>1, NumStable
<1> QED BY <1>2, <1>3, <1>4, <1>5, <1>6, <1>7 DEF Next, Send, ReceiveUdp

\* However sequenced datagrams are lost, duplicated and reordered within the
\* horizon, none is handed on after a newer one or a second time, whatever the
\* width of the numbers (tcpudp/mod.rs:121).
THEOREM NewestHandedOn == Spec => NewestOnly
<1>1. Init => NumInv
  BY InitNumInv
<1>2. NumInv /\ [Next]_vars => NumInv'
  BY StepNumInv
<1>3. NumInv => \A d \in datagrams : TakeSequenced(d) => d.num >= newest
  BY TakeSequencedKeeps
<1>4. NumInv /\ [Next]_vars => [\A d \in datagrams : TakeSequenced(d) => d.num >= newest]_vars
  BY <1>3
<1> QED BY <1>1, <1>2, <1>4, PTL DEF Spec, NewestOnly

-----------------------------------------------------------------------------
(* Lengths *)

\* The recursive definition of Quotients says what it means to say.
LEMMA QuotientsDef ==
  ASSUME NEW n \in Nat
  PROVE  /\ Quotients(n) \in [0..LenBytes -> Nat]
         /\ Quotients(n)[0] = n
         /\ \A i \in 1..LenBytes : Quotients(n)[i] = Quotients(n)[i - 1] \div Base
<1> DEFINE G(f) == [i \in 0..LenBytes |-> IF i = 0 THEN n ELSE f[i - 1] \div Base]
           step == [i \in 1..LenBytes |-> [x \in Nat |-> x \div Base]]
           Q == Quotients(n)
<1>0. Base \in Nat /\ Base > 1 /\ LenBytes \in Nat /\ \A x \in Nat : x \div Base \in Nat
  BY WidthAssumption, SMT
<1>1. step \in [1..LenBytes -> [Nat -> Nat]]
  BY <1>0
<1>2. PICK f : Follows(f, step, LenBytes, Nat, n)
  <2>1. Steps(step, LenBytes, Nat)
    BY <1>1 DEF Steps
  <2> HIDE DEF step
  <2> QED BY <1>0, <2>1, RecursionExists
<1>3. f = G(f)
  <2>1. ASSUME NEW i \in 0..LenBytes PROVE f[i] = G(f)[i]
    <3>1. CASE i = 0
      BY <1>2, <3>1 DEF Follows
    <3>2. CASE i # 0
      <4>1. i \in 1..LenBytes /\ i - 1 \in 0..LenBytes
        BY <1>0, <3>2
      <4>2. f[i] = step[i][f[i - 1]] /\ f[i - 1] \in Nat
        BY <1>2, <3>2, <4>1 DEF Follows
      <4> QED BY <3>2, <4>1, <4>2
    <3> QED BY <3>1, <3>2
  <2> QED BY <1>2, <2>1 DEF Follows
<1>4. Q = CHOOSE q : q = G(q)
  BY DEF Quotients
<1> HIDE DEF G
<1>5. Q = G(Q)
  BY <1>3, <1>4
<1> HIDE DEF Q
<1>6. /\ DOMAIN Q = 0..LenBytes /\ Q = [i \in 0..LenBytes |-> Q[i]] /\ Q[0] = n
      /\ \A i \in 1..LenBytes : Q[i] = Q[i - 1] \div Base
  <2>1. DOMAIN Q = 0..LenBytes /\ Q = [i \in 0..LenBytes |-> Q[i]]
    BY <1>5 DEF G
  <2>2. \A i \in 0..LenBytes : Q[i] = IF i = 0 THEN n ELSE Q[i - 1] \div Base
    BY <1>5 DEF G
  <2>3. 0 \in 0..LenBytes /\ \A i \in 1..LenBytes : i \in 0..LenBytes /\ i # 0
    BY <1>0
  <2> QED BY <2>1, <2>2, <2>3
<1> DEFINE T == {i \in Nat : i <= LenBytes => Q[i] \in Nat}
<1>7. Nat \subseteq T
  <2>1. 0 \in T
    BY <1>6
  <2>2. ASSUME NEW i \in Nat, i \in T PROVE i + 1 \in T
    <3> SUFFICES ASSUME i + 1 <= LenBytes PROVE Q[i + 1] \in Nat
      OBVIOUS
    <3>1. Q[i] \in Nat /\ i + 1 \in 1..LenBytes /\ (i + 1) - 1 = i
      BY <1>0, <2>2
    <3> QED BY <1>0, <1>6, <3>1
  <2> HIDE DEF T
  <2> QED BY <2>1, <2>2, SetInduction
<1>8. \A i \in 0..LenBytes : Q[i] \in Nat
  BY <1>0, <1>7
<1> QED BY <1>6, <1>8 DEF Q

\* The values of the last i bytes of bs, as FromBytes computes them.
Values(bs) ==
  LET v[i \in 0..LenBytes] ==
        IF i = 0 THEN 0 ELSE bs[LenBytes + 1 - i] + Base * v[i - 1]
  IN  v

LEMMA ValuesDef ==
  ASSUME NEW bs \in [1..LenBytes -> Bytes]
  PROVE  /\ Values(bs)[0] = 0
         /\ \A i \in 1..LenBytes :
              Values(bs)[i] = bs[LenBytes + 1 - i] + Base * Values(bs)[i - 1]
         /\ FromBytes(bs) = Values(bs)[LenBytes]
<1> DEFINE G(f) == [i \in 0..LenBytes |->
                      IF i = 0 THEN 0 ELSE bs[LenBytes + 1 - i] + Base * f[i - 1]]
           step == [i \in 1..LenBytes |-> [x \in Nat |-> bs[LenBytes + 1 - i] + Base * x]]
           V == Values(bs)
<1>0. Base \in Nat /\ LenBytes \in Nat /\ \A i \in 1..LenBytes : bs[LenBytes + 1 - i] \in Nat
  BY WidthAssumption DEF Bytes
<1>1. step \in [1..LenBytes -> [Nat -> Nat]]
  <2>1. ASSUME NEW i \in 1..LenBytes, NEW x \in Nat PROVE bs[LenBytes + 1 - i] + Base * x \in Nat
    <3>1. bs[LenBytes + 1 - i] \in Nat
      BY <1>0
    <3>2. \A y \in Nat : y + Base * x \in Nat
      BY <1>0
    <3> QED BY <3>1, <3>2
  <2> QED BY <2>1
<1>2. PICK f : Follows(f, step, LenBytes, Nat, 0)
  <2>1. Steps(step, LenBytes, Nat)
    BY <1>1 DEF Steps
  <2> HIDE DEF step
  <2> QED BY <1>0, <2>1, RecursionExists
<1>3. f = G(f)
  <2>1. ASSUME NEW i \in 0..LenBytes PROVE f[i] = G(f)[i]
    <3>1. CASE i = 0
      BY <1>2, <3>1 DEF Follows
    <3>2. CASE i # 0
      <4>1. i \in 1..LenBytes /\ i - 1 \in 0..LenBytes
        BY <1>0, <3>2
      <4>2. f[i] = step[i][f[i - 1]] /\ f[i - 1] \in Nat
        BY <1>2, <3>2, <4>1 DEF Follows
      <4> QED BY <3>2, <4>1, <4>2
    <3> QED BY <3>1, <3>2
  <2> QED BY <1>2, <2>1 DEF Follows
<1>4. V = (CHOOSE v : v = G(v)) /\ FromBytes(bs) = V[LenBytes]
  BY DEF Values, FromBytes
<1> HIDE DEF G
<1>5. V = G(V)
  BY <1>3, <1>4
<1> HIDE DEF V
<1>6. V[0] = 0 /\ \A i \in 1..LenBytes : V[i] = bs[LenBytes + 1 - i] + Base * V[i - 1]
  BY <1>0, <1>5 DEF G
<1> QED BY <1>4, <1>6 DEF V

\* Whatever bytes come, they are read as a length.
LEMMA FromBytesType ==
  ASSUME NEW bs \in [1..LenBytes -> Bytes]
  PROVE  FromBytes(bs) \in Nat
<1> DEFINE V == Values(bs)
           T == {i \in Nat : i <= LenBytes => V[i] \in Nat}
<1>0. Base \in Nat /\ LenBytes \in Nat /\ \A i \in 1..LenBytes : bs[LenBytes + 1 - i] \in Nat
  BY WidthAssumption DEF Bytes
<1>1. 0 \in T
  BY ValuesDef
<1>2. ASSUME NEW i \in Nat, i \in T PROVE i + 1 \in T
  <2> SUFFICES ASSUME i + 1 <= LenBytes PROVE V[i + 1] \in Nat
    OBVIOUS
  <2>1. V[i] \in Nat /\ i + 1 \in 1..LenBytes /\ (i + 1) - 1 = i
    BY <1>0, <1>2
  <2>2. V[i + 1] = bs[LenBytes + 1 - (i + 1)] + Base * V[i]
    BY <2>1, ValuesDef
  <2>3. bs[LenBytes + 1 - (i + 1)] \in Nat
    BY <1>0, <2>1
  <2> HIDE DEF V
  <2>4. \A x, y \in Nat : x + Base * y \in Nat
    BY <1>0
  <2> QED BY <2>1, <2>2, <2>3, <2>4
<1>3. Nat \subseteq T
  <2> HIDE DEF T
  <2> QED BY <1>1, <1>2, SetInduction
<1> QED BY <1>0, <1>3, ValuesDef

\* A length is written as bytes and read back as it was.
LEMMA LengthRoundTrip ==
  ASSUME NEW n \in Nat, Quotients(n)[LenBytes] = 0
  PROVE  LengthBytes(n) \in [1..LenBytes -> Bytes] /\ FromBytes(LengthBytes(n)) = n
<1> DEFINE Q == Quotients(n)
           bs == LengthBytes(n)
           V == Values(bs)
           T == {i \in Nat : i <= LenBytes => V[i] = Q[LenBytes - i]}
<1>0. Base \in Nat /\ Base > 1 /\ LenBytes \in Nat /\ \A i \in 0..LenBytes : Q[i] \in Nat
  BY WidthAssumption, QuotientsDef
<1>1. \A i \in 1..LenBytes : bs[i] = Q[i - 1] % Base
  BY DEF LengthBytes
<1>2. \A x \in Nat : x % Base \in Bytes /\ x = (x % Base) + Base * (x \div Base)
  BY <1>0, SMT DEF Bytes
<1>3. bs \in [1..LenBytes -> Bytes]
  <2>1. \A i \in 1..LenBytes : i - 1 \in 0..LenBytes
    BY <1>0
  <2> QED BY <1>0, <1>2, <2>1 DEF LengthBytes
<1> HIDE DEF bs, Q
<1>4. 0 \in T
  BY <1>0, <1>3, ValuesDef DEF Q
<1>5. ASSUME NEW i \in Nat, i \in T PROVE i + 1 \in T
  <2> SUFFICES ASSUME i + 1 <= LenBytes PROVE V[i + 1] = Q[LenBytes - (i + 1)]
    OBVIOUS
  <2> DEFINE k == LenBytes - (i + 1)
  <2>1. /\ k \in 0..LenBytes /\ k + 1 \in 1..LenBytes /\ LenBytes - i = k + 1 /\ (k + 1) - 1 = k
        /\ i + 1 \in 1..LenBytes /\ (i + 1) - 1 = i /\ LenBytes + 1 - (i + 1) = k + 1
    BY <1>0
  <2>2. V[i + 1] = bs[k + 1] + Base * V[i]
    BY ZenonT(60), <1>3, <2>1, ValuesDef
  <2>3. V[i] = Q[k + 1]
    <3>1. i <= LenBytes
      BY <1>0
    <3>2. V[i] = Q[LenBytes - i]
      BY <1>5, <3>1
    <3> QED BY <2>1, <3>2
  <2>4. bs[k + 1] = Q[k] % Base
    BY <1>1, <2>1
  <2>5. Q[k + 1] = Q[k] \div Base
    <3>1. \A j \in 1..LenBytes : Q[j] = Q[j - 1] \div Base
      BY QuotientsDef DEF Q
    <3> QED BY <2>1, <3>1
  <2>6. Q[k] \in Nat
    BY <1>0, <2>1
  <2> HIDE DEF k, V
  <2> QED BY <1>2, <2>2, <2>3, <2>4, <2>5, <2>6 DEF k
<1>6. Nat \subseteq T
  <2> HIDE DEF T
  <2> QED BY <1>4, <1>5, SetInduction
<1>7. V[LenBytes] = Q[0]
  BY <1>0, <1>6
<1>8. FromBytes(bs) = Q[0] /\ Q[0] = n
  BY <1>3, <1>7, ValuesDef, QuotientsDef DEF Q
<1> QED BY <1>3, <1>8 DEF bs

-----------------------------------------------------------------------------
(* Types *)

\* Any array of bytes that the length is read into is a sequence.
LEMMA LengthIsSeq ==
  ASSUME NEW len \in [1..LenBytes -> Bytes]
  PROVE  len \in Seq(Bytes) /\ Len(len) = LenBytes
BY WidthAssumption

\* What is written for a message.
LEMMA EncodedType ==
  ASSUME NEW m \in Messages
  PROVE  /\ m \in Seq(Bytes) /\ Len(m) \in Nat
         /\ LengthBytes(Len(m)) \in [1..LenBytes -> Bytes]
         /\ FromBytes(LengthBytes(Len(m))) = Len(m)
         /\ Encoded(m) \in Seq(Bytes) /\ Len(Encoded(m)) = LenBytes + Len(m)
         /\ \A x \in 1..LenBytes : Encoded(m)[x] = LengthBytes(Len(m))[x]
         /\ \A x \in 1..Len(m) : Encoded(m)[LenBytes + x] = m[x]
<1>1. m \in Seq(Bytes) /\ Len(m) \in Nat /\ Quotients(Len(m))[LenBytes] = 0
  BY MessageAssumption
<1> DEFINE b == LengthBytes(Len(m))
<1>2. b \in [1..LenBytes -> Bytes] /\ FromBytes(b) = Len(m)
  BY <1>1, LengthRoundTrip
<1>3. b \in Seq(Bytes) /\ Len(b) = LenBytes
  BY <1>2, LengthIsSeq
<1>4. Encoded(m) = b \o m
  BY DEF Encoded
<1> HIDE DEF b
<1>5. LenBytes \in Nat
  BY WidthAssumption
<1>6. /\ Encoded(m) \in Seq(Bytes) /\ Len(Encoded(m)) = LenBytes + Len(m)
      /\ \A x \in 1..LenBytes + Len(m) :
           Encoded(m)[x] = IF x <= LenBytes THEN b[x] ELSE m[x - LenBytes]
  BY <1>1, <1>3, <1>4, ConcatProperties
<1>7. \A x \in 1..LenBytes : x \in 1..LenBytes + Len(m) /\ x <= LenBytes
  BY <1>1, <1>5
<1>8. \A x \in 1..Len(m) : LenBytes + x \in 1..LenBytes + Len(m) /\ ~(LenBytes + x <= LenBytes)
                           /\ (LenBytes + x) - LenBytes = x
  BY <1>1, <1>5
<1> QED BY <1>1, <1>2, <1>6, <1>7, <1>8 DEF b

\* Reading into an array changes neither its length nor its type.
LEMMA FilledType ==
  ASSUME NEW buf \in Seq(Bytes), NEW off \in Nat, NEW bs \in Seq(Bytes)
  PROVE  /\ Filled(buf, off, bs) \in Seq(Bytes) /\ Len(Filled(buf, off, bs)) = Len(buf)
         /\ \A x \in 1..Len(buf) : Filled(buf, off, bs)[x] =
              IF x - off \in 1..Len(bs) THEN bs[x - off] ELSE buf[x]
<1>1. DOMAIN buf = 1..Len(buf) /\ DOMAIN bs = 1..Len(bs) /\ Len(buf) \in Nat
  OBVIOUS
<1>2. \A x \in 1..Len(buf) : (IF x - off \in 1..Len(bs) THEN bs[x - off] ELSE buf[x]) \in Bytes
  OBVIOUS
<1>3. Filled(buf, off, bs) =
        [x \in 1..Len(buf) |-> IF x - off \in 1..Len(bs) THEN bs[x - off] ELSE buf[x]]
  BY <1>1 DEF Filled
<1> QED BY <1>1, <1>2, <1>3

\* The array that is being filled.
LEMMA TargetType ==
  ASSUME TypeOK
  PROVE  /\ Target \in Seq(Bytes) /\ Len(Target) \in Nat /\ offset \in Nat /\ offset <= Len(Target)
         /\ length \in Seq(Bytes) /\ Len(length) = LenBytes
<1>1. length \in [1..LenBytes -> Bytes] /\ buffer \in Seq(Bytes) /\ offset \in 0..Len(Target)
  BY DEF TypeOK
<1>2. length \in Seq(Bytes) /\ Len(length) = LenBytes
  BY <1>1, LengthIsSeq
<1>3. Target \in Seq(Bytes)
  BY <1>1, <1>2 DEF Target
<1> QED BY <1>1, <1>2, <1>3

\* A read keeps the types.
LEMMA ReadTcpType ==
  ASSUME TypeOK, NEW n \in 1..Len(stream), ReadTcp(n)
  PROVE  TypeOK'
<1> DEFINE bs == SubSeq(stream, 1, n)
           target == Filled(Target, offset, bs)
<1>1. stream \in Seq(Bytes) /\ Len(stream) \in Nat /\ n \in Nat /\ n <= Len(Target) - offset
  BY DEF TypeOK, ReadTcp
<1>2. Target \in Seq(Bytes) /\ Len(Target) \in Nat /\ offset \in Nat
      /\ Len(length) = LenBytes /\ length \in Seq(Bytes)
  BY TargetType
<1>3. bs \in Seq(Bytes) /\ SubSeq(stream, n + 1, Len(stream)) \in Seq(Bytes)
  BY <1>1
<1> HIDE DEF bs
<1>4. target \in Seq(Bytes) /\ Len(target) = Len(Target)
  BY <1>2, <1>3, FilledType
<1>5. /\ stream' = SubSeq(stream, n + 1, Len(stream)) /\ offset' = offset + n
      /\ reading_length' = reading_length
      /\ IF reading_length THEN length' = target /\ buffer' = buffer
                           ELSE buffer' = target /\ length' = length
  BY DEF ReadTcp, bs
<1> HIDE DEF target
<1>6. offset' \in 0..Len(target)
  BY <1>1, <1>2, <1>4, <1>5
<1>7. CASE reading_length
  <2>1. Len(target) = LenBytes
    BY <1>2, <1>4, <1>7 DEF Target
  <2>2. target \in [1..LenBytes -> Bytes]
    BY <1>4, <2>1
  <2>3. length' = target /\ buffer' = buffer /\ Target' = target
    BY <1>5, <1>7 DEF Target
  <2> QED BY <1>3, <1>5, <1>6, <2>2, <2>3 DEF TypeOK, ReadTcp, sendVars
<1>8. CASE ~reading_length
  <2>1. buffer' = target /\ length' = length /\ Target' = target
    BY <1>5, <1>8 DEF Target
  <2> QED BY <1>3, <1>4, <1>5, <1>6, <2>1 DEF TypeOK, ReadTcp, sendVars
<1> QED BY <1>7, <1>8

\* A step keeps the types.
LEMMA StepType == TypeOK /\ [Next]_vars => TypeOK'
<1> SUFFICES ASSUME TypeOK, [Next]_vars PROVE TypeOK'
  OBVIOUS
<1>0. NumMod \in Nat /\ NumMod >= 4 /\ MaxNum \in Nat /\ MaxBatch \in Nat
  BY WidthAssumption, SeqAssumption, BoundAssumption
<1>t. Target' = Target \/ ~UNCHANGED bufferVars
  BY DEF Target, bufferVars
<1>1. CASE SendUnreliable
  <2>1. [rel |-> "unreliable", seq |-> 0, num |-> 0] \in
          [rel : {"unreliable", "sequenced"}, seq : 0 .. NumMod - 1, num : 0..MaxNum]
    BY <1>0
  <2> QED BY <1>1, <1>t, <2>1 DEF TypeOK, SendUnreliable, sendVars, recvVars, bufferVars
<1>2. CASE \E n \in 0 .. MaxNum - 1 : SendSequenced(n)
  <2>1. PICK n \in 0 .. MaxNum - 1 : SendSequenced(n)
    BY <1>2
  <2>2. [rel |-> "sequenced", seq |-> seq_num_send, num |-> n] \in
          [rel : {"unreliable", "sequenced"}, seq : 0 .. NumMod - 1, num : 0..MaxNum]
    BY <1>0 DEF TypeOK
  <2>3. Wrap(seq_num_send + 1) \in 0 .. NumMod - 1
    <3>1. seq_num_send + 1 \in Int
      BY <1>0 DEF TypeOK
    <3> QED BY <3>1, WrapDivision
  <2> QED BY <2>1, <1>t, <2>2, <2>3 DEF TypeOK, SendSequenced, recvVars, bufferVars
<1>3. CASE \E m \in Messages : SendReliable(m)
  <2>1. PICK m \in Messages : SendReliable(m)
    BY <1>3
  <2>2. stream' \in Seq(Bytes)
    BY <2>1, EncodedType DEF TypeOK, SendReliable
  <2>3. sent' \in Seq(Messages)
    BY <2>1 DEF TypeOK, SendReliable
  <2> QED BY <2>1, <1>t, <2>2, <2>3 DEF TypeOK, SendReliable, sendVars, recvVars, bufferVars
<1>4. CASE \E m \in Messages : SendFailed(m)
  <2>1. PICK m \in Messages : SendFailed(m)
    BY <1>4
  <2>2. PICK n \in 0 .. Len(Encoded(m)) - 1 : stream' = stream \o SubSeq(Encoded(m), 1, n)
    BY <2>1 DEF SendFailed
  <2>3. Encoded(m) \in Seq(Bytes) /\ stream \in Seq(Bytes)
    BY EncodedType DEF TypeOK
  <2>4. SubSeq(Encoded(m), 1, n) \in Seq(Bytes)
    <3>1. n \in Int /\ n <= Len(Encoded(m))
      BY <2>3
    <3> QED BY <2>3, <3>1, SubSeqProperties
  <2>5. stream' \in Seq(Bytes)
    BY <2>2, <2>3, <2>4
  <2> QED BY <2>1, <1>t, <2>5 DEF TypeOK, SendFailed, recvVars, bufferVars
<1>e. NoPackets \in [reliable : Seq(Seq(Bytes)), others : 0..MaxBatch]
  BY <1>0 DEF NoPackets
<1>5. CASE Receive \/ TcpWouldBlock \/ TcpFailed \/ UdpFailed
  BY <1>5, <1>t, <1>e DEF TypeOK, Receive, TcpWouldBlock, TcpFailed, UdpFailed, ReceiveFails,
                    sendVars, netVars, bufferVars
<1>6. CASE \E n \in 1..Len(stream) : ReadTcp(n)
  BY <1>6, ReadTcpType
<1>7. CASE LengthRead
  <2>1. Zeros(FromBytes(length)) \in Seq(Bytes)
    <3>1. FromBytes(length) \in Nat
      BY FromBytesType DEF TypeOK
    <3>2. 0 \in Bytes
      BY WidthAssumption DEF Bytes
    <3> QED BY <3>1, <3>2 DEF Zeros
  <2>2. buffer' \in Seq(Bytes) /\ Target' = buffer' /\ offset' = 0 /\ reading_length' = FALSE
    BY <1>7, <2>1 DEF LengthRead, Target
  <2>3. offset' \in 0..Len(Target')
    BY <2>2
  <2> QED BY <1>7, <2>2, <2>3 DEF TypeOK, LengthRead, sendVars, netVars
<1>p. packets.reliable \in Seq(Seq(Bytes)) /\ packets.others \in 0..MaxBatch
  BY DEF TypeOK
<1>8. CASE BodyRead
  <2>1. Target' = length /\ offset' = 0 /\ reading_length' = TRUE /\ buffer' = <<>>
    BY <1>8 DEF BodyRead, Target
  <2>2. offset' \in 0..Len(Target') /\ buffer' \in Seq(Bytes)
    BY <2>1, TargetType
  <2>3. packets' \in [reliable : Seq(Seq(Bytes)), others : 0..MaxBatch]
    <3> DEFINE D == Seq(Bytes)
    <3>1. packets \in [reliable : Seq(D), others : 0..MaxBatch] /\ buffer \in D
          /\ packets' = [packets EXCEPT !.reliable = Append(@, buffer)]
      BY <1>8 DEF TypeOK, BodyRead
    <3> HIDE DEF D
    <3>2. packets' \in [reliable : Seq(D), others : 0..MaxBatch]
      BY SMTT(40), <3>1
    <3> QED BY <3>2 DEF D
  <2> QED BY <1>8, <2>1, <2>2, <2>3 DEF TypeOK, BodyRead, sendVars, netVars
<1>9. ASSUME packets' = [packets EXCEPT !.others = @ + 1], Room
      PROVE  packets' \in [reliable : Seq(Seq(Bytes)), others : 0..MaxBatch]
  <2> DEFINE D == Seq(Seq(Bytes))
  <2>1. packets \in [reliable : D, others : 0..MaxBatch]
    BY DEF TypeOK
  <2> HIDE DEF D
  <2>2. packets' \in [reliable : D, others : 0..MaxBatch]
    BY <1>0, <1>9, <2>1 DEF Room
  <2> QED BY <2>2 DEF D
<1>10. CASE \E d \in datagrams : TakeUnreliable(d)
  <2>1. packets' \in [reliable : Seq(Seq(Bytes)), others : 0..MaxBatch]
    BY <1>9, <1>10 DEF TakeUnreliable
  <2> QED BY <1>10, <1>t, <2>1 DEF TypeOK, TakeUnreliable, sendVars, netVars, bufferVars
<1>11. CASE \E d \in datagrams : TakeSequenced(d)
  <2>1. PICK d \in datagrams : TakeSequenced(d)
    BY <1>11
  <2>2. d.seq \in 0 .. NumMod - 1 /\ d.num \in 0..MaxNum
    BY DEF TypeOK
  <2>3. newest' \in Nat /\ seq_num_recv' \in 0 .. NumMod - 1
    <3>1. d.seq + 1 \in Int /\ d.num + 1 \in Nat
      BY <1>0, <2>2
    <3> QED BY <2>1, <3>1, WrapDivision DEF TakeSequenced
  <2>4. packets' \in [reliable : Seq(Seq(Bytes)), others : 0..MaxBatch]
    BY <1>9, <2>1 DEF TakeSequenced
  <2> QED BY <2>1, <1>t, <2>3, <2>4 DEF TypeOK, TakeSequenced, sendVars, netVars, bufferVars
<1>12. CASE UdpWouldBlock
  <2>1. got' \in Seq(Seq(Bytes))
    <3> DEFINE D == Seq(Bytes)
    <3>1. got \in Seq(D) /\ packets.reliable \in Seq(D) /\ got' = got \o packets.reliable
      BY <1>12, <1>p DEF TypeOK, UdpWouldBlock
    <3> HIDE DEF D
    <3>2. got' \in Seq(D)
      BY <3>1
    <3> QED BY <3>2 DEF D
  <2> QED BY <1>12, <1>t, <1>e, <2>1 DEF TypeOK, UdpWouldBlock, sendVars, netVars, bufferVars
<1>13. CASE UNCHANGED vars
  BY <1>13, <1>t DEF TypeOK, vars, sendVars, netVars, recvVars, bufferVars
<1>14. CASE \E d \in datagrams : PassOver(d)
  BY <1>13, <1>14 DEF PassOver
<1> QED BY <1>1, <1>2, <1>3, <1>4, <1>5, <1>6, <1>7, <1>8, <1>10, <1>11, <1>12, <1>13, <1>14
        DEF Next, Send, ReceiveTcp, ReceiveUdp

\* The variables hold what the Rust types allow, whatever is read, and the
\* position in the array being read is never behind its end, so that the slices
\* of receive_tcp (tcpudp/mod.rs:137 and 148) do not panic.
THEOREM TypeCorrect == Spec => []TypeOK
<1>1. Init => TypeOK
  <2> SUFFICES ASSUME Init PROVE TypeOK
    OBVIOUS
  <2>1. NumMod \in Nat /\ NumMod >= 4 /\ MaxBatch \in Nat /\ LenBytes \in Nat /\ 0 \in Bytes
    BY WidthAssumption, SeqAssumption, BoundAssumption DEF Bytes
  <2>2. length \in [1..LenBytes -> Bytes]
    BY <2>1 DEF Init, Zeros
  <2>3. Target = length /\ Len(length) = LenBytes
    BY <2>2, LengthIsSeq DEF Init, Target
  <2>4. offset \in 0..Len(Target)
    BY <2>1, <2>3 DEF Init
  <2>5. packets \in [reliable : Seq(Seq(Bytes)), others : 0..MaxBatch]
    BY <2>1 DEF Init, NoPackets
  <2> QED BY <2>1, <2>2, <2>4, <2>5 DEF Init, TypeOK
<1> QED BY <1>1, StepType, PTL DEF Spec

-----------------------------------------------------------------------------
(* Bytes that are parsed as messages *)

\* w is what is there of the encodings of the messages ms after the k-th; pos[i]
\* is where the encoding of the i-th ends, counted from the first byte ever.
Parse(ms, pos, k, w) ==
  /\ ms \in Seq(Messages) /\ pos \in [0..Len(ms) -> Nat] /\ k \in 0..Len(ms)
  /\ \A i \in 1..Len(ms) : pos[i] = pos[i - 1] + Len(Encoded(ms[i]))
  /\ \A i \in 0..Len(ms) : pos[i] <= pos[Len(ms)]
  /\ w \in Seq(Bytes) /\ Len(w) <= pos[Len(ms)] - pos[k]
  /\ \A i \in 1..Len(ms) : \A x \in 1..Len(Encoded(ms[i])) :
       pos[i - 1] + x - pos[k] \in 1..Len(w) =>
         w[pos[i - 1] + x - pos[k]] = Encoded(ms[i])[x]

\* Bytes that hold a length, and as many more, hold the next message.
LEMMA ParseHead ==
  ASSUME NEW ms, NEW pos, NEW k, NEW w, Parse(ms, pos, k, w), LenBytes <= Len(w)
  PROVE  /\ k + 1 \in 1..Len(ms) /\ ms[k + 1] \in Messages
         /\ pos[k + 1] - pos[k] = LenBytes + Len(ms[k + 1])
         /\ \A x \in 1..LenBytes : w[x] = LengthBytes(Len(ms[k + 1]))[x]
         /\ LenBytes + Len(ms[k + 1]) <= Len(w) =>
              \A x \in 1..Len(ms[k + 1]) : w[LenBytes + x] = ms[k + 1][x]
<1>0. LenBytes \in Nat /\ LenBytes > 0 /\ Len(ms) \in Nat /\ Len(w) \in Nat
  BY WidthAssumption DEF Parse
<1>1. k + 1 \in 1..Len(ms) /\ k \in 0..Len(ms) /\ (k + 1) - 1 = k
  <2>1. k \in 0..Len(ms) /\ pos[k] \in Nat /\ Len(w) <= pos[Len(ms)] - pos[k]
    BY DEF Parse
  <2>2. k # Len(ms)
    BY <1>0, <2>1
  <2> QED BY <1>0, <2>1, <2>2
<1> DEFINE m == ms[k + 1]
<1>2. m \in Messages
  BY <1>1 DEF Parse
<1> HIDE DEF m
<1>3. /\ Len(m) \in Nat /\ Len(Encoded(m)) = LenBytes + Len(m)
      /\ \A x \in 1..LenBytes : Encoded(m)[x] = LengthBytes(Len(m))[x]
      /\ \A x \in 1..Len(m) : Encoded(m)[LenBytes + x] = m[x]
  BY <1>2, EncodedType
<1>4. pos[k] \in Nat /\ pos[k + 1] = pos[k] + Len(Encoded(m))
  <2>1. \A i \in 1..Len(ms) : pos[i] = pos[i - 1] + Len(Encoded(ms[i]))
    BY DEF Parse
  <2>2. pos[k] \in Nat
    BY <1>1 DEF Parse
  <2> QED BY <1>1, <2>1, <2>2 DEF m
<1>5. ASSUME NEW x \in 1..LenBytes + Len(m), x <= Len(w)
      PROVE  w[x] = Encoded(m)[x]
  <2>1. \A i \in 1..Len(ms) : \A y \in 1..Len(Encoded(ms[i])) :
          pos[i - 1] + y - pos[k] \in 1..Len(w) =>
            w[pos[i - 1] + y - pos[k]] = Encoded(ms[i])[y]
    BY DEF Parse
  <2>2. pos[k] + x - pos[k] \in 1..Len(w) => w[pos[k] + x - pos[k]] = Encoded(m)[x]
    BY <1>1, <1>3, <2>1 DEF m
  <2>3. pos[k] + x - pos[k] = x /\ x \in 1..Len(w)
    BY <1>0, <1>3, <1>4, <1>5
  <2> QED BY <2>2, <2>3
<1>6. ASSUME NEW x \in 1..LenBytes PROVE w[x] = LengthBytes(Len(m))[x]
  <2>1. x \in 1..LenBytes + Len(m) /\ x <= Len(w)
    BY <1>0, <1>3
  <2> QED BY <1>3, <1>5, <2>1
<1>7. ASSUME LenBytes + Len(m) <= Len(w), NEW x \in 1..Len(m) PROVE w[LenBytes + x] = m[x]
  <2>1. LenBytes + x \in 1..LenBytes + Len(m) /\ LenBytes + x <= Len(w)
    BY <1>0, <1>3, <1>7
  <2> QED BY <1>3, <1>5, <2>1
<1>8. pos[k + 1] - pos[k] = LenBytes + Len(m)
  BY <1>0, <1>3, <1>4
<1> QED BY <1>1, <1>2, <1>6, <1>7, <1>8 DEF m

\* v is w without its first d bytes.
Rest(w, v, d) ==
  v \in Seq(Bytes) /\ d \in Nat /\ Len(w) = d + Len(v) /\ \A x \in 1..Len(v) : v[x] = w[d + x]

\* When a message is taken off the rest is parsed from the next one on.
LEMMA ParseDrop ==
  ASSUME NEW ms, NEW pos, NEW k, NEW w, Parse(ms, pos, k, w),
         k + 1 \in 1..Len(ms), NEW v, Rest(w, v, pos[k + 1] - pos[k])
  PROVE  Parse(ms, pos, k + 1, v)
<1>1. /\ ms \in Seq(Messages) /\ pos \in [0..Len(ms) -> Nat] /\ k \in 0..Len(ms)
      /\ \A i \in 1..Len(ms) : pos[i] = pos[i - 1] + Len(Encoded(ms[i]))
      /\ \A i \in 0..Len(ms) : pos[i] <= pos[Len(ms)]
      /\ w \in Seq(Bytes) /\ Len(w) <= pos[Len(ms)] - pos[k]
  BY DEF Parse
<1>2. k + 1 \in 0..Len(ms) /\ Len(ms) \in 0..Len(ms)
  BY <1>1
<1>3. \A i \in 0..Len(ms) : pos[i] \in Nat
  BY <1>1
<1> DEFINE B == pos[k]
           C == pos[k + 1]
           D == C - B
<1>d. /\ B \in Nat /\ C \in Nat /\ pos[Len(ms)] \in Nat
      /\ D \in Nat /\ v \in Seq(Bytes) /\ Len(v) \in Nat /\ Len(w) = D + Len(v)
      /\ \A x \in 1..Len(v) : v[x] = w[D + x]
  <2>1. B \in Nat /\ C \in Nat /\ pos[Len(ms)] \in Nat
    BY <1>2, <1>3, <1>1
  <2>2. Rest(w, v, D)
    OBVIOUS
  <2> HIDE DEF B, C, D
  <2> QED BY <2>1, <2>2 DEF Rest
<1> HIDE DEF B, C
<1>4. Len(v) <= pos[Len(ms)] - C
  <2>1. Len(w) <= pos[Len(ms)] - B
    BY <1>1 DEF B
  <2> QED BY <1>d, <2>1
<1>5. ASSUME NEW i \in 1..Len(ms), NEW x \in 1..Len(Encoded(ms[i])),
             pos[i - 1] + x - pos[k + 1] \in 1..Len(v)
      PROVE  v[pos[i - 1] + x - pos[k + 1]] = Encoded(ms[i])[x]
  <2>1. pos[i - 1] \in Nat /\ x \in Int
    <3>1. i - 1 \in 0..Len(ms)
      BY <1>1
    <3> QED BY <1>3, <3>1
  <2> DEFINE A == pos[i - 1]
             y == A + x - C
             z == A + x - B
  <2>2. z = D + y /\ z \in 1..Len(w) /\ y \in 1..Len(v)
    <3>0. A \in Nat /\ y \in 1..Len(v)
      BY <1>5, <2>1 DEF C
    <3> HIDE DEF A
    <3>1. z = D + y
      BY <1>d, <2>1, <3>0
    <3> HIDE DEF y, z, D
    <3> QED BY <1>d, <3>0, <3>1
  <2>3. w[z] = Encoded(ms[i])[x]
    <3>1. \A j \in 1..Len(ms) : \A u \in 1..Len(Encoded(ms[j])) :
            pos[j - 1] + u - pos[k] \in 1..Len(w) =>
              w[pos[j - 1] + u - pos[k]] = Encoded(ms[j])[u]
      BY DEF Parse
    <3> QED BY <2>2, <3>1 DEF B
  <2> HIDE DEF y, z
  <2>4. v[y] = w[z]
    BY <1>d, <2>2
  <2> QED BY <2>3, <2>4 DEF y, C
<1> QED BY <1>1, <1>2, <1>d, <1>4, <1>5 DEF Parse, C

\* v is the first bytes of e.
Front(v, e) == v \in Seq(Bytes) /\ Len(v) <= Len(e) /\ \A x \in 1..Len(v) : v[x] = e[x]

\* What is written of one more message follows what was complete.
LEMMA ParseExtend ==
  ASSUME NEW ms, NEW pos, NEW k, NEW w, Parse(ms, pos, k, w),
         Len(w) = pos[Len(ms)] - pos[k], NEW m \in Messages, NEW v, Front(v, Encoded(m))
  PROVE  \E p : /\ Parse(Append(ms, m), p, k, w \o v)
                /\ p[k] = pos[k] /\ p[Len(ms) + 1] = pos[Len(ms)] + Len(Encoded(m))
<1> DEFINE e == Encoded(m)
           L == Len(ms)
           ns == Append(ms, m)
           p == [i \in 0..L + 1 |-> IF i <= L THEN pos[i] ELSE pos[L] + Len(e)]
           u == w \o v
           n == Len(v)
<1>1. /\ ms \in Seq(Messages) /\ pos \in [0..L -> Nat] /\ k \in 0..L /\ L \in Nat
      /\ w \in Seq(Bytes) /\ Len(w) \in Nat
      /\ \A i \in 1..L : pos[i] = pos[i - 1] + Len(Encoded(ms[i]))
      /\ \A i \in 0..L : pos[i] <= pos[L]
  BY DEF Parse
<1>2. ns \in Seq(Messages) /\ Len(ns) = L + 1 /\ ns[L + 1] = m /\ \A i \in 1..L : ns[i] = ms[i]
  BY <1>1
<1>3. /\ Len(e) \in Nat /\ n \in Nat /\ n <= Len(e)
      /\ v \in Seq(Bytes) /\ \A x \in 1..n : v[x] = e[x]
  BY EncodedType DEF Front
<1>4. \A i \in 0..L : pos[i] \in Nat
  BY <1>1
<1>5. p[L + 1] = pos[L] + Len(e) /\ \A i \in 0..L : p[i] = pos[i]
  BY <1>1
<1>6. L \in 0..L /\ pos[L] \in Nat /\ pos[k] \in Nat /\ p[k] = pos[k] /\ p[L] = pos[L]
  BY <1>1, <1>4, <1>5
<1>7. p \in [0..L + 1 -> Nat] /\ p[L + 1] \in Nat
  BY <1>3, <1>4, <1>5, <1>6
<1>8. /\ u \in Seq(Bytes) /\ Len(u) = Len(w) + n
      /\ \A x \in 1..Len(w) : u[x] = w[x]
      /\ \A x \in 1..n : u[Len(w) + x] = v[x]
  <2>1. /\ u \in Seq(Bytes) /\ Len(u) = Len(w) + Len(v)
        /\ \A x \in 1..Len(w) + Len(v) : u[x] = IF x <= Len(w) THEN w[x] ELSE v[x - Len(w)]
    BY ZenonT(60), <1>1, <1>3, ConcatProperties
  <2>2. \A x \in 1..Len(w) : x \in 1..Len(w) + Len(v) /\ x <= Len(w)
    BY <1>1, <1>3
  <2>3. \A x \in 1..n : Len(w) + x \in 1..Len(w) + Len(v) /\ ~(Len(w) + x <= Len(w))
                        /\ (Len(w) + x) - Len(w) = x
    BY <1>1, <1>3
  <2> QED BY <2>1, <2>2, <2>3
<1> HIDE DEF p, u, ns, L, e, n
<1>9. \A i \in 1..L + 1 : p[i] = p[i - 1] + Len(Encoded(ns[i]))
  <2>1. ASSUME NEW i \in 1..L PROVE p[i] = p[i - 1] + Len(Encoded(ns[i]))
    <3>1. i \in 0..L /\ i - 1 \in 0..L
      BY <1>1
    <3> QED BY <1>1, <1>2, <1>5, <3>1
  <2>2. p[L + 1] = p[(L + 1) - 1] + Len(Encoded(ns[L + 1]))
    <3>1. (L + 1) - 1 = L
      BY <1>1
    <3> QED BY <1>2, <1>5, <1>6, <3>1 DEF e
  <2>3. \A i \in 1..L + 1 : i \in 1..L \/ i = L + 1
    BY <1>1
  <2> QED BY <2>1, <2>2, <2>3
<1>10. \A i \in 0..L + 1 : p[i] <= p[L + 1]
  <2>1. ASSUME NEW i \in 0..L PROVE p[i] <= p[L + 1]
    <3>1. pos[i] <= pos[L] /\ p[i] = pos[i] /\ pos[i] \in Nat
      BY <1>1, <1>4, <1>5
    <3> QED BY <1>3, <1>5, <1>6, <3>1
  <2>2. \A i \in 0..L + 1 : i \in 0..L \/ i = L + 1
    BY <1>1
  <2> QED BY <1>7, <2>1, <2>2
<1>11. Len(w) = pos[L] - pos[k]
  BY DEF L
<1>12. Len(u) <= p[L + 1] - p[k]
  <2> DEFINE a == pos[L]
             b == pos[k]
  <2>1. a \in Nat /\ b \in Nat
    BY <1>6
  <2> HIDE DEF a, b
  <2>2. (a - b) + n <= (a + Len(e)) - b
    BY <1>3, <2>1
  <2> QED BY <1>5, <1>6, <1>8, <1>11, <2>2 DEF a, b
<1>13. ASSUME NEW i \in 1..L + 1, NEW x \in 1..Len(Encoded(ns[i])),
              p[i - 1] + x - p[k] \in 1..Len(u)
       PROVE  u[p[i - 1] + x - p[k]] = Encoded(ns[i])[x]
  <2>1. CASE i = L + 1
    <3>1. p[i - 1] = pos[L] /\ Encoded(ns[i]) = e
      <4>1. (L + 1) - 1 = L
        BY <1>1
      <4> QED BY <1>2, <1>6, <2>1, <4>1 DEF e
    <3>2. p[i - 1] + x - p[k] = Len(w) + x /\ x \in 1..n
      <4>1. pos[L] + x - pos[k] = Len(w) + x
        BY SMTT(40), <1>3, <1>6, <1>11
      <4>2. Len(w) + x \in 1..Len(w) + n
        BY <1>6, <1>8, <1>13, <3>1, <4>1
      <4>3. x \in Int /\ x >= 1
        OBVIOUS
      <4>4. x \in 1..n
        <5> DEFINE a == Len(w)
        <5>1. a \in Nat /\ a + x \in 1..a + n
          BY <1>1, <4>2
        <5> HIDE DEF a
        <5> QED BY <1>3, <4>3, <5>1
      <4> QED BY <1>6, <3>1, <4>1, <4>4
    <3>3. u[Len(w) + x] = v[x] /\ v[x] = e[x]
      BY <1>3, <1>8, <3>2
    <3> QED BY <3>1, <3>2, <3>3
  <2>2. CASE i \in 1..L
    <3>1. i \in 0..L /\ i - 1 \in 0..L /\ ns[i] = ms[i]
      BY SMTT(40), <1>1, <1>2, <2>2
    <3>2. /\ pos[i - 1] \in Nat /\ p[i - 1] = pos[i - 1]
          /\ pos[i] <= pos[L] /\ pos[i] = pos[i - 1] + Len(Encoded(ms[i]))
      BY <1>1, <1>4, <1>5, <2>2, <3>1
    <3>3. ms[i] \in Messages
      BY <1>1, <2>2 DEF L
    <3>4. Len(Encoded(ms[i])) \in Nat
      BY <3>3, EncodedType
    <3> DEFINE y == pos[i - 1] + x - pos[k]
    <3>5. y = p[i - 1] + x - p[k] /\ y \in 1..Len(w) + n
      BY <1>6, <1>8, <1>13, <3>2
    <3>6. y \in 1..Len(w)
      <4>1. x \in Int /\ x <= Len(Encoded(ms[i]))
        BY <3>1, <3>4
      <4>2. y <= pos[L] - pos[k] /\ y \in Int
        <5> DEFINE a == pos[i - 1]
                   b == pos[k]
                   c == pos[L]
                   l == Len(Encoded(ms[i]))
        <5>1. a \in Nat /\ b \in Nat /\ c \in Nat /\ l \in Nat /\ a + l <= c /\ x <= l
          BY <1>6, <3>2, <3>4, <4>1
        <5> HIDE DEF a, b, c, l
        <5>2. a + x - b <= c - b /\ a + x - b \in Int
          BY <4>1, <5>1
        <5> QED BY <5>2 DEF a, b, c
      <4> HIDE DEF y
      <4> QED BY SMTT(40), <1>1, <1>11, <3>5, <4>2
    <3>7. w[y] = Encoded(ms[i])[x]
      <4>1. \A j \in 1..Len(ms) : \A z \in 1..Len(Encoded(ms[j])) :
              pos[j - 1] + z - pos[k] \in 1..Len(w) =>
                w[pos[j - 1] + z - pos[k]] = Encoded(ms[j])[z]
        BY DEF Parse
      <4>2. i \in 1..Len(ms) /\ x \in 1..Len(Encoded(ms[i]))
        BY <2>2, <3>1 DEF L
      <4> QED BY <3>6, <4>1, <4>2
    <3> HIDE DEF y
    <3>8. u[y] = w[y]
      BY <1>8, <3>6
    <3> QED BY <3>1, <3>5, <3>7, <3>8
  <2>3. i \in 1..L \/ i = L + 1
    BY <1>1
  <2> QED BY <2>1, <2>2, <2>3
<1>14. k \in 0..L + 1
  BY <1>1
<1>15. Parse(ns, p, k, u)
  BY <1>2, <1>7, <1>8, <1>9, <1>10, <1>12, <1>13, <1>14 DEF Parse
<1>16. Parse(Append(ms, m), p, k, w \o v)
  BY <1>15 DEF ns, u
<1> QED BY <1>5, <1>6, <1>16 DEF L, e

\* The bytes w after the k-th message are parsed as messages, of which those in
\* snt were sent in full, and the one after them, if any, is not there in full;
\* while the sender is up w holds all of them.
Stands(ms, pos, k, w, snd, snt) ==
  /\ Parse(ms, pos, k, w)
  /\ snt \in Seq(Messages) /\ Len(snt) <= Len(ms) /\ \A i \in 1..Len(snt) : snt[i] = ms[i]
  /\ snd = "up" => ms = snt /\ Len(w) = pos[Len(ms)] - pos[k]
  /\ \A i \in Len(snt) + 1 .. Len(ms) : Len(w) < pos[i] - pos[k]

\* A message is sent, in full or in part.
LEMMA StandsSend ==
  ASSUME NEW ms, NEW pos, NEW k, NEW w, NEW snt, Stands(ms, pos, k, w, "up", snt),
         NEW m \in Messages
  PROVE  /\ \E p : Stands(Append(ms, m), p, k, w \o Encoded(m), "up", Append(snt, m))
         /\ \A n \in 0 .. Len(Encoded(m)) - 1 :
              \E p : Stands(Append(ms, m), p, k, w \o SubSeq(Encoded(m), 1, n), "gone", snt)
<1> DEFINE e == Encoded(m)
           L == Len(ms)
           ns == Append(ms, m)
<1>1. /\ Parse(ms, pos, k, w) /\ ms = snt /\ ms \in Seq(Messages) /\ Len(w) = pos[L] - pos[k]
      /\ L \in Nat /\ w \in Seq(Bytes) /\ Len(w) \in Nat /\ k \in 0..L
      /\ pos \in [0..L -> Nat]
  BY DEF Stands, Parse
<1>2. e \in Seq(Bytes) /\ Len(e) \in Nat
  BY EncodedType
<1>3. ns \in Seq(Messages) /\ Len(ns) = L + 1 /\ \A i \in 1..L : ns[i] = ms[i]
  BY <1>1
<1>4. pos[L] \in Nat /\ pos[k] \in Nat
  BY <1>1
<1> HIDE DEF L, e
<1>5. \E p : Stands(ns, p, k, w \o e, "up", ns)
  <2>1. Front(e, e)
    BY <1>2 DEF Front
  <2>2. PICK p : /\ Parse(ns, p, k, w \o e)
                 /\ p[k] = pos[k] /\ p[L + 1] = pos[L] + Len(e)
    <3>1. Parse(ms, pos, k, w) /\ Len(w) = pos[Len(ms)] - pos[k] /\ Front(Encoded(m), Encoded(m))
      BY <1>1, <2>1 DEF e, L
    <3>2. \E p : /\ Parse(Append(ms, m), p, k, w \o Encoded(m))
                 /\ p[k] = pos[k] /\ p[Len(ms) + 1] = pos[Len(ms)] + Len(Encoded(m))
      BY <3>1, ParseExtend
    <3> QED BY <3>2 DEF e, L
  <2>3. Len(w \o e) = Len(w) + Len(e)
    BY <1>1, <1>2, ConcatProperties
  <2>4. Len(w \o e) = p[L + 1] - p[k]
    BY <1>1, <1>2, <1>4, <2>2, <2>3
  <2> HIDE DEF ns
  <2>5. Len(ns) + 1 .. Len(ns) = {} /\ Len(ns) <= Len(ns)
    BY <1>1, <1>3
  <2> QED BY <1>3, <2>2, <2>4, <2>5 DEF Stands
<1>6. ASSUME NEW n \in 0 .. Len(e) - 1
      PROVE  \E p : Stands(ns, p, k, w \o SubSeq(e, 1, n), "gone", snt)
  <2> DEFINE v == SubSeq(e, 1, n)
  <2>1. n \in 0..Len(e) /\ n \in Nat /\ n < Len(e)
    BY <1>2
  <2>2. v \in Seq(Bytes) /\ Len(v) = n /\ \A x \in 1..n : v[x] = e[x]
    BY <1>2, <2>1
  <2> HIDE DEF v
  <2>3. PICK p : /\ Parse(ns, p, k, w \o v)
                 /\ p[k] = pos[k] /\ p[L + 1] = pos[L] + Len(e)
    <3>1. Front(v, e)
      BY <1>2, <2>1, <2>2 DEF Front
    <3>2. Parse(ms, pos, k, w) /\ Len(w) = pos[Len(ms)] - pos[k] /\ Front(v, Encoded(m))
      BY <1>1, <3>1 DEF e, L
    <3>3. \E p : /\ Parse(Append(ms, m), p, k, w \o v)
                 /\ p[k] = pos[k] /\ p[Len(ms) + 1] = pos[Len(ms)] + Len(Encoded(m))
      BY <3>2, ParseExtend
    <3> QED BY <3>3 DEF e, L
  <2>4. Len(w \o v) = Len(w) + n
    BY <1>1, <2>2, ConcatProperties
  <2>5. Len(w \o v) < p[L + 1] - p[k]
    BY SMTT(40), <1>1, <1>2, <1>4, <2>1, <2>3, <2>4
  <2> HIDE DEF ns
  <2>6. Len(snt) = L /\ L <= L + 1 /\ \A i \in L + 1 .. L + 1 : i = L + 1
    BY <1>1 DEF L
  <2>7. \A i \in 1..Len(snt) : snt[i] = ns[i]
    BY <1>1, <1>3, <2>6
  <2> QED BY <1>1, <1>3, <2>3, <2>5, <2>6, <2>7 DEF Stands, v
<1> QED BY <1>1, <1>5, <1>6 DEF e, ns

\* The bytes w are len, buf and v, in this order.
Splits(w, v, len, buf) ==
  /\ Rest(w, v, Len(len) + Len(buf)) /\ Len(len) + Len(buf) <= Len(w)
  /\ \A x \in 1..Len(len) : w[x] = len[x]
  /\ \A x \in 1..Len(buf) : w[Len(len) + x] = buf[x]

\* When as many bytes are there as the length says, they are the next message that
\* was sent, and the rest is parsed from there.
LEMMA StandsTake ==
  ASSUME NEW ms, NEW pos, NEW k, NEW w, NEW snd, NEW snt, Stands(ms, pos, k, w, snd, snt),
         NEW len \in [1..LenBytes -> Bytes], NEW buf \in Seq(Bytes),
         Len(buf) = FromBytes(len), NEW v, Splits(w, v, len, buf)
  PROVE  /\ k + 1 \in 1..Len(snt) /\ snt[k + 1] = buf
         /\ Stands(ms, pos, k + 1, v, snd, snt)
<1> DEFINE m == ms[k + 1]
<1>0. /\ LenBytes + Len(buf) <= Len(w) /\ Rest(w, v, LenBytes + Len(buf))
      /\ \A x \in 1..LenBytes : w[x] = len[x]
      /\ \A x \in 1..Len(buf) : w[LenBytes + x] = buf[x]
  <2>1. Len(len) = LenBytes
    BY LengthIsSeq
  <2> QED BY <2>1 DEF Splits
<1>1. /\ Parse(ms, pos, k, w) /\ snt \in Seq(Messages) /\ Len(snt) <= Len(ms)
      /\ \A i \in 1..Len(snt) : snt[i] = ms[i]
      /\ snd = "up" => ms = snt /\ Len(w) = pos[Len(ms)] - pos[k]
      /\ \A i \in Len(snt) + 1 .. Len(ms) : Len(w) < pos[i] - pos[k]
  BY DEF Stands
<1>2. /\ ms \in Seq(Messages) /\ pos \in [0..Len(ms) -> Nat] /\ k \in 0..Len(ms) /\ w \in Seq(Bytes)
  BY <1>1 DEF Parse
<1>3. LenBytes \in Nat /\ Len(buf) \in Nat /\ Len(w) \in Nat /\ Len(snt) \in Nat /\ Len(ms) \in Nat
  BY <1>1, <1>2, WidthAssumption
<1>4. LenBytes <= Len(w)
  BY <1>0, <1>3
<1>5. /\ k + 1 \in 1..Len(ms) /\ m \in Messages
      /\ pos[k + 1] - pos[k] = LenBytes + Len(m)
      /\ \A x \in 1..LenBytes : w[x] = LengthBytes(Len(m))[x]
      /\ LenBytes + Len(m) <= Len(w) => \A x \in 1..Len(m) : w[LenBytes + x] = m[x]
  BY <1>1, <1>4, ParseHead
<1> HIDE DEF m
<1>6. /\ m \in Seq(Bytes) /\ LengthBytes(Len(m)) \in [1..LenBytes -> Bytes]
      /\ FromBytes(LengthBytes(Len(m))) = Len(m)
  BY <1>5, EncodedType
<1>7. len = LengthBytes(Len(m))
  <2> DEFINE b == LengthBytes(Len(m))
  <2>1. \A x \in 1..LenBytes : len[x] = b[x]
    BY <1>0, <1>5
  <2>2. b \in [1..LenBytes -> Bytes]
    BY <1>6
  <2> HIDE DEF b
  <2>3. len = b
    <3>1. len \in Seq(Bytes) /\ b \in Seq(Bytes) /\ Len(len) = LenBytes /\ Len(b) = LenBytes
      BY <2>2, LengthIsSeq
    <3> QED BY <2>1, <3>1, SeqEqual
  <2> QED BY <2>3 DEF b
<1>8. Len(buf) = Len(m)
  BY <1>6, <1>7
<1>9. buf = m
  <2>1. \A x \in 1..Len(m) : buf[x] = m[x]
    BY <1>0, <1>5, <1>8
  <2> QED BY <1>6, <1>8, <2>1, SeqEqual
<1>10. k + 1 \in 1..Len(snt)
  <2>1. ~(k + 1 \in Len(snt) + 1 .. Len(ms))
    BY <1>0, <1>1, <1>3, <1>5, <1>8
  <2> QED BY <1>2, <1>3, <1>5, <2>1
<1>11. snt[k + 1] = buf
  BY <1>1, <1>9, <1>10 DEF m
<1>12. Parse(ms, pos, k + 1, v)
  <2>1. Rest(w, v, pos[k + 1] - pos[k])
    BY <1>0, <1>5, <1>8
  <2> QED BY <1>1, <1>5, <2>1, ParseDrop
<1>13. Len(w) = (LenBytes + Len(buf)) + Len(v) /\ Len(v) \in Nat
  BY <1>0 DEF Rest
<1> DEFINE C == pos[k + 1]
           B == pos[k]
           d == LenBytes + Len(buf)
<1>14. C \in Nat /\ B \in Nat /\ C - B = d /\ d \in Nat
  <2>1. k + 1 \in 0..Len(ms)
    BY <1>3, <1>5
  <2>2. C \in Nat /\ B \in Nat
    BY <1>2, <2>1
  <2>3. d \in Nat
    BY <1>3
  <2> QED BY <1>5, <1>8, <2>2, <2>3
<1> HIDE DEF C, B, d
<1>15. \A i \in 0..Len(ms) : pos[i] \in Nat
  BY <1>2
<1>16. ASSUME snd = "up" PROVE ms = snt /\ Len(v) = pos[Len(ms)] - C
  <2>1. ms = snt /\ Len(w) = pos[Len(ms)] - B /\ pos[Len(ms)] \in Nat
    BY <1>1, <1>3, <1>15, <1>16 DEF B
  <2>2. Len(w) = d + Len(v)
    BY <1>13 DEF d
  <2> QED BY SMTT(40), <1>13, <1>14, <2>1, <2>2
<1>17. ASSUME NEW i \in Len(snt) + 1 .. Len(ms) PROVE Len(v) < pos[i] - C
  <2>1. Len(w) < pos[i] - B /\ pos[i] \in Nat
    <3>1. i \in 0..Len(ms)
      BY <1>3
    <3> QED BY <1>1, <1>15, <3>1 DEF B
  <2>2. Len(w) = d + Len(v)
    BY <1>13 DEF d
  <2> QED BY <1>13, <1>14, <2>1, <2>2
<1>18. Stands(ms, pos, k + 1, v, snd, snt)
  BY <1>1, <1>12, <1>16, <1>17 DEF Stands, C
<1> QED BY <1>10, <1>11, <1>18

-----------------------------------------------------------------------------
(* The bytes from the start of the message that is being read *)

\* The bytes b, the first off bytes of the array t, and what is still in the stream.
Joined(b, t, off, str) == (b \o SubSeq(t, 1, off)) \o str

Shape(j, b, t, off, str) ==
  /\ j \in Seq(Bytes) /\ Len(j) = Len(b) + off + Len(str)
  /\ \A x \in 1..Len(b) : j[x] = b[x]
  /\ \A x \in 1..off : j[Len(b) + x] = t[x]
  /\ \A x \in 1..Len(str) : j[Len(b) + off + x] = str[x]

LEMMA JoinedShape ==
  ASSUME NEW b \in Seq(Bytes), NEW t \in Seq(Bytes), NEW off \in 0..Len(t), NEW str \in Seq(Bytes)
  PROVE  Shape(Joined(b, t, off, str), b, t, off, str)
<1> DEFINE h == SubSeq(t, 1, off)
           c == b \o h
           j == c \o str
<1>1. Len(b) \in Nat /\ Len(t) \in Nat /\ Len(str) \in Nat /\ off \in Nat
  OBVIOUS
<1>2. h \in Seq(Bytes) /\ Len(h) = off /\ \A x \in 1..off : h[x] = t[x]
  BY <1>1
<1> HIDE DEF h
<1>3. /\ c \in Seq(Bytes) /\ Len(c) = Len(b) + off
      /\ \A x \in 1..Len(b) + off : c[x] = IF x <= Len(b) THEN b[x] ELSE h[x - Len(b)]
  BY <1>2, ConcatProperties
<1> HIDE DEF c
<1>4. /\ j \in Seq(Bytes) /\ Len(j) = Len(b) + off + Len(str)
      /\ \A x \in 1..Len(b) + off + Len(str) :
           j[x] = IF x <= Len(b) + off THEN c[x] ELSE str[x - (Len(b) + off)]
  <2>1. /\ j \in Seq(Bytes) /\ Len(j) = Len(c) + Len(str)
        /\ \A x \in 1..Len(c) + Len(str) : j[x] = IF x <= Len(c) THEN c[x] ELSE str[x - Len(c)]
    BY <1>3, ConcatProperties
  <2> HIDE DEF j
  <2> QED BY <1>3, <2>1
<1> HIDE DEF j
<1> DEFINE l == Len(b)
           n == Len(str)
<1>5. l \in Nat /\ n \in Nat /\ off \in Nat
  BY <1>1
<1> HIDE DEF l, n
<1>6. ASSUME NEW x \in 1..l PROVE j[x] = b[x]
  <2>1. x \in 1..l + off + n /\ x <= l + off /\ x \in 1..l + off /\ x <= l
    BY <1>5
  <2> QED BY <1>3, <1>4, <2>1 DEF l, n
<1>7. ASSUME NEW x \in 1..off PROVE j[l + x] = t[x]
  <2>1. /\ l + x \in 1..l + off + n /\ l + x <= l + off /\ l + x \in 1..l + off
        /\ ~(l + x <= l) /\ (l + x) - l = x
    BY <1>5
  <2>2. j[l + x] = c[l + x]
    BY <1>4, <2>1 DEF l, n
  <2>3. c[l + x] = h[x]
    BY <1>3, <2>1 DEF l
  <2> QED BY <1>2, <2>2, <2>3
<1>8. ASSUME NEW x \in 1..n PROVE j[l + off + x] = str[x]
  <2>1. /\ l + off + x \in 1..l + off + n /\ ~(l + off + x <= l + off)
        /\ (l + off + x) - (l + off) = x
    BY <1>5
  <2> QED BY <1>4, <2>1 DEF l, n
<1>9. Shape(j, b, t, off, str)
  BY <1>4, <1>6, <1>7, <1>8 DEF Shape, l, n
<1> QED BY <1>9 DEF Joined, j, c, h

\* A read moves bytes from the stream into the array.
LEMMA JoinedRead ==
  ASSUME NEW b \in Seq(Bytes), NEW t \in Seq(Bytes), NEW off \in 0..Len(t),
         NEW str \in Seq(Bytes), NEW n \in 1..Len(str), n <= Len(t) - off
  PROVE  Joined(b, Filled(t, off, SubSeq(str, 1, n)), off + n, SubSeq(str, n + 1, Len(str)))
           = Joined(b, t, off, str)
<1> DEFINE f == SubSeq(str, 1, n)
           r == SubSeq(str, n + 1, Len(str))
           u == Filled(t, off, f)
           new == Joined(b, u, off + n, r)
           old == Joined(b, t, off, str)
           l == Len(b)
           m == Len(str)
<1>1. l \in Nat /\ m \in Nat /\ off \in Nat /\ n \in Nat /\ n <= m /\ Len(t) \in Nat
  OBVIOUS
<1>2. f \in Seq(Bytes) /\ Len(f) = n /\ \A x \in 1..n : f[x] = str[x]
  BY <1>1
<1>3. r \in Seq(Bytes) /\ Len(r) = m - n /\ \A x \in 1..m - n : r[x] = str[n + x]
  <2>1. n + 1 \in 1..m + 1 /\ m \in Nat
    BY <1>1
  <2>2. r \in Seq(Bytes) /\ Len(r) = m - n
    BY <1>1, <2>1
  <2>3. ASSUME NEW x \in 1..m - n PROVE r[x] = str[n + x]
    <3>1. x \in 1..m - (n + 1) + 1 /\ (n + 1) + x - 1 = n + x
      BY <1>1
    <3> QED BY <1>1, <3>1
  <2> QED BY <2>2, <2>3
<1> HIDE DEF f, r
<1>4. /\ u \in Seq(Bytes) /\ Len(u) = Len(t)
      /\ \A x \in 1..Len(t) : u[x] = IF x - off \in 1..n THEN f[x - off] ELSE t[x]
  BY <1>1, <1>2, FilledType
<1> HIDE DEF u
<1>5. off + n \in 0..Len(u)
  BY <1>1, <1>4
<1>6. /\ new \in Seq(Bytes) /\ Len(new) = l + (off + n) + Len(r)
      /\ \A x \in 1..l : new[x] = b[x]
      /\ \A x \in 1..off + n : new[l + x] = u[x]
      /\ \A x \in 1..Len(r) : new[l + (off + n) + x] = r[x]
  <2>1. Shape(new, b, u, off + n, r)
    BY <1>3, <1>4, <1>5, JoinedShape
  <2> HIDE DEF new
  <2> QED BY <2>1 DEF Shape
<1>7. /\ old \in Seq(Bytes) /\ Len(old) = l + off + m
      /\ \A x \in 1..l : old[x] = b[x]
      /\ \A x \in 1..off : old[l + x] = t[x]
      /\ \A x \in 1..m : old[l + off + x] = str[x]
  <2>1. Shape(old, b, t, off, str)
    BY JoinedShape
  <2> HIDE DEF old
  <2> QED BY <2>1 DEF Shape
<1> HIDE DEF new, old, l, m
<1>8. Len(new) = Len(old) /\ Len(old) = l + off + m
  BY <1>1, <1>3, <1>6, <1>7
<1>9. ASSUME NEW x \in 1..l + off + m PROVE new[x] = old[x]
  <2>1. CASE x \in 1..l
    BY <1>6, <1>7, <2>1
  <2>2. CASE x - l \in 1..off
    <3> DEFINE y == x - l
    <3>1. x = l + y /\ y \in 1..off + n /\ y \in 1..Len(t) /\ ~(y - off \in 1..n)
      BY <1>1, <2>2
    <3> HIDE DEF y
    <3>2. new[x] = u[y] /\ u[y] = t[y]
      BY <1>4, <1>6, <3>1
    <3> QED BY <1>7, <2>2, <3>1, <3>2 DEF y
  <2>3. CASE x - (l + off) \in 1..n
    <3> DEFINE y == x - (l + off)
    <3>1. /\ x = l + (off + y) /\ x = l + off + y /\ y \in 1..m
          /\ off + y \in 1..off + n /\ off + y \in 1..Len(t)
          /\ (off + y) - off = y /\ y \in 1..n
      BY <1>1, <2>3
    <3> HIDE DEF y
    <3>2. new[x] = u[off + y] /\ u[off + y] = f[y]
      BY <1>4, <1>6, <3>1
    <3>3. f[y] = str[y] /\ old[x] = str[y]
      BY <1>2, <1>7, <3>1
    <3> QED BY <3>2, <3>3
  <2>4. CASE x - (l + off + n) \in 1..m - n
    <3> DEFINE y == x - (l + off + n)
    <3>1. /\ x = l + (off + n) + y /\ x = l + off + (n + y) /\ n + y \in 1..m
          /\ y \in 1..m - n
      BY <1>1, <2>4
    <3> HIDE DEF y
    <3>2. new[x] = r[y] /\ r[y] = str[n + y]
      BY <1>3, <1>6, <3>1
    <3>3. old[x] = str[n + y]
      BY <1>7, <3>1
    <3> QED BY <3>2, <3>3
  <2> QED BY <1>1, <2>1, <2>2, <2>3, <2>4
<1>10. new = old
  BY <1>6, <1>7, <1>8, <1>9, SeqEqual
<1> QED BY <1>10 DEF new, old, u, f, r

\* When a length is read the body begins, at its start.
LEMMA JoinedLength ==
  ASSUME NEW len \in Seq(Bytes), NEW t \in Seq(Bytes), NEW str \in Seq(Bytes)
  PROVE  Joined(<<>>, len, Len(len), str) = Joined(len, t, 0, str)
<1> DEFINE old == Joined(<<>>, len, Len(len), str)
           new == Joined(len, t, 0, str)
           l == Len(len)
           m == Len(str)
<1>1. l \in Nat /\ m \in Nat /\ <<>> \in Seq(Bytes) /\ Len(<<>>) = 0 /\ l \in 0..l /\ 0 \in 0..Len(t)
  OBVIOUS
<1>2. /\ old \in Seq(Bytes) /\ Len(old) = 0 + l + m
      /\ \A x \in 1..l : old[0 + x] = len[x]
      /\ \A x \in 1..m : old[0 + l + x] = str[x]
  <2>1. Shape(old, <<>>, len, Len(len), str)
    BY <1>1, JoinedShape
  <2> HIDE DEF old
  <2> QED BY <1>1, <2>1 DEF Shape
<1>3. /\ new \in Seq(Bytes) /\ Len(new) = l + 0 + m
      /\ \A x \in 1..l : new[x] = len[x]
      /\ \A x \in 1..m : new[l + 0 + x] = str[x]
  <2>1. Shape(new, len, t, 0, str)
    BY <1>1, JoinedShape
  <2> HIDE DEF new
  <2> QED BY <1>1, <2>1 DEF Shape
<1> HIDE DEF old, new, l, m
<1>4. Len(new) = Len(old) /\ Len(old) = l + m
  BY <1>1, <1>2, <1>3
<1>5. ASSUME NEW x \in 1..l + m PROVE new[x] = old[x]
  <2>1. CASE x \in 1..l
    <3>1. 0 + x = x
      OBVIOUS
    <3>2. new[x] = len[x] /\ old[0 + x] = len[x]
      BY <1>2, <1>3, <2>1
    <3> QED BY <3>1, <3>2
  <2>2. CASE x - l \in 1..m
    <3> DEFINE y == x - l
    <3>1. x = l + 0 + y /\ x = 0 + l + y /\ y \in 1..m
      BY <1>1, <2>2
    <3> HIDE DEF y
    <3> QED BY <1>2, <1>3, <3>1
  <2> QED BY <1>1, <2>1, <2>2
<1>6. new = old
  BY <1>2, <1>3, <1>4, <1>5, SeqEqual
<1> QED BY <1>6 DEF new, old

\* When a body is read the next length begins.
LEMMA JoinedBody ==
  ASSUME NEW len \in Seq(Bytes), NEW buf \in Seq(Bytes), NEW str \in Seq(Bytes)
  PROVE  Splits(Joined(len, buf, Len(buf), str), Joined(<<>>, len, 0, str), len, buf)
<1> DEFINE old == Joined(len, buf, Len(buf), str)
           new == Joined(<<>>, len, 0, str)
           l == Len(len)
           n == Len(buf)
           m == Len(str)
<1>1. /\ l \in Nat /\ n \in Nat /\ m \in Nat /\ <<>> \in Seq(Bytes) /\ Len(<<>>) = 0
      /\ n \in 0..n /\ 0 \in 0..l
  OBVIOUS
<1>2. /\ old \in Seq(Bytes) /\ Len(old) = l + n + m
      /\ \A x \in 1..l : old[x] = len[x]
      /\ \A x \in 1..n : old[l + x] = buf[x]
      /\ \A x \in 1..m : old[l + n + x] = str[x]
  <2>1. Shape(old, len, buf, Len(buf), str)
    BY <1>1, JoinedShape
  <2> HIDE DEF old
  <2> QED BY <2>1 DEF Shape
<1>3. /\ new \in Seq(Bytes) /\ Len(new) = 0 + 0 + m
      /\ \A x \in 1..m : new[0 + 0 + x] = str[x]
  <2>1. Shape(new, <<>>, len, 0, str)
    BY <1>1, JoinedShape
  <2> HIDE DEF new
  <2> QED BY <1>1, <2>1 DEF Shape
<1> HIDE DEF old, new, l, n, m
<1>4. Len(new) = m /\ l + n \in Nat /\ Len(old) = (l + n) + Len(new)
  BY <1>1, <1>2, <1>3
<1>5. ASSUME NEW x \in 1..m PROVE new[x] = old[(l + n) + x]
  <2>1. 0 + 0 + x = x
    OBVIOUS
  <2>2. new[0 + 0 + x] = str[x] /\ old[l + n + x] = str[x]
    BY <1>2, <1>3
  <2> QED BY <2>1, <2>2
<1>6. Rest(old, new, l + n)
  BY <1>3, <1>4, <1>5 DEF Rest
<1>7. l + n <= Len(old)
  BY <1>1, <1>2
<1>8. Splits(old, new, len, buf)
  BY <1>2, <1>6, <1>7 DEF Splits, l, n
<1> QED BY <1>8 DEF old, new

\* Three pieces may be put together in either order.
LEMMA Associative ==
  ASSUME NEW a \in Seq(Bytes), NEW b \in Seq(Bytes), NEW c \in Seq(Bytes)
  PROVE  a \o (b \o c) = (a \o b) \o c
OBVIOUS

\* What is written goes to the end.
GoesToEnd(b, t, off, str, v) == Joined(b, t, off, str \o v) = Joined(b, t, off, str) \o v

LEMMA JoinedSend ==
  ASSUME NEW b \in Seq(Bytes), NEW t \in Seq(Bytes), NEW off \in 0..Len(t),
         NEW str \in Seq(Bytes), NEW v \in Seq(Bytes)
  PROVE  GoesToEnd(b, t, off, str, v)
<1> DEFINE c == b \o SubSeq(t, 1, off)
<1>1. SubSeq(t, 1, off) \in Seq(Bytes)
  OBVIOUS
<1>2. c \in Seq(Bytes)
  BY <1>1, ConcatProperties
<1> HIDE DEF c
<1>3. c \o (str \o v) = (c \o str) \o v
  BY SMTT(40), <1>2, Associative
<1> QED BY <1>3 DEF GoesToEnd, Joined, c

-----------------------------------------------------------------------------
(* The invariant of the stream *)

\* The bytes of the message that is being read, the ones already taken from the
\* stream included, and those that follow.
Before == IF reading_length THEN <<>> ELSE length
Unread == Joined(Before, Target, offset, stream)

\* How many messages were read in full.
Taken == Len(got) + Len(packets.reliable)

\* The messages g, and after them r, are the first ones of snt.
Firsts(g, r, snt) ==
  /\ Len(g) + Len(r) <= Len(snt)
  /\ \A i \in 1..Len(g) : g[i] = snt[i]
  /\ \A i \in 1..Len(r) : r[i] = snt[Len(g) + i]

\* While the receiver has its connection: the messages it read are the first ones
\* of those sent, it begins each call with none, a body has the size its length
\* says, and what is unread is parsed as the messages that follow.
StreamInv ==
  pc # "gone" =>
    /\ Firsts(got, packets.reliable, sent)
    /\ pc = "idle" => packets = NoPackets
    /\ ~reading_length => Len(buffer) = FromBytes(length)
    /\ \E ms, pos : Stands(ms, pos, Taken, Unread, sender, sent)

LEMMA BeforeType == ASSUME TypeOK PROVE Before \in Seq(Bytes)
BY TargetType DEF Before

LEMMA StreamStable ==
  ASSUME StreamInv, UNCHANGED <<sender, stream, bufferVars, sent, got>>,
         packets'.reliable = packets.reliable, pc # "gone",
         pc' # "idle" \/ packets' = NoPackets
  PROVE  StreamInv'
<1>1. Unread' = Unread
  BY DEF Unread, Before, Target, bufferVars
<1>2. Taken' = Taken
  BY DEF Taken
<1>3. PICK ms, pos : Stands(ms, pos, Taken, Unread, sender, sent)
  BY DEF StreamInv
<1>4. Stands(ms, pos, Taken', Unread', sender', sent')
  BY <1>1, <1>2, <1>3
<1>5. Firsts(got', packets'.reliable, sent')
  BY DEF StreamInv
<1>6. ~reading_length' => Len(buffer') = FromBytes(length')
  BY DEF StreamInv, bufferVars
<1> QED BY <1>4, <1>5, <1>6 DEF StreamInv

\* A message written whole, and one whose write fails.
LEMMA SendKeepsStream ==
  ASSUME TypeOK, StreamInv, pc # "gone", NEW m \in Messages,
         SendReliable(m) \/ SendFailed(m)
  PROVE  StreamInv'
<1>1. PICK ms, pos : Stands(ms, pos, Taken, Unread, "up", sent)
  BY DEF StreamInv, SendReliable, SendFailed
<1>2. /\ Before \in Seq(Bytes) /\ Target \in Seq(Bytes) /\ offset \in 0..Len(Target)
      /\ stream \in Seq(Bytes) /\ Encoded(m) \in Seq(Bytes) /\ sent \in Seq(Messages)
      /\ Len(Encoded(m)) \in Nat
  BY SMTT(40), BeforeType, TargetType, EncodedType DEF TypeOK
<1>3. /\ UNCHANGED <<bufferVars, pc, packets, got>> /\ Before' = Before /\ Target' = Target
      /\ Taken' = Taken /\ offset' = offset
  <2>1. UNCHANGED recvVars /\ got' = got
    BY DEF SendReliable, SendFailed
  <2> QED BY <2>1 DEF recvVars, bufferVars, Before, Target, Taken
<1>4. ASSUME NEW v \in Seq(Bytes), stream' = stream \o v PROVE Unread' = Unread \o v
  <2>1. Unread' = Joined(Before, Target, offset, stream \o v)
    BY <1>3, <1>4 DEF Unread
  <2>2. GoesToEnd(Before, Target, offset, stream, v)
    BY <1>2, <1>4, JoinedSend
  <2> QED BY <2>1, <2>2 DEF Unread, GoesToEnd
<1>5. /\ Firsts(got, packets.reliable, sent) /\ (pc = "idle" => packets = NoPackets)
      /\ ~reading_length => Len(buffer) = FromBytes(length)
  BY DEF StreamInv
<1>6. CASE SendReliable(m)
  <2>1. /\ stream' = stream \o Encoded(m) /\ sender' = "up" /\ sent' = Append(sent, m)
    BY <1>6 DEF SendReliable, sendVars
  <2>2. Unread' = Unread \o Encoded(m)
    BY <1>2, <1>4, <2>1
  <2>3. \E p : Stands(Append(ms, m), p, Taken, Unread \o Encoded(m), "up", Append(sent, m))
    BY <1>1, StandsSend
  <2>4. \E p : Stands(Append(ms, m), p, Taken', Unread', sender', sent')
    BY <1>3, <2>1, <2>2, <2>3
  <2>5. Firsts(got', packets'.reliable, sent')
    <3>1. Len(got) \in Nat /\ Len(packets.reliable) \in Nat /\ Len(sent) \in Nat
      BY DEF TypeOK
    <3>2. Len(sent') = Len(sent) + 1 /\ \A i \in 1..Len(sent) : sent'[i] = sent[i]
      BY <1>2, <2>1
    <3>3. \A i \in 1..Len(got) : i \in 1..Len(sent)
      BY <1>5, <3>1 DEF Firsts
    <3>4. \A i \in 1..Len(packets.reliable) : Len(got) + i \in 1..Len(sent)
      BY <1>5, <3>1 DEF Firsts
    <3>5. Firsts(got, packets.reliable, sent')
      BY <1>5, <3>1, <3>2, <3>3, <3>4 DEF Firsts
    <3> QED BY <1>3, <3>5
  <2> QED BY <1>3, <1>5, <2>4, <2>5 DEF StreamInv, bufferVars
<1>7. CASE SendFailed(m)
  <2>1. PICK n \in 0 .. Len(Encoded(m)) - 1 : stream' = stream \o SubSeq(Encoded(m), 1, n)
    BY <1>7 DEF SendFailed
  <2> DEFINE v == SubSeq(Encoded(m), 1, n)
  <2>2. v \in Seq(Bytes)
    <3>1. n \in Int /\ n <= Len(Encoded(m))
      BY <1>2
    <3> QED BY <1>2, <3>1, SubSeqProperties
  <2>3. Unread' = Unread \o v
    BY <1>4, <2>1, <2>2
  <2>4. \E p : Stands(Append(ms, m), p, Taken, Unread \o v, "gone", sent)
    BY <1>1, StandsSend
  <2>5. sender' = "gone" /\ sent' = sent
    BY <1>7 DEF SendFailed
  <2>6. \E p : Stands(Append(ms, m), p, Taken', Unread', sender', sent')
    BY <1>3, <2>3, <2>4, <2>5
  <2>7. Firsts(got', packets'.reliable, sent')
    BY <1>3, <1>5, <2>5
  <2> QED BY <1>3, <1>5, <2>6, <2>7 DEF StreamInv, bufferVars
<1> QED BY <1>6, <1>7

\* A read of the stream.
LEMMA ReadKeepsStream ==
  ASSUME TypeOK, StreamInv, NEW n \in 1..Len(stream), ReadTcp(n)
  PROVE  StreamInv'
<1>1. /\ Before \in Seq(Bytes) /\ Target \in Seq(Bytes) /\ offset \in 0..Len(Target)
      /\ stream \in Seq(Bytes) /\ Len(buffer) \in Nat /\ buffer \in Seq(Bytes)
      /\ length \in Seq(Bytes) /\ offset \in Nat
  BY SMTT(40), BeforeType, TargetType DEF TypeOK
<1> DEFINE f == SubSeq(stream, 1, n)
           t == Filled(Target, offset, f)
<1>2. /\ pc = "tcp" /\ n <= Len(Target) - offset
      /\ IF reading_length THEN length' = t /\ buffer' = buffer
                           ELSE buffer' = t /\ length' = length
      /\ offset' = offset + n /\ stream' = SubSeq(stream, n + 1, Len(stream))
      /\ UNCHANGED <<sender, reading_length, pc, packets, sent, got>>
  BY DEF ReadTcp, ReadDue, sendVars
<1>3. f \in Seq(Bytes)
  <2>1. n \in Nat /\ n <= Len(stream)
    BY <1>1
  <2> QED BY <1>1, <2>1
<1>4. Len(t) = Len(Target)
  <2> HIDE DEF f
  <2> QED BY <1>1, <1>3, FilledType
<1>5. Target' = t /\ Before' = Before
  <2> HIDE DEF t
  <2> QED BY <1>2 DEF Target, Before
<1>6. Unread' = Unread
  <2>1. Unread' = Joined(Before, t, offset + n, SubSeq(stream, n + 1, Len(stream)))
    BY <1>2, <1>5 DEF Unread
  <2>2. Joined(Before, t, offset + n, SubSeq(stream, n + 1, Len(stream)))
          = Joined(Before, Target, offset, stream)
    BY <1>1, <1>2, JoinedRead
  <2> QED BY <2>1, <2>2 DEF Unread
<1> HIDE DEF t
<1>7. ~reading_length' => Len(buffer') = FromBytes(length')
  BY <1>2, <1>4 DEF StreamInv, Target
<1>8. PICK ms, pos : Stands(ms, pos, Taken, Unread, sender, sent)
  BY <1>2 DEF StreamInv
<1>9. Stands(ms, pos, Taken', Unread', sender', sent')
  BY <1>2, <1>6, <1>8 DEF Taken
<1>10. Firsts(got', packets'.reliable, sent')
  BY <1>2 DEF StreamInv
<1> QED BY <1>2, <1>7, <1>9, <1>10 DEF StreamInv

\* The length of a message is complete.
LEMMA LengthKeepsStream ==
  ASSUME TypeOK, StreamInv, LengthRead
  PROVE  StreamInv'
<1>1. /\ length \in Seq(Bytes) /\ stream \in Seq(Bytes) /\ length \in [1..LenBytes -> Bytes]
  BY TargetType DEF TypeOK
<1>2. /\ pc = "tcp" /\ reading_length /\ offset = Len(length)
      /\ ~reading_length' /\ offset' = 0 /\ buffer' = Zeros(FromBytes(length))
      /\ UNCHANGED <<sender, stream, length, pc, packets, sent, got>>
  BY DEF LengthRead, sendVars, netVars
<1>3. FromBytes(length) \in Nat
  BY <1>1, FromBytesType
<1>4. buffer' \in Seq(Bytes) /\ Len(buffer') = FromBytes(length)
  <2>1. 0 \in Bytes
    BY WidthAssumption DEF Bytes
  <2> QED BY <1>2, <1>3, <2>1 DEF Zeros
<1>5. Unread' = Unread
  <2>1. Unread = Joined(<<>>, length, Len(length), stream)
    BY <1>2 DEF Unread, Before, Target
  <2>2. Unread' = Joined(length, buffer', 0, stream)
    BY <1>2 DEF Unread, Before, Target
  <2> QED BY <1>1, <1>4, <2>1, <2>2, JoinedLength
<1>6. PICK ms, pos : Stands(ms, pos, Taken, Unread, sender, sent)
  BY <1>2 DEF StreamInv
<1>7. Stands(ms, pos, Taken', Unread', sender', sent')
  BY <1>2, <1>5, <1>6 DEF Taken
<1>8. Firsts(got', packets'.reliable, sent')
  BY <1>2 DEF StreamInv
<1> QED BY <1>2, <1>4, <1>7, <1>8 DEF StreamInv

\* The body of a message is complete.
LEMMA BodyKeepsStream ==
  ASSUME TypeOK, StreamInv, BodyRead
  PROVE  StreamInv'
<1> DEFINE r == packets.reliable
<1>1. /\ length \in Seq(Bytes) /\ Len(length) = LenBytes /\ stream \in Seq(Bytes)
      /\ buffer \in Seq(Bytes) /\ length \in [1..LenBytes -> Bytes]
  BY TargetType DEF TypeOK
<1>2. /\ pc = "tcp" /\ ~reading_length /\ offset = Len(buffer)
      /\ reading_length' = TRUE /\ offset' = 0 /\ buffer' = <<>>
      /\ packets' = [packets EXCEPT !.reliable = Append(@, buffer)]
      /\ UNCHANGED <<sender, stream, length, pc, sent, got>>
  BY DEF BodyRead, sendVars, netVars
<1>3. Len(r) \in Nat /\ Len(got) \in Nat /\ LenBytes \in Nat /\ Len(buffer) \in Nat /\ Len(stream) \in Nat
  BY <1>1, WidthAssumption DEF TypeOK
<1>4. packets'.reliable = Append(r, buffer) /\ packets'.others = packets.others
  BY <1>2 DEF TypeOK
<1>5. /\ Len(packets'.reliable) = Len(r) + 1 /\ packets'.reliable[Len(r) + 1] = buffer
      /\ \A i \in 1..Len(r) : packets'.reliable[i] = r[i]
  <2> DEFINE D == Seq(Bytes)
  <2>1. r \in Seq(D) /\ buffer \in D
    BY <1>1 DEF TypeOK
  <2> HIDE DEF D, r
  <2> QED BY <1>4, <2>1
<1>6. Unread = Joined(length, buffer, Len(buffer), stream) /\ Unread' = Joined(<<>>, length, 0, stream)
  BY <1>2 DEF Unread, Before, Target
<1>7. Splits(Unread, Unread', length, buffer)
  BY <1>1, <1>6, JoinedBody
<1>9. PICK ms, pos : Stands(ms, pos, Taken, Unread, sender, sent)
  BY <1>2 DEF StreamInv
<1>10. Len(buffer) = FromBytes(length)
  BY <1>2 DEF StreamInv
<1>11. /\ Taken + 1 \in 1..Len(sent) /\ sent[Taken + 1] = buffer
       /\ Stands(ms, pos, Taken + 1, Unread', sender, sent)
  BY <1>1, <1>7, <1>9, <1>10, StandsTake
<1>12. Taken = Len(got) + Len(r) /\ Taken' = Taken + 1
  BY <1>2, <1>3, <1>5 DEF Taken
<1>13. Stands(ms, pos, Taken', Unread', sender', sent')
  BY <1>2, <1>11, <1>12
<1>14. Firsts(got', packets'.reliable, sent')
  <2>1. Firsts(got, r, sent)
    BY <1>2 DEF StreamInv
  <2> DEFINE q == packets'.reliable
  <2>2. Len(got) + Len(q) <= Len(sent)
    BY <1>3, <1>5, <1>11, <1>12
  <2>3. ASSUME NEW i \in 1..Len(q) PROVE q[i] = sent[Len(got) + i]
    <3>1. CASE i \in 1..Len(r)
      BY <1>5, <2>1, <3>1 DEF Firsts
    <3>2. CASE i = Len(r) + 1
      <4>1. Len(got) + i = Taken + 1
        BY <1>3, <1>12, <3>2
      <4> QED BY <1>5, <1>11, <3>2, <4>1
    <3> QED BY <1>3, <1>5, <3>1, <3>2
  <2> HIDE DEF q
  <2>4. Firsts(got, q, sent)
    BY <2>1, <2>2, <2>3 DEF Firsts
  <2> QED BY <1>2, <2>4 DEF q
<1> QED BY <1>2, <1>13, <1>14 DEF StreamInv

\* The call returns: what it read is handed on.
LEMMA ReturnKeepsStream ==
  ASSUME TypeOK, StreamInv, UdpWouldBlock
  PROVE  StreamInv' /\ Len(got') = Len(got) + Len(packets.reliable)
<1> DEFINE r == packets.reliable
           D == Seq(Bytes)
<1>1. /\ pc = "udp" /\ pc' = "idle" /\ got' = got \o r /\ packets' = NoPackets
      /\ UNCHANGED <<sender, stream, bufferVars, sent>>
  BY DEF UdpWouldBlock, sendVars, netVars
<1>2. got \in Seq(D) /\ r \in Seq(D)
  BY DEF TypeOK
<1> HIDE DEF D
<1>3. /\ Len(got) \in Nat /\ Len(r) \in Nat
      /\ Len(got') = Len(got) + Len(r)
      /\ \A i \in 1..Len(got) + Len(r) : got'[i] = IF i <= Len(got) THEN got[i] ELSE r[i - Len(got)]
  BY <1>1, <1>2, ConcatProperties
<1>4. packets'.reliable = <<>> /\ Len(packets'.reliable) = 0
  BY <1>1 DEF NoPackets
<1>5. Taken' = Taken
  BY <1>3, <1>4 DEF Taken
<1>6. Unread' = Unread
  BY <1>1 DEF Unread, Before, Target, bufferVars
<1>7. PICK ms, pos : Stands(ms, pos, Taken, Unread, sender, sent)
  BY <1>1 DEF StreamInv
<1>8. Stands(ms, pos, Taken', Unread', sender', sent')
  BY <1>1, <1>5, <1>6, <1>7
<1>9. Firsts(got', packets'.reliable, sent')
  <2>1. Firsts(got, r, sent)
    BY <1>1 DEF StreamInv
  <2> HIDE DEF r
  <2>2. ASSUME NEW i \in 1..Len(got') PROVE got'[i] = sent[i]
    <3>1. CASE i <= Len(got)
      <4>1. i \in 1..Len(got) /\ i \in 1..Len(got) + Len(r)
        BY <1>3, <3>1
      <4> QED BY <1>3, <2>1, <3>1, <4>1 DEF Firsts
    <3>2. CASE ~(i <= Len(got))
      <4> DEFINE j == i - Len(got)
      <4>1. j \in 1..Len(r) /\ i = Len(got) + j /\ i \in 1..Len(got) + Len(r)
        BY <1>3, <3>2
      <4>2. got'[i] = r[j]
        BY <1>3, <3>2, <4>1
      <4> HIDE DEF j
      <4>3. r[j] = sent[Len(got) + j]
        BY <2>1, <4>1 DEF Firsts
      <4> QED BY <4>1, <4>2, <4>3
    <3> QED BY <3>1, <3>2
  <2>3. Len(got') + 0 <= Len(sent)
    BY <1>3, <2>1 DEF Firsts
  <2>4. Firsts(got', packets'.reliable, sent)
    <3>1. 1..0 = {}
      OBVIOUS
    <3> QED BY <1>4, <2>2, <2>3, <3>1 DEF Firsts
  <2> QED BY <1>1, <2>4
<1>10. ~reading_length' => Len(buffer') = FromBytes(length')
  BY <1>1 DEF StreamInv, bufferVars
<1> QED BY <1>1, <1>3, <1>8, <1>9, <1>10 DEF StreamInv

LEMMA StepStream == TypeOK /\ StreamInv /\ [Next]_vars => StreamInv'
<1> SUFFICES ASSUME TypeOK, StreamInv, [Next]_vars PROVE StreamInv'
  OBVIOUS
<1>1. CASE pc = "gone"
  <2>1. pc' = "gone"
    BY <1>1 DEF Next, Send, ReceiveTcp, ReceiveUdp, SendUnreliable, SendSequenced, SendReliable,
                SendFailed, Receive, ReadTcp, ReadDue, LengthRead, BodyRead, TcpWouldBlock, TcpFailed,
                TakeUnreliable, TakeSequenced, PassOver, UdpWouldBlock, UdpFailed, vars, recvVars
  <2> QED BY <2>1 DEF StreamInv
<1>2. CASE pc # "gone"
  <2>1. CASE SendUnreliable \/ \E n \in 0 .. MaxNum - 1 : SendSequenced(n)
    <3>1. UNCHANGED <<sender, stream, recvVars, sent, got>>
      BY <2>1 DEF SendUnreliable, SendSequenced, sendVars
    <3>2. UNCHANGED <<sender, stream, bufferVars, sent, got, pc, packets>>
      BY <3>1 DEF recvVars
    <3>3. pc' # "idle" \/ packets' = NoPackets
      BY <1>2, <3>2 DEF StreamInv
    <3> QED BY <1>2, <3>2, <3>3, StreamStable
  <2>2. CASE \E m \in Messages : SendReliable(m) \/ SendFailed(m)
    BY <1>2, <2>2, SendKeepsStream
  <2>3. CASE Receive
    <3>1. /\ UNCHANGED <<sender, stream, bufferVars, sent, got>> /\ packets' = NoPackets
          /\ pc = "idle"
      BY <2>3 DEF Receive, sendVars, netVars
    <3>2. packets = NoPackets
      BY <3>1 DEF StreamInv
    <3> QED BY <1>2, <3>1, <3>2, StreamStable
  <2>4. CASE \E n \in 1..Len(stream) : ReadTcp(n)
    BY <2>4, ReadKeepsStream
  <2>5. CASE LengthRead
    BY <2>5, LengthKeepsStream
  <2>6. CASE BodyRead
    BY <2>6, BodyKeepsStream
  <2>7. CASE TcpWouldBlock
    <3>1. UNCHANGED <<sender, stream, bufferVars, sent, got, packets>> /\ pc' = "udp"
      BY <2>7 DEF TcpWouldBlock, sendVars, netVars
    <3> QED BY <1>2, <3>1, StreamStable
  <2>8. CASE TcpFailed \/ UdpFailed
    BY <2>8 DEF TcpFailed, UdpFailed, ReceiveFails, StreamInv
  <2>9. CASE \E d \in datagrams : TakeUnreliable(d) \/ TakeSequenced(d)
    <3>1. /\ UNCHANGED <<sender, stream, bufferVars, sent, got>> /\ pc' = "udp"
          /\ packets' = [packets EXCEPT !.others = @ + 1]
      BY <2>9 DEF TakeUnreliable, TakeSequenced, sendVars, netVars
    <3>2. packets'.reliable = packets.reliable
      BY <3>1 DEF TypeOK
    <3> QED BY <1>2, <3>1, <3>2, StreamStable
  <2>10. CASE UdpWouldBlock
    BY <2>10, ReturnKeepsStream
  <2>11. CASE UNCHANGED vars \/ \E d \in datagrams : PassOver(d)
    <3>1. UNCHANGED <<sender, stream, bufferVars, sent, got, pc, packets>>
      BY <2>11 DEF PassOver, vars, sendVars, netVars, recvVars
    <3>2. pc' # "idle" \/ packets' = NoPackets
      BY <1>2, <3>1 DEF StreamInv
    <3> QED BY <1>2, <3>1, <3>2, StreamStable
  <2> QED BY <2>1, <2>2, <2>3, <2>4, <2>5, <2>6, <2>7, <2>8, <2>9, <2>10, <2>11
          DEF Next, Send, ReceiveTcp, ReceiveUdp
<1> QED BY <1>1, <1>2

LEMMA InitStream == Init => StreamInv
<1> SUFFICES ASSUME Init PROVE StreamInv
  OBVIOUS
<1> DEFINE p == [i \in 0..0 |-> 0]
<1>1. /\ sent = <<>> /\ got = <<>> /\ packets.reliable = <<>> /\ packets = NoPackets
      /\ sender = "up" /\ reading_length = TRUE /\ offset = 0 /\ stream = <<>>
      /\ length \in Seq(Bytes)
  <2>1. 0 \in Bytes /\ LenBytes \in Nat
    BY WidthAssumption DEF Bytes
  <2> QED BY <2>1 DEF Init, NoPackets, Zeros
<1>2. Unread = Joined(<<>>, length, 0, <<>>)
  BY <1>1 DEF Unread, Before, Target
<1>3. Unread \in Seq(Bytes) /\ Len(Unread) = 0
  <2>1. /\ <<>> \in Seq(Bytes) /\ Len(<<>>) = 0 /\ 0 \in 0..Len(length)
    BY <1>1
  <2>2. Shape(Unread, <<>>, length, 0, <<>>)
    BY <1>1, <1>2, <2>1, JoinedShape
  <2> QED BY <2>1, <2>2 DEF Shape
<1>4. Taken = 0
  BY <1>1 DEF Taken
<1>5. <<>> \in Seq(Messages) /\ Len(<<>>) = 0 /\ 1..0 = {} /\ 0 + 1 .. 0 = {} /\ 0 \in 0..0
  OBVIOUS
<1>6. p \in [0..0 -> Nat] /\ p[0] = 0 /\ \A i \in 0..0 : i = 0
  OBVIOUS
<1> HIDE DEF p
<1>7. Parse(<<>>, p, 0, Unread)
  BY <1>3, <1>5, <1>6 DEF Parse
<1>8. Stands(<<>>, p, Taken, Unread, sender, sent)
  BY <1>1, <1>3, <1>4, <1>5, <1>6, <1>7 DEF Stands
<1>9. Firsts(got, packets.reliable, sent)
  BY <1>1, <1>5 DEF Firsts
<1> QED BY <1>1, <1>8, <1>9 DEF StreamInv

\* Each step is one of the stream of messages, or none.
LEMMA StepImplements ==
  TypeOK /\ StreamInv /\ [Next]_vars => [Stream!Next]_(Stream!vars)
<1> SUFFICES ASSUME TypeOK, StreamInv, [Next]_vars PROVE [Stream!Next]_(Stream!vars)
  OBVIOUS
<1>1. CASE \E m \in Messages : SendReliable(m)
  BY <1>1 DEF SendReliable, recvVars, Stream!Next, Stream!Send
<1>2. CASE TcpFailed \/ UdpFailed
  <2>1. Stream!Close
    BY <1>2 DEF TcpFailed, UdpFailed, ReadDue, ReceiveFails, Stream!Close
  <2> QED BY <2>1 DEF Stream!Next
<1>3. CASE UdpWouldBlock
  <2> DEFINE D == Seq(Bytes)
             n == Len(got')
  <2>1. /\ got \in Seq(D) /\ packets.reliable \in Seq(D) /\ sent \in Seq(D)
    BY MessageAssumption DEF TypeOK
  <2>2. pc = "udp" /\ pc' = "idle" /\ got' = got \o packets.reliable /\ sent' = sent /\ packets' = NoPackets
    BY <1>3 DEF UdpWouldBlock
  <2> HIDE DEF D
  <2>3. got' \in Seq(D) /\ Len(got) \in Nat /\ Len(sent) \in Nat /\ Len(packets.reliable) \in Nat
    BY <2>1, <2>2, ConcatProperties
  <2>4. n = Len(got) + Len(packets.reliable) /\ StreamInv'
    BY <1>3, ReturnKeepsStream
  <2>5. n <= Len(sent) /\ \A i \in 1..n : got'[i] = sent[i]
    <3>1. Firsts(got', packets'.reliable, sent')
      BY <2>2, <2>4 DEF StreamInv
    <3>2. packets'.reliable = <<>> /\ Len(<<>>) = 0
      BY <2>2 DEF NoPackets
    <3>3. n \in Nat
      BY <2>3
    <3> QED BY <2>2, <3>1, <3>2, <3>3 DEF Firsts
  <2>6. got' = SubSeq(sent, 1, n)
    <3> DEFINE q == SubSeq(sent, 1, n)
    <3>1. n \in Nat
      BY <2>3
    <3> HIDE DEF n
    <3>2. q \in Seq(D) /\ Len(q) = n /\ \A i \in 1..n : q[i] = sent[i]
      BY <2>1, <2>5, <3>1
    <3> HIDE DEF q
    <3>3. got' = q
      BY <2>3, <2>5, <3>2, SeqEqual DEF n
    <3> QED BY <3>3 DEF q
  <2>7. CASE Len(packets.reliable) = 0
    <3>1. n = Len(got)
      BY <2>3, <2>4, <2>7
    <3>2. got' = got
      <4>1. \A i \in 1..Len(got) : got'[i] = got[i]
        <5>1. Firsts(got, packets.reliable, sent)
          BY <2>2 DEF StreamInv
        <5>2. \A i \in 1..Len(got) : got[i] = sent[i]
          BY <5>1 DEF Firsts
        <5> QED BY <2>5, <3>1, <5>2
      <4> QED BY <2>1, <2>3, <3>1, <4>1, SeqEqual
    <3> QED BY <2>2, <3>2 DEF Stream!vars
  <2>8. CASE Len(packets.reliable) # 0
    <3>1. n \in Len(got) + 1 .. Len(sent)
      BY <2>3, <2>4, <2>5, <2>8
    <3>2. Stream!Deliver
      BY <2>2, <2>6, <3>1 DEF Stream!Deliver
    <3> QED BY <3>2 DEF Stream!Next
  <2> QED BY <2>7, <2>8
<1>4. ASSUME sent' = sent, got' = got, pc = "gone" <=> pc' = "gone"
      PROVE  UNCHANGED Stream!vars
  BY <1>4 DEF Stream!vars
<1>5. CASE \/ SendUnreliable \/ (\E n \in 0 .. MaxNum - 1 : SendSequenced(n))
           \/ (\E m \in Messages : SendFailed(m)) \/ Receive
           \/ (\E n \in 1..Len(stream) : ReadTcp(n)) \/ LengthRead \/ BodyRead \/ TcpWouldBlock
           \/ (\E d \in datagrams : TakeUnreliable(d) \/ TakeSequenced(d) \/ PassOver(d))
           \/ UNCHANGED vars
  <2>1. sent' = sent /\ got' = got
    BY <1>5 DEF SendUnreliable, SendSequenced, SendFailed, Receive, ReadTcp, LengthRead, BodyRead,
                TcpWouldBlock, TakeUnreliable, TakeSequenced, PassOver, vars
  <2>2. pc = "gone" <=> pc' = "gone"
    BY <1>5 DEF SendUnreliable, SendSequenced, SendFailed, Receive, ReadTcp, ReadDue, LengthRead,
                BodyRead, TcpWouldBlock, TakeUnreliable, TakeSequenced, PassOver, vars, recvVars
  <2> QED BY <1>4, <2>1, <2>2
<1> QED BY <1>1, <1>2, <1>3, <1>5 DEF Next, Send, ReceiveTcp, ReceiveUdp

\* However the bytes of the stream are cut up by reads and calls, and wherever a
\* write fails, the reliable messages that receive returns (tcpudp/mod.rs:88) are
\* the first of those sent, whole and in order.
THEOREM StreamIsOrdered == Spec => Stream!Spec
<1>1. Init => Stream!Init
  BY DEF Init, Stream!Init
<1> QED BY <1>1, TypeCorrect, InitStream, StepStream, StepImplements, PTL DEF Spec, Stream!Spec
=============================================================================
