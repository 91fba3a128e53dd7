-------------------------- MODULE RakReceiveProofs --------------------------
(***************************************************************************)
(* Proofs about RakReceive, for every width of the indices and of the      *)
(* split ids, every set of message kinds and any number of messages.       *)
(***************************************************************************)
EXTENDS RakReceive, FiniteSetTheorems, SequenceTheorems, TLAPS

-----------------------------------------------------------------------------
(* Arithmetic modulo IndexMod *)

\* Quotient and remainder.
LEMMA WrapDivision ==
  ASSUME NEW a \in Int
  PROVE  /\ Wrap(a) \in 0..IndexMod - 1
         /\ a \div IndexMod \in Int
         /\ a = IndexMod * (a \div IndexMod) + Wrap(a)
BY IndexModAssumption, SMT DEF Wrap

\* A wrapped number is an index.
LEMMA WrapRange ==
  ASSUME NEW a \in Int
  PROVE  Wrap(a) \in 0..IndexMod - 1 /\ Wrap(a) \in Int
BY WrapDivision

\* The remainder is unique.
LEMMA WrapUnique ==
  ASSUME NEW q \in Int, NEW r \in 0..IndexMod - 1
  PROVE  Wrap(IndexMod * q + r) = r
BY IndexModAssumption, SMT DEF Wrap

\* A number below IndexMod wraps to itself.
LEMMA WrapSmall ==
  ASSUME NEW a \in 0..IndexMod - 1
  PROVE  Wrap(a) = a
BY IndexModAssumption, SMT DEF Wrap

\* Whole turns make no difference.
LEMMA WrapTurns ==
  ASSUME NEW a \in Int, NEW k \in Int
  PROVE  Wrap(IndexMod * k + a) = Wrap(a)
<1> DEFINE q == a \div IndexMod
           r == Wrap(a)
<1>1. q \in Int /\ r \in 0..IndexMod - 1 /\ a = IndexMod * q + r /\ IndexMod \in Int
  BY WrapDivision, IndexModAssumption
<1> HIDE DEF q, r
<1> DEFINE m == k + q
<1>2. m \in Int /\ IndexMod * k + a = IndexMod * m + r
  BY <1>1, SMT
<1> HIDE DEF m
<1>3. Wrap(IndexMod * m + r) = r
  BY <1>1, <1>2, WrapUnique
<1> QED BY <1>2, <1>3 DEF r

\* Wrapping a summand first makes no difference.
LEMMA WrapSum ==
  ASSUME NEW a \in Int, NEW b \in Int
  PROVE  Wrap(Wrap(a) + b) = Wrap(a + b)
<1> DEFINE q == a \div IndexMod
           r == Wrap(a)
<1>1. q \in Int /\ r \in 0..IndexMod - 1 /\ a = IndexMod * q + r /\ IndexMod \in Int
  BY WrapDivision, IndexModAssumption
<1> HIDE DEF q, r
<1>2. a + b = IndexMod * q + (r + b) /\ r + b \in Int
  BY <1>1
<1>3. Wrap(IndexMod * q + (r + b)) = Wrap(r + b)
  BY <1>1, <1>2, WrapTurns
<1> QED BY <1>2, <1>3 DEF r

\* The wrapping difference of two wrapped numbers.
LEMMA WrapDifference ==
  ASSUME NEW a \in Int, NEW b \in Int
  PROVE  Wrap(Wrap(a) - Wrap(b)) = Wrap(a - b)
<1> DEFINE q == a \div IndexMod
           r == Wrap(a)
           u == b \div IndexMod
           v == Wrap(b)
<1>1. q \in Int /\ r \in 0..IndexMod - 1 /\ a = IndexMod * q + r /\ IndexMod \in Int
  BY WrapDivision, IndexModAssumption
<1>2. u \in Int /\ v \in 0..IndexMod - 1 /\ b = IndexMod * u + v
  BY WrapDivision, IndexModAssumption
<1> HIDE DEF q, r, u, v
<1>3. a - b = IndexMod * (q - u) + (r - v)
  BY <1>1, <1>2
<1>4. r - v \in Int /\ q - u \in Int
  BY <1>1, <1>2
<1> QED BY <1>3, <1>4, WrapTurns DEF r, v

\* Numbers less than IndexMod apart are told apart.
LEMMA WrapInjective ==
  ASSUME NEW a \in Int, NEW b \in Int, Wrap(a) = Wrap(b),
         a - b < IndexMod, b - a < IndexMod
  PROVE  a = b
<1> DEFINE q == a \div IndexMod
           u == b \div IndexMod
           r == Wrap(a)
<1>1. /\ q \in Int /\ u \in Int /\ r \in 0..IndexMod - 1
      /\ a = IndexMod * q + r /\ b = IndexMod * u + r
      /\ IndexMod \in Nat /\ IndexMod >= 4
  BY WrapDivision, IndexModAssumption
<1> HIDE DEF q, u, r
<1>2. a - b = IndexMod * (q - u) /\ b - a = IndexMod * (u - q)
  BY <1>1
<1>3. q - u < 1
  BY <1>1, <1>2, SMT
<1>4. u - q < 1
  BY <1>1, <1>2, SMT
<1> QED BY <1>1, <1>3, <1>4

\* Half of the index space.
LEMMA HalfBounds ==
  Half \in Nat /\ Half >= 1 /\ 2 * Half < IndexMod
BY IndexModAssumption, SMT DEF Half

\* Within the horizon, Ahead says which of two indices is the later one.
LEMMA AheadExact ==
  ASSUME NEW a \in Int, NEW b \in Int,
         a < b + Half, a >= b - (IndexMod - Half)
  PROVE  Ahead(Wrap(a), Wrap(b)) <=> a >= b
<1>1. Half \in Nat /\ Half >= 1 /\ 2 * Half < IndexMod /\ IndexMod \in Nat
  BY HalfBounds, IndexModAssumption
<1>2. Wrap(Wrap(a) - Wrap(b)) = Wrap(a - b)
  BY WrapDifference
<1>3. CASE a >= b
  <2>1. a - b \in 0..IndexMod - 1 /\ a - b < Half
    BY <1>1, <1>3
  <2> QED BY <1>2, <1>3, <2>1, WrapSmall DEF Ahead
<1>4. CASE a < b
  <2>1. IndexMod + (a - b) \in 0..IndexMod - 1 /\ IndexMod + (a - b) >= Half
    BY <1>1, <1>4
  <2>2. Wrap(IndexMod * 1 + (a - b)) = Wrap(a - b)
    BY WrapTurns
  <2>3. Wrap(a - b) = IndexMod + (a - b)
    BY <2>1, <2>2, <1>1, WrapSmall
  <2> QED BY <1>1, <1>2, <1>4, <2>1, <2>3 DEF Ahead
<1> QED BY <1>3, <1>4

-----------------------------------------------------------------------------
(* Types *)

\* The number of elements of 0..n-1.
LEMMA ZeroBasedCount ==
  ASSUME NEW n \in Nat
  PROVE  Cardinality(0..n - 1) = n
BY FS_Interval, SMT

\* The chunks of a message are a sequence.
LEMMA WholeType ==
  ASSUME NEW p \in PacketType, p.part <= p.num
  PROVE  Whole(p) \in Seq(Nat) /\ Len(Whole(p)) = p.count
<1>1. p.num \in Nat /\ p.part \in Nat /\ p.count \in Nat \ {0}
  BY DEF PacketType
<1>2. \A i \in 1..p.count : p.num - p.part + i - 1 \in Nat
  BY <1>1
<1> QED BY <1>1, <1>2 DEF Whole

\* The sequence that parts, all of them there, are joined to.
LEMMA JoinedType ==
  ASSUME NEW parts, NEW n \in Nat, parts \in [0..n - 1 -> Nat \cup {None}],
         \A i \in DOMAIN parts : parts[i] # None
  PROVE  [i \in 1..Cardinality(DOMAIN parts) |-> parts[i - 1]] \in Seq(Nat)
<1>1. Cardinality(DOMAIN parts) = n
  BY ZeroBasedCount
<1>2. \A i \in 1..n : parts[i - 1] \in Nat
  BY DEF None
<1> QED BY <1>1, <1>2

\* Handing on, queueing or dropping a complete message keeps the types.
LEMMA AcceptType ==
  ASSUME TypeOK, NEW p \in PacketType, NEW data \in Seq(Nat), Accept(p, data)
  PROVE  /\ ordered' \in Seq(Seq(Nat))
         /\ sequenced' \in Seq([idx : Nat, data : Seq(Nat)])
         /\ loose' \subseteq Seq(Nat)
         /\ unrel_seq_index' \in 0..IndexMod - 1 /\ rel_ord_index' \in 0..IndexMod - 1
         /\ DOMAIN out_of_order_packets' \subseteq 0..IndexMod - 1
         /\ \A o \in DOMAIN out_of_order_packets' : out_of_order_packets'[o] \in Seq(Nat)
         /\ closed' \in BOOLEAN
<1>0. p.idx \in Nat /\ p.idx \in Int
  BY DEF PacketType
<1>w. Wrap(p.idx) \in 0..IndexMod - 1 /\ Wrap(p.idx) \in Int
  BY <1>0, WrapRange
<1> USE DEF TypeOK
<1>1. CASE Disconnect(data)
  BY <1>1 DEF Disconnect, recvVars, outVars
<1>2. CASE UNCHANGED closed /\ AcceptSequenced(p, data)
  <2>1. Wrap(Wrap(p.idx) + 1) \in 0..IndexMod - 1
    <3>1. Wrap(p.idx) + 1 \in Int
      BY <1>w
    <3> QED BY <3>1, WrapRange
  <2>2. sequenced' \in Seq([idx : Nat, data : Seq(Nat)])
    <3>1. [idx |-> p.idx, data |-> data] \in [idx : Nat, data : Seq(Nat)]
      BY <1>0
    <3> HIDE DEF TypeOK
    <3>2. sequenced \in Seq([idx : Nat, data : Seq(Nat)])
      BY DEF TypeOK
    <3> DEFINE R == [idx : Nat, data : Seq(Nat)]
               r == [idx |-> p.idx, data |-> data]
    <3>3. sequenced' = Append(sequenced, r) \/ sequenced' = sequenced
      BY <1>2 DEF AcceptSequenced
    <3>4. r \in R /\ sequenced \in Seq(R)
      BY <3>1, <3>2
    <3> HIDE DEF r, R
    <3>5. sequenced' \in Seq(R)
      BY <3>3, <3>4
    <3> QED BY <3>5 DEF R
  <2> QED BY <1>2, <2>1, <2>2 DEF AcceptSequenced
<1>3. CASE UNCHANGED closed /\ AcceptInTurn(p, data)
  <2>1. PICK n \in 0..Cardinality(DOMAIN out_of_order_packets) :
          /\ Drains(rel_ord_index, n)
          /\ LET drained == {Wrap(rel_ord_index + i) : i \in 1..n}
             IN  out_of_order_packets' =
                   [o \in DOMAIN out_of_order_packets \ drained |-> out_of_order_packets[o]]
          /\ rel_ord_index' = Wrap(rel_ord_index + n + 1)
          /\ ordered' = ordered \o Released(data, rel_ord_index, n)
    BY <1>3 DEF AcceptInTurn
  <2>2. n \in Nat
    OBVIOUS
  <2>3. rel_ord_index' \in 0..IndexMod - 1
    BY <2>1, <2>2, WrapRange
  <2>4. \A i \in 1..n + 1 : Released(data, rel_ord_index, n)[i] \in Seq(Nat)
    <3> SUFFICES ASSUME NEW i \in 1..n + 1, i # 1
                 PROVE  out_of_order_packets[Wrap(rel_ord_index + i - 1)] \in Seq(Nat)
      BY DEF Released
    <3>1. i - 1 \in 1..n /\ rel_ord_index + (i - 1) = rel_ord_index + i - 1
      BY <2>2
    <3> QED BY <2>1, <3>1 DEF Drains
  <2>5. Released(data, rel_ord_index, n) \in Seq(Seq(Nat))
    BY <2>2, <2>4 DEF Released
  <2>6. ordered' \in Seq(Seq(Nat))
    BY <2>1, <2>5
  <2> QED BY <1>3, <2>1, <2>3, <2>6 DEF AcceptInTurn
<1>4. CASE UNCHANGED closed /\ AcceptEarly(p, data)
  BY <1>4, <1>w DEF AcceptEarly, outVars
<1>5. CASE UNCHANGED closed /\ DropDuplicate(p)
  BY <1>5 DEF DropDuplicate, recvVars, outVars
<1>6. CASE UNCHANGED closed /\ AcceptLoose(p, data)
  BY <1>6 DEF AcceptLoose, recvVars
<1> QED BY <1>1, <1>2, <1>3, <1>4, <1>5, <1>6 DEF Accept

\* The vector of parts of a split packet.
PartsType(parts) ==
  IsFiniteSet(DOMAIN parts) /\ parts \in [0..Cardinality(DOMAIN parts) - 1 -> Nat \cup {None}]

\* Vectors from 0 to n - 1 are vectors of parts, and the other way round.
LEMMA PartsShape ==
  ASSUME NEW parts
  PROVE  PartsType(parts) <=> \E n \in Nat : parts \in [0..n - 1 -> Nat \cup {None}]
<1>1. ASSUME PartsType(parts)
      PROVE  \E n \in Nat : parts \in [0..n - 1 -> Nat \cup {None}]
  <2>1. Cardinality(DOMAIN parts) \in Nat
    BY <1>1, FS_CardinalityType DEF PartsType
  <2> QED BY <1>1, <2>1 DEF PartsType
<1>2. ASSUME NEW n \in Nat, parts \in [0..n - 1 -> Nat \cup {None}]
      PROVE  PartsType(parts)
  <2>1. DOMAIN parts = 0..n - 1 /\ IsFiniteSet(0..n - 1) /\ Cardinality(0..n - 1) = n
    BY <1>2, ZeroBasedCount, FS_Interval
  <2> QED BY <1>2, <2>1 DEF PartsType
<1> QED BY <1>1, <1>2

\* The types hold at the start.
LEMMA InitType == Init => TypeOK
<1> SUFFICES ASSUME Init PROVE TypeOK
  OBVIOUS
<1>1. 0 \in 0..IndexMod - 1
  BY IndexModAssumption
<1>2. next \in [num : Nat, seq : Nat, ord : Nat, split : Nat]
  BY DEF Init
<1>3. /\ script \in Seq(Seq(Nat)) /\ ordered \in Seq(Seq(Nat))
      /\ sequenced \in Seq([idx : Nat, data : Seq(Nat)])
  BY DEF Init
<1>4. DOMAIN out_of_order_packets = {} /\ DOMAIN split_packet_queue = {}
  BY DEF Init
<1> QED BY <1>1, <1>2, <1>3, <1>4 DEF Init, TypeOK

\* The client's step keeps the types.
LEMMA ClientSendType ==
  ASSUME TypeOK, NEW k \in Kinds, ClientSend(k)
  PROVE  TypeOK'
<1>1. k \in KindType
  BY KindsAssumption
<1>2. k.count \in Nat \ {0} /\ k.rel \in Reliability /\ k.disc \in BOOLEAN
  BY <1>1 DEF KindType
<1>3. next.num \in Nat /\ next.seq \in Nat /\ next.ord \in Nat /\ next.split \in Nat
  BY DEF TypeOK
<1> DEFINE idx == CASE k.rel = "ReliableOrdered"     -> next.ord
                    [] k.rel = "UnreliableSequenced" -> next.seq
                    [] OTHER                         -> 0
           Packet(i) == [num |-> next.num + i, rel |-> k.rel, idx |-> idx,
                         sid |-> next.split, part |-> i, count |-> k.count,
                         disc |-> k.disc]
<1>4. sent' = sent \cup {Packet(i) : i \in 0..k.count - 1}
  BY DEF ClientSend
<1>5. idx \in Nat
  BY <1>3
<1> HIDE DEF idx
<1>6. \A i \in 0..k.count - 1 : Packet(i) \in PacketType
  BY <1>2, <1>3, <1>5 DEF PacketType
<1> HIDE DEF Packet
<1>7. sent' \subseteq PacketType
  BY <1>4, <1>6 DEF TypeOK
<1>8. next' \in [num : Nat, seq : Nat, ord : Nat, split : Nat]
  <2>1. next' = [num   |-> next.num + k.count,
                 seq   |-> next.seq + IF k.rel = "UnreliableSequenced" THEN 1 ELSE 0,
                 ord   |-> next.ord + IF k.rel = "ReliableOrdered" THEN 1 ELSE 0,
                 split |-> next.split + IF k.count > 1 THEN 1 ELSE 0]
    BY DEF ClientSend
  <2> QED BY <1>2, <1>3, <2>1
<1>9. script' \in Seq(Seq(Nat))
  <2> DEFINE d == [i \in 1..k.count |-> next.num + i - 1]
  <2>1. d \in Seq(Nat)
    BY <1>2, <1>3
  <2>2. script' = Append(script, d) \/ script' = script
    BY DEF ClientSend
  <2> DEFINE D == Seq(Nat)
  <2>3. d \in D /\ script \in Seq(D)
    BY <2>1 DEF TypeOK
  <2> HIDE DEF d, D
  <2>4. script' \in Seq(D)
    BY <2>2, <2>3
  <2> QED BY <2>4 DEF D
<1> QED BY <1>7, <1>8, <1>9 DEF TypeOK, ClientSend, recvVars, outVars

\* Storing a part keeps the vector it is stored in.
LEMMA StoredType ==
  ASSUME TypeOK, NEW p \in sent, SplitId(p.sid) \in DOMAIN split_packet_queue,
         p.part \in DOMAIN split_packet_queue[SplitId(p.sid)]
  PROVE  PartsType(Stored(p))
<1> DEFINE parts == split_packet_queue[SplitId(p.sid)]
<1>1. PartsType(parts) /\ p.num \in Nat
  BY DEF TypeOK, PartsType, PacketType
<1>2. PICK n \in Nat : parts \in [0..n - 1 -> Nat \cup {None}]
  BY <1>1, PartsShape
<1>3. p.part \in DOMAIN parts /\ Stored(p) = [parts EXCEPT ![p.part] = p.num]
  BY DEF Stored
<1> HIDE DEF parts
<1>4. [parts EXCEPT ![p.part] = p.num] \in [0..n - 1 -> Nat \cup {None}]
  BY <1>1, <1>2, <1>3
<1> QED BY <1>3, <1>4, PartsShape

\* The last part completes a sequence of chunks.
LEMMA StoredJoinedType ==
  ASSUME TypeOK, NEW p \in sent, ReceiveLastPart(p)
  PROVE  [i \in 1..Cardinality(DOMAIN Stored(p)) |-> Stored(p)[i - 1]] \in Seq(Nat)
<1>1. PartsType(Stored(p)) /\ \A i \in DOMAIN Stored(p) : Stored(p)[i] # None
  BY StoredType DEF ReceiveLastPart
<1>2. PICK n \in Nat : Stored(p) \in [0..n - 1 -> Nat \cup {None}]
  BY <1>1, PartsShape
<1> QED BY <1>1, <1>2, JoinedType

\* Nothing waits in a connection that was freed.
LEMMA FreedEmpty ==
  ASSUME Freed
  PROVE  /\ DOMAIN out_of_order_packets' = {} /\ DOMAIN split_packet_queue' = {}
         /\ acks' = {}
         /\ UNCHANGED <<unrel_seq_index, rel_ord_index, closed, ordered, sequenced, loose>>
BY DEF Freed, outVars

\* The loop body keeps the types, whatever packet comes.
LEMMA ReceiveType ==
  ASSUME TypeOK, NEW p \in sent, Receive(p)
  PROVE  TypeOK'
<1>1. p \in PacketType
  BY DEF TypeOK
<1>2. p.num \in Nat /\ p.part \in Nat /\ p.count \in Nat \ {0} /\ p.sid \in Nat
  BY <1>1 DEF PacketType
<1> DEFINE parts == split_packet_queue[SplitId(p.sid)]
<1>3. ASSUME Ack(p) PROVE acks' \subseteq Nat
  BY <1>2, <1>3 DEF Ack, TypeOK
<1>4. SplitId(p.sid) \in 0..SplitMod - 1
  BY <1>2, SplitModAssumption, SMT DEF SplitId
<1>5. UNCHANGED <<sent, next, script, clientAcked>>
  BY DEF Receive, clientVars
<1>6. \A s \in DOMAIN split_packet_queue : PartsType(split_packet_queue[s])
  BY DEF TypeOK, PartsType
<1>7. CASE ReceiveWhole(p)
  <2>1. <<p.num>> \in Seq(Nat)
    BY <1>2
  <2>2. Accept(p, <<p.num>>) /\ Ack(p) /\ UNCHANGED <<split_packet_queue, status>>
    BY <1>7 DEF ReceiveWhole
  <2> QED BY <1>1, <1>3, <1>5, <2>1, <2>2, AcceptType DEF TypeOK
<1>8. CASE ReceiveFirstPart(p)
  <2> DEFINE new == [i \in 0..p.count - 1 |-> IF i = p.part THEN p.num ELSE None]
  <2>1. new \in [0..p.count - 1 -> Nat \cup {None}]
    BY <1>2
  <2>2. PartsType(new)
    BY <1>2, <2>1, PartsShape
  <2>3. split_packet_queue' = [s \in DOMAIN split_packet_queue \cup {SplitId(p.sid)} |->
                                 IF s = SplitId(p.sid) THEN new ELSE split_packet_queue[s]]
    BY <1>8 DEF ReceiveFirstPart
  <2> HIDE DEF new
  <2>4. \A s \in DOMAIN split_packet_queue' : PartsType(split_packet_queue'[s])
    BY <1>6, <2>2, <2>3
  <2>5. DOMAIN split_packet_queue' \subseteq 0..SplitMod - 1
    BY <1>4, <2>3 DEF TypeOK
  <2> QED BY <1>3, <1>5, <1>8, <2>4, <2>5
          DEF ReceiveFirstPart, TypeOK, PartsType, recvVars, outVars
<1>9. ASSUME SplitId(p.sid) \in DOMAIN split_packet_queue, p.part \in DOMAIN parts
      PROVE  PartsType(Stored(p))
  BY <1>9, StoredType
<1>10. CASE ReceivePart(p)
  <2>1. PartsType(Stored(p))
    BY <1>9, <1>10 DEF ReceivePart
  <2>2. split_packet_queue' = [split_packet_queue EXCEPT ![SplitId(p.sid)] = Stored(p)]
    BY <1>10 DEF ReceivePart
  <2>3. \A s \in DOMAIN split_packet_queue' : PartsType(split_packet_queue'[s])
    BY <1>6, <2>1, <2>2
  <2> QED BY <1>3, <1>5, <1>10, <2>2, <2>3
          DEF ReceivePart, TypeOK, PartsType, recvVars, outVars
<1>11. CASE ReceiveLastPart(p)
  <2> DEFINE data == [i \in 1..Cardinality(DOMAIN Stored(p)) |-> Stored(p)[i - 1]]
  <2>2. data \in Seq(Nat)
    BY <1>11, StoredJoinedType
  <2>3. Accept(p, data) /\ Ack(p) /\ UNCHANGED status
    BY <1>11 DEF ReceiveLastPart
  <2>4. split_packet_queue' =
          [s \in DOMAIN split_packet_queue \ {SplitId(p.sid)} |-> split_packet_queue[s]]
    BY <1>11 DEF ReceiveLastPart
  <2> HIDE DEF data
  <2>5. \A s \in DOMAIN split_packet_queue' : PartsType(split_packet_queue'[s])
    BY <1>6, <2>4
  <2> QED BY <1>1, <1>3, <1>5, <2>2, <2>3, <2>4, <2>5, AcceptType DEF TypeOK, PartsType
<1>12. CASE PanicOnPart(p)
  BY <1>5, <1>12, FreedEmpty DEF PanicOnPart, TypeOK
<1> QED BY <1>7, <1>8, <1>10, <1>11, <1>12 DEF Receive

\* The variables of the receiving side always hold what the Rust types allow,
\* whatever the client sends and in whatever order it arrives.
THEOREM TypeCorrect == Spec => []TypeOK
<1>1. Init => TypeOK
  BY InitType
<1>2. TypeOK /\ [Next]_vars => TypeOK'
  <2> SUFFICES ASSUME TypeOK, [Next]_vars PROVE TypeOK'
    OBVIOUS
  <2>1. CASE \E k \in Kinds : ClientSend(k)
    BY <2>1, ClientSendType
  <2>2. CASE \E p \in sent : Receive(p)
    BY <2>2, ReceiveType
  <2>3. CASE \E S \in SUBSET acks : SendAcks(S)
    BY <2>3 DEF SendAcks, TypeOK, recvVars, outVars
  <2>4. CASE Drop
    BY <2>4, FreedEmpty DEF Drop, TypeOK, clientVars
  <2>5. CASE UNCHANGED vars
    BY <2>5 DEF vars, TypeOK, clientVars, recvVars, outVars
  <2> QED BY <2>1, <2>2, <2>3, <2>4, <2>5 DEF Next
<1> QED BY <1>1, <1>2, PTL DEF Spec

-----------------------------------------------------------------------------
(* The inductive invariant *)

\* What the client has sent: packets agree with the script, and the packets of
\* one split message, which share their id before it is wrapped, agree with
\* each other.
SameMessage(p, q) == p.count = q.count /\ p.num - p.part = q.num - q.part

ClientInv ==
  /\ Len(script) = next.ord
  /\ \A p \in sent : p.part < p.count /\ p.part <= p.num
                    /\ (p.count > 1 => p.sid < next.split)
  /\ \A p \in sent : p.rel = "ReliableOrdered" =>
                      p.idx < Len(script) /\ script[p.idx + 1] = Whole(p)
  /\ \A p, q \in sent : p.count > 1 /\ q.count > 1 /\ p.sid = q.sid => SameMessage(p, q)

\* Where the receiver is: its index stands for the number of messages handed
\* on, and early ones are less than half of the index space ahead of it.
IndexInv ==
  /\ rel_ord_index = Wrap(Len(ordered))
  /\ Len(ordered) <= Len(script)
  /\ \A o \in DOMAIN out_of_order_packets : \E d \in 1..Half - 1 :
        o = Wrap(Len(ordered) + d) /\ Len(ordered) + d < Len(script)

\* What the receiver has, as long as no split id is used again.
EarlyExact ==
  \A o \in DOMAIN out_of_order_packets : \A d \in 1..Half - 1 :
    o = Wrap(Len(ordered) + d) => out_of_order_packets[o] = script[Len(ordered) + d + 1]

PartsOf(parts, q) ==
  /\ DOMAIN parts = 0..q.count - 1
  /\ \A i \in 0..q.count - 1 : parts[i] \in {None, q.num - q.part + i}

SplitExact ==
  \A s \in DOMAIN split_packet_queue : \E q \in sent :
    q.count > 1 /\ SplitId(q.sid) = s /\ PartsOf(split_packet_queue[s], q)

DataInv == OrderedExact /\ EarlyExact /\ SplitExact /\ NoPanic

Inv == TypeOK /\ ClientInv /\ IndexInv /\ (NoReuse => DataInv)

\* Facts about the current packet that every case needs.
LEMMA PacketFacts ==
  ASSUME TypeOK, ClientInv, NEW p \in sent
  PROVE  /\ p \in PacketType
         /\ p.num \in Nat /\ p.part \in Nat /\ p.count \in Nat \ {0}
         /\ p.sid \in Nat /\ p.idx \in Nat
         /\ p.part < p.count /\ p.part <= p.num
BY DEF TypeOK, ClientInv, PacketType

\* Within the horizon, the index of an ordered packet says where it belongs.
LEMMA OrderedTurn ==
  ASSUME TypeOK, ClientInv, IndexInv, NEW p \in sent, p.rel = "ReliableOrdered", InHorizon(p)
  PROVE  /\ Wrap(p.idx) = rel_ord_index => p.idx = Len(ordered)
         /\ Ahead(Wrap(p.idx), rel_ord_index) <=> p.idx >= Len(ordered)
         /\ p.idx < Len(ordered) + Half
<1>1. p.idx \in Nat /\ Len(ordered) \in Nat
  BY PacketFacts DEF TypeOK
<1>2. p.idx < Len(ordered) + Half /\ p.idx >= Len(ordered) - (IndexMod - Half)
  BY DEF InHorizon
<1>3. Half \in Nat /\ Half >= 1 /\ 2 * Half < IndexMod /\ IndexMod \in Nat
  BY HalfBounds, IndexModAssumption
<1>4. rel_ord_index = Wrap(Len(ordered))
  BY DEF IndexInv
<1>5. Ahead(Wrap(p.idx), Wrap(Len(ordered))) <=> p.idx >= Len(ordered)
  BY <1>1, <1>2, AheadExact
<1>6. ASSUME Wrap(p.idx) = Wrap(Len(ordered)) PROVE p.idx = Len(ordered)
  <2>1. p.idx - Len(ordered) < IndexMod /\ Len(ordered) - p.idx < IndexMod
    BY <1>1, <1>2, <1>3
  <2> QED BY <1>1, <1>6, <2>1, WrapInjective
<1> QED BY <1>2, <1>4, <1>5, <1>6

\* What happens when a packet arrives in turn and n queued ones follow it.
Drained(data, n) ==
  /\ n \in Nat /\ n < Half
  /\ Len(ordered) + n < Len(script)
  /\ \A i \in 1..n : Wrap(Len(ordered) + i) \in DOMAIN out_of_order_packets
  /\ Len(ordered') = Len(ordered) + n + 1
  /\ \A j \in 1..Len(ordered) : ordered'[j] = ordered[j]
  /\ ordered'[Len(ordered) + 1] = data
  /\ \A i \in 1..n : ordered'[Len(ordered) + 1 + i] = out_of_order_packets[Wrap(Len(ordered) + i)]
  /\ rel_ord_index' = Wrap(Len(ordered) + n + 1)
  /\ \A o \in DOMAIN out_of_order_packets' :
        /\ o \in DOMAIN out_of_order_packets
        /\ out_of_order_packets'[o] = out_of_order_packets[o]
        /\ \A d \in 1..Half - 1 : o = Wrap(Len(ordered) + d) => d >= n + 2
  /\ \A o \in DOMAIN out_of_order_packets :
        o \in DOMAIN out_of_order_packets' \/ \E i \in 1..n : o = Wrap(Len(ordered) + i)

LEMMA InTurnDrains ==
  ASSUME TypeOK, ClientInv, IndexInv, NEW p \in sent, InHorizon(p),
         NEW data, AcceptInTurn(p, data)
  PROVE  p.idx = Len(ordered) /\ \E n \in Nat : Drained(data, n)
<1> DEFINE L == Len(ordered)
<1>1. p.rel = "ReliableOrdered" /\ Wrap(p.idx) = rel_ord_index
  BY DEF AcceptInTurn
<1>2. p.idx = L
  BY <1>1, OrderedTurn
<1>3. L \in Nat /\ Half \in Nat /\ Half >= 1 /\ 2 * Half < IndexMod /\ IndexMod \in Nat
  BY HalfBounds, IndexModAssumption DEF TypeOK
<1>4. PICK n \in 0..Cardinality(DOMAIN out_of_order_packets) :
        /\ Drains(rel_ord_index, n)
        /\ LET drained == {Wrap(rel_ord_index + i) : i \in 1..n}
           IN  out_of_order_packets' =
                 [o \in DOMAIN out_of_order_packets \ drained |-> out_of_order_packets[o]]
        /\ rel_ord_index' = Wrap(rel_ord_index + n + 1)
        /\ ordered' = ordered \o Released(data, rel_ord_index, n)
  BY DEF AcceptInTurn
<1>5. n \in Nat
  OBVIOUS
<1>r. rel_ord_index \in Int
  <2>1. rel_ord_index \in 0..IndexMod - 1
    BY DEF TypeOK
  <2> QED BY <2>1, IndexModAssumption
<1>6. \A i \in Int : Wrap(rel_ord_index + i) = Wrap(L + i)
  BY <1>3, WrapSum DEF IndexInv
<1>7. \A i \in 1..n : Wrap(L + i) \in DOMAIN out_of_order_packets
  <2> SUFFICES ASSUME NEW i \in 1..n PROVE Wrap(L + i) \in DOMAIN out_of_order_packets
    OBVIOUS
  <2>1. Wrap(rel_ord_index + i) \in DOMAIN out_of_order_packets
    BY <1>4 DEF Drains
  <2>2. Wrap(rel_ord_index + i) = Wrap(L + i)
    BY <1>5, <1>6
  <2> QED BY <2>1, <2>2
<1>8. Wrap(L + (n + 1)) \notin DOMAIN out_of_order_packets
  <2>1. rel_ord_index + n + 1 = rel_ord_index + (n + 1)
    BY <1>5, <1>r
  <2> QED BY <1>4, <1>5, <1>6, <2>1 DEF Drains
<1> HIDE DEF L
<1>9. \A d, e \in 0..Half : Wrap(L + d) = Wrap(L + e) => d = e
  <2> SUFFICES ASSUME NEW d \in 0..Half, NEW e \in 0..Half, Wrap(L + d) = Wrap(L + e)
               PROVE  d = e
    OBVIOUS
  <2>1. /\ L + d \in Int /\ L + e \in Int
        /\ (L + d) - (L + e) < IndexMod /\ (L + e) - (L + d) < IndexMod
    BY <1>3
  <2>2. L + d = L + e
    BY <2>1, WrapInjective
  <2> QED BY <1>3, <2>2
<1>10. \A o \in DOMAIN out_of_order_packets : \E d \in 1..Half - 1 :
         o = Wrap(L + d) /\ L + d < Len(script)
  BY DEF IndexInv, L
<1>11. n < Half
  <2> SUFFICES ASSUME n >= Half PROVE FALSE
    BY <1>3, <1>5
  <2>1. Half \in 1..n /\ Half \in 0..Half
    BY <1>3, <1>5
  <2>2. PICK d \in 1..Half - 1 : Wrap(L + Half) = Wrap(L + d)
    BY <1>7, <1>10, <2>1
  <2>3. d \in 0..Half
    BY <1>3
  <2>4. d = Half
    BY <1>9, <2>1, <2>2, <2>3
  <2> QED BY <1>3, <2>4
<1>12. L + n < Len(script)
  <2>1. CASE n = 0
    BY <1>1, <1>2, <1>3, <2>1 DEF ClientInv, L
  <2>2. CASE n # 0
    <3>1. n \in 1..n /\ n \in 0..Half
      BY <1>3, <1>5, <1>11, <2>2
    <3>2. PICK d \in 1..Half - 1 : Wrap(L + n) = Wrap(L + d) /\ L + d < Len(script)
      BY <1>7, <1>10, <3>1
    <3>3. d \in 0..Half
      BY <1>3
    <3>4. d = n
      BY <1>9, <3>1, <3>2, <3>3
    <3> QED BY <3>2, <3>4
  <2> QED BY <2>1, <2>2
<1>13. /\ Len(ordered') = L + n + 1
       /\ \A j \in 1..L : ordered'[j] = ordered[j]
       /\ \A i \in 1..n + 1 : ordered'[L + i] = Released(data, rel_ord_index, n)[i]
  <2> DEFINE R == Released(data, rel_ord_index, n)
  <2> DEFINE U == Seq(Nat) \cup {data}
                  \cup {out_of_order_packets[o] : o \in DOMAIN out_of_order_packets}
  <2>1. R \in Seq(U) /\ Len(R) = n + 1
    <3>1. \A i \in 1..n + 1 : i # 1 => Wrap(rel_ord_index + i - 1) \in DOMAIN out_of_order_packets
      <4> SUFFICES ASSUME NEW i \in 1..n + 1, i # 1
                   PROVE  Wrap(rel_ord_index + i - 1) \in DOMAIN out_of_order_packets
        OBVIOUS
      <4>1. i - 1 \in 1..n /\ rel_ord_index + (i - 1) = rel_ord_index + i - 1
        BY <1>5, <1>r
      <4> QED BY <1>4, <4>1 DEF Drains
    <3> QED BY <1>5, <3>1 DEF Released
  <2>2. ordered' = ordered \o R
    BY <1>4
  <2>3. ordered \in Seq(U) /\ L = Len(ordered)
    <3>1. ordered \in Seq(Seq(Nat))
      BY DEF TypeOK
    <3>2. \A j \in 1..Len(ordered) : ordered[j] \in U
      BY <3>1
    <3>3. ordered \in Seq(U)
      BY <3>1, <3>2
    <3> QED BY <3>3 DEF L
  <2> HIDE DEF R, U
  <2>4. /\ Len(ordered') = L + n + 1
        /\ \A j \in 1..L : ordered'[j] = ordered[j]
        /\ \A i \in 1..n + 1 : ordered'[L + i] = R[i]
    <3>1. /\ Len(ordered \o R) = Len(ordered) + Len(R)
          /\ \A i \in 1..Len(ordered) + Len(R) :
                (ordered \o R)[i] = IF i <= Len(ordered) THEN ordered[i] ELSE R[i - Len(ordered)]
      BY <2>1, <2>3, ConcatProperties
    <3>2. Len(ordered') = L + (n + 1)
      BY <2>1, <2>2, <2>3, <3>1
    <3>3. \A j \in 1..L : ordered'[j] = ordered[j]
      BY <1>3, <1>5, <2>1, <2>2, <2>3, <3>1
    <3>4. ASSUME NEW i \in 1..n + 1 PROVE ordered'[L + i] = R[i]
      <4>1. L + i \in 1..Len(ordered) + Len(R) /\ ~(L + i <= Len(ordered)) /\ (L + i) - Len(ordered) = i
        BY <1>3, <1>5, <2>1, <2>3
      <4> QED BY <2>2, <3>1, <4>1
    <3> QED BY <1>3, <1>5, <3>2, <3>3, <3>4
  <2> QED BY <2>4 DEF R
<1>14. ordered'[L + 1] = data
  BY <1>5, <1>13 DEF Released
<1>15. \A i \in 1..n : ordered'[L + 1 + i] = out_of_order_packets[Wrap(L + i)]
  <2> SUFFICES ASSUME NEW i \in 1..n
               PROVE  ordered'[L + 1 + i] = out_of_order_packets[Wrap(L + i)]
    OBVIOUS
  <2>1. i + 1 \in 1..n + 1 /\ i + 1 # 1 /\ L + (i + 1) = L + 1 + i
        /\ rel_ord_index + (i + 1) - 1 = rel_ord_index + i /\ i \in Int
    BY <1>3, <1>5, <1>r
  <2>2. Released(data, rel_ord_index, n)[i + 1] = out_of_order_packets[Wrap(rel_ord_index + i)]
    BY <2>1 DEF Released
  <2>3. ordered'[L + (i + 1)] = Released(data, rel_ord_index, n)[i + 1]
    BY <1>13, <2>1
  <2> QED BY <1>6, <2>1, <2>2, <2>3
<1>16. rel_ord_index' = Wrap(L + n + 1)
  <2>1. rel_ord_index + n + 1 = rel_ord_index + (n + 1) /\ L + (n + 1) = L + n + 1 /\ n + 1 \in Int
    BY <1>3, <1>5, <1>r
  <2> QED BY <1>4, <1>6, <2>1
<1>17. ASSUME NEW o \in DOMAIN out_of_order_packets'
       PROVE  /\ o \in DOMAIN out_of_order_packets
              /\ out_of_order_packets'[o] = out_of_order_packets[o]
              /\ \A d \in 1..Half - 1 : o = Wrap(L + d) => d >= n + 2
  <2>1. /\ o \in DOMAIN out_of_order_packets
        /\ out_of_order_packets'[o] = out_of_order_packets[o]
        /\ \A i \in 1..n : o # Wrap(rel_ord_index + i)
    BY <1>4
  <2>2. ASSUME NEW d \in 1..Half - 1, o = Wrap(L + d), d < n + 2
        PROVE  FALSE
    <3>1. d \in 1..n \/ d = n + 1
      BY <1>3, <1>5, <2>2
    <3>2. CASE d \in 1..n
      BY <1>6, <2>1, <2>2, <3>2
    <3>3. CASE d = n + 1
      BY <1>8, <2>1, <2>2, <3>3
    <3> QED BY <3>1, <3>2, <3>3
  <2> QED BY <1>3, <1>5, <2>1, <2>2
<1>18. ASSUME NEW o \in DOMAIN out_of_order_packets, o \notin DOMAIN out_of_order_packets'
       PROVE  \E i \in 1..n : o = Wrap(L + i)
  <2>1. PICK i \in 1..n : o = Wrap(rel_ord_index + i)
    BY <1>4, <1>18
  <2> QED BY <1>6, <2>1
<1> QED BY <1>2, <1>5, <1>7, <1>11, <1>12, <1>13, <1>14, <1>15, <1>16, <1>17, <1>18
        DEF Drained, L

\* Accepting a message keeps the indices right, whatever its data.
LEMMA AcceptIndex ==
  ASSUME TypeOK, ClientInv, IndexInv, NEW p \in sent, InHorizon(p),
         NEW data, Accept(p, data), UNCHANGED script
  PROVE  IndexInv'
<1> DEFINE L == Len(ordered)
<1>1. L \in Nat /\ Half \in Nat /\ Half >= 1 /\ p.idx \in Nat /\ Len(script) \in Nat
  BY SMTT(40), HalfBounds, PacketFacts DEF TypeOK
<1>2. CASE UNCHANGED <<rel_ord_index, out_of_order_packets, ordered>>
  BY <1>2 DEF IndexInv
<1>3. CASE AcceptInTurn(p, data)
  <2>1. PICK n \in Nat : Drained(data, n)
    BY <1>3, InTurnDrains
  <2>2. Len(ordered') = L + n + 1 /\ rel_ord_index' = Wrap(L + n + 1) /\ L + n < Len(script)
    BY <2>1 DEF Drained
  <2>3. ASSUME NEW o \in DOMAIN out_of_order_packets'
        PROVE  \E d \in 1..Half - 1 :
                 o = Wrap(Len(ordered') + d) /\ Len(ordered') + d < Len(script)
    <3>1. o \in DOMAIN out_of_order_packets
      BY <2>1, <2>3 DEF Drained
    <3>2. PICK d \in 1..Half - 1 : o = Wrap(L + d) /\ L + d < Len(script)
      BY <3>1 DEF IndexInv
    <3>3. d >= n + 2
      BY <2>1, <2>3, <3>2 DEF Drained
    <3>4. d - n - 1 \in 1..Half - 1 /\ Len(ordered') + (d - n - 1) = L + d
      BY <1>1, <2>2, <3>3
    <3> QED BY <3>2, <3>4
  <2>4. Len(ordered') <= Len(script)
    BY <1>1, <2>2
  <2> QED BY <2>2, <2>3, <2>4 DEF IndexInv
<1>4. CASE AcceptEarly(p, data)
  <2>1. p.rel = "ReliableOrdered" /\ Wrap(p.idx) # rel_ord_index
        /\ Ahead(Wrap(p.idx), rel_ord_index)
    BY <1>4 DEF AcceptEarly
  <2>2. p.idx >= L /\ p.idx < L + Half
    BY <2>1, OrderedTurn
  <2>3. p.idx # L
    BY <2>1 DEF IndexInv
  <2>4. p.idx - L \in 1..Half - 1 /\ L + (p.idx - L) = p.idx /\ p.idx < Len(script)
    BY <1>1, <2>1, <2>2, <2>3 DEF ClientInv
  <2>5. /\ DOMAIN out_of_order_packets' = DOMAIN out_of_order_packets \cup {Wrap(p.idx)}
        /\ UNCHANGED <<rel_ord_index, ordered>>
    BY <1>4 DEF AcceptEarly, outVars
  <2> QED BY <2>4, <2>5 DEF IndexInv
<1> QED BY <1>2, <1>3, <1>4 DEF Accept, Disconnect, AcceptSequenced, DropDuplicate,
           AcceptLoose, recvVars, outVars

\* Accepting a message whose data is what the client sent keeps the data right.
LEMMA AcceptData ==
  ASSUME TypeOK, ClientInv, IndexInv, OrderedExact, EarlyExact,
         NEW p \in sent, InHorizon(p), Accept(p, Whole(p)), UNCHANGED script
  PROVE  OrderedExact' /\ EarlyExact'
<1> DEFINE L == Len(ordered)
<1>1. L \in Nat /\ Half \in Nat /\ Half >= 1 /\ 2 * Half < IndexMod /\ IndexMod \in Nat
      /\ p.idx \in Nat /\ Len(script) \in Nat
  <2>1. p.idx \in Nat
    BY PacketFacts
  <2>2. L \in Nat /\ Len(script) \in Nat
    BY DEF TypeOK
  <2> QED BY <2>1, <2>2, HalfBounds, IndexModAssumption
<1>2. CASE UNCHANGED <<rel_ord_index, out_of_order_packets, ordered>>
  BY <1>2 DEF OrderedExact, EarlyExact
<1>3. CASE AcceptInTurn(p, Whole(p))
  <2>1. p.idx = L /\ p.rel = "ReliableOrdered"
    BY <1>3, InTurnDrains DEF AcceptInTurn
  <2>2. PICK n \in Nat : Drained(Whole(p), n)
    BY <1>3, InTurnDrains
  <2>3. Len(ordered') = L + n + 1 /\ L + n < Len(script) /\ n < Half
    BY <2>2 DEF Drained
  <2>4. ASSUME NEW j \in 1..Len(ordered') PROVE ordered'[j] = script[j]
    <3>1. CASE j \in 1..L
      BY <2>2, <3>1 DEF Drained, OrderedExact
    <3>2. CASE j = L + 1
      BY <2>1, <2>2, <3>2 DEF Drained, ClientInv
    <3>3. CASE j > L + 1
      <4> DEFINE i == j - L - 1
      <4>1. i \in 1..n /\ j = L + 1 + i /\ i \in 1..Half - 1 /\ L + i + 1 = j
        BY <1>1, <2>3, <3>3
      <4>2. ordered'[L + 1 + i] = out_of_order_packets[Wrap(L + i)]
            /\ Wrap(L + i) \in DOMAIN out_of_order_packets
        BY <2>2, <4>1 DEF Drained
      <4>3. out_of_order_packets[Wrap(L + i)] = script[L + i + 1]
        BY <4>1, <4>2 DEF EarlyExact
      <4> QED BY <4>1, <4>2, <4>3
    <3> QED BY <1>1, <2>3, <3>1, <3>2, <3>3
  <2>5. ASSUME NEW o \in DOMAIN out_of_order_packets', NEW e \in 1..Half - 1,
               o = Wrap(Len(ordered') + e)
        PROVE  out_of_order_packets'[o] = script[Len(ordered') + e + 1]
    <3>1. o \in DOMAIN out_of_order_packets /\ out_of_order_packets'[o] = out_of_order_packets[o]
      BY <2>2, <2>5 DEF Drained
    <3>2. PICK d \in 1..Half - 1 : o = Wrap(L + d) /\ L + d < Len(script)
      BY <3>1 DEF IndexInv
    <3>3. d >= n + 2
      BY <2>2, <2>5, <3>2 DEF Drained
    <3>4. /\ L + d \in Int /\ Len(ordered') + e \in Int
          /\ (L + d) - (Len(ordered') + e) < IndexMod
          /\ (Len(ordered') + e) - (L + d) < IndexMod
      BY <1>1, <2>3, <3>3
    <3>5. L + d = Len(ordered') + e
      BY <2>5, <3>2, <3>4, WrapInjective
    <3>6. out_of_order_packets[o] = script[L + d + 1]
      BY <3>1, <3>2 DEF EarlyExact
    <3> QED BY <3>1, <3>5, <3>6
  <2>6. Len(ordered') <= Len(script)
    BY <1>1, <2>3
  <2> QED BY <2>4, <2>5, <2>6 DEF OrderedExact, EarlyExact
<1>4. CASE AcceptEarly(p, Whole(p))
  <2>1. p.rel = "ReliableOrdered" /\ Wrap(p.idx) # rel_ord_index
        /\ Ahead(Wrap(p.idx), rel_ord_index)
    BY <1>4 DEF AcceptEarly
  <2>2. p.idx >= L /\ p.idx < L + Half
    BY <2>1, OrderedTurn
  <2>3. UNCHANGED ordered /\ out_of_order_packets' =
          [o \in DOMAIN out_of_order_packets \cup {Wrap(p.idx)} |->
             IF o = Wrap(p.idx) THEN Whole(p) ELSE out_of_order_packets[o]]
    BY <1>4 DEF AcceptEarly, outVars
  <2>4. ASSUME NEW o \in DOMAIN out_of_order_packets', NEW d \in 1..Half - 1, o = Wrap(L + d)
        PROVE  out_of_order_packets'[o] = script[L + d + 1]
    <3>1. CASE o # Wrap(p.idx)
      BY <2>3, <2>4, <3>1 DEF EarlyExact
    <3>2. CASE o = Wrap(p.idx)
      <4>1. L + d \in Int /\ p.idx \in Int /\ (L + d) - p.idx < IndexMod /\ p.idx - (L + d) < IndexMod
        BY <1>1, <2>2
      <4>2. L + d = p.idx
        BY <2>4, <3>2, <4>1, WrapInjective
      <4>3. script[p.idx + 1] = Whole(p)
        BY <2>1 DEF ClientInv
      <4> QED BY <2>3, <3>2, <4>2, <4>3
    <3> QED BY <3>1, <3>2
  <2> QED BY ZenonT(60), <2>3, <2>4 DEF OrderedExact, EarlyExact
<1> QED BY <1>2, <1>3, <1>4 DEF Accept, Disconnect, AcceptSequenced, DropDuplicate,
           AcceptLoose, recvVars, outVars

\* Before an id is used again, packets with one wrapped id are of one message.
LEMMA SameId ==
  ASSUME TypeOK, ClientInv, NoReuse, NEW p \in sent, NEW q \in sent,
         p.count > 1, q.count > 1, SplitId(p.sid) = SplitId(q.sid)
  PROVE  SameMessage(p, q)
<1>1. p.sid \in Nat /\ q.sid \in Nat /\ next.split \in Nat
  BY PacketFacts DEF TypeOK
<1>2. p.sid < next.split /\ q.sid < next.split /\ next.split <= SplitMod
  BY DEF ClientInv, NoReuse
<1>3. p.sid \in 0..SplitMod - 1 /\ q.sid \in 0..SplitMod - 1
  BY <1>1, <1>2, SplitModAssumption
<1>4. SplitId(p.sid) = p.sid /\ SplitId(q.sid) = q.sid
  BY <1>3, SplitModAssumption, SMT DEF SplitId
<1> QED BY <1>4 DEF ClientInv

\* Storing a packet among the parts of its own message.
LEMMA StoredExact ==
  ASSUME TypeOK, ClientInv, NoReuse, SplitExact, NEW p \in sent, p.count > 1,
         SplitId(p.sid) \in DOMAIN split_packet_queue
  PROVE  /\ p.part \in DOMAIN split_packet_queue[SplitId(p.sid)]
         /\ PartsOf(split_packet_queue[SplitId(p.sid)], p) /\ PartsOf(Stored(p), p)
<1> DEFINE parts == split_packet_queue[SplitId(p.sid)]
<1>1. PICK q \in sent : q.count > 1 /\ SplitId(q.sid) = SplitId(p.sid) /\ PartsOf(parts, q)
  BY DEF SplitExact
<1>2. q.count = p.count /\ p.num - p.part = q.num - q.part
  BY <1>1, SameId DEF SameMessage
<1>3. p.num \in Nat /\ p.part \in Nat /\ p.count \in Nat /\ p.part < p.count
  BY PacketFacts
<1> HIDE DEF parts
<1>4. DOMAIN parts = 0..p.count - 1
      /\ \A i \in 0..p.count - 1 : parts[i] \in {None, p.num - p.part + i}
  BY <1>1, <1>2 DEF PartsOf
<1>5. p.part \in DOMAIN parts
  BY <1>3, <1>4
<1>6. Stored(p) = [parts EXCEPT ![p.part] = p.num]
  BY DEF Stored, parts
<1>7. p.num = p.num - p.part + p.part
  BY <1>3
<1>8. PartsOf(Stored(p), p)
  BY <1>4, <1>5, <1>6, <1>7 DEF PartsOf
<1>9. PartsOf(parts, p)
  BY <1>4 DEF PartsOf
<1> QED BY <1>5, <1>8, <1>9 DEF parts

\* Parts without a gap join to the message the client sent.
LEMMA JoinedWhole ==
  ASSUME NEW p \in PacketType, p.part <= p.num, NEW parts, PartsOf(parts, p),
         \A i \in DOMAIN parts : parts[i] # None
  PROVE  [i \in 1..Cardinality(DOMAIN parts) |-> parts[i - 1]] = Whole(p)
<1>1. p.num \in Nat /\ p.part \in Nat /\ p.count \in Nat
  BY DEF PacketType
<1>2. Cardinality(DOMAIN parts) = p.count
  BY <1>1, ZeroBasedCount DEF PartsOf
<1>3. ASSUME NEW i \in 1..p.count PROVE parts[i - 1] = p.num - p.part + i - 1
  <2>1. i - 1 \in 0..p.count - 1 /\ p.num - p.part + (i - 1) = p.num - p.part + i - 1
    BY <1>1
  <2> QED BY <2>1 DEF PartsOf
<1> QED BY <1>2, <1>3 DEF Whole

\* A packet that is not split is its message.
LEMMA WholeAlone ==
  ASSUME TypeOK, ClientInv, NEW p \in sent, p.count = 1
  PROVE  <<p.num>> = Whole(p)
<1>1. p \in PacketType /\ p.num \in Nat /\ p.part <= p.num /\ p.part = 0
  BY PacketFacts
<1>2. Whole(p) = [i \in 1..1 |-> p.num - 0 + i - 1]
  BY <1>1 DEF Whole
<1>3. Whole(p) \in Seq(Nat) /\ Len(Whole(p)) = 1
  BY <1>1, WholeType
<1>4. Whole(p)[1] = p.num
  BY <1>1, <1>2
<1> QED BY <1>1, <1>3, <1>4

\* The loop body keeps the indices right.
LEMMA ReceiveIndex ==
  ASSUME TypeOK, ClientInv, IndexInv, NEW p \in sent, Receive(p)
  PROVE  IndexInv'
<1>1. UNCHANGED script /\ InHorizon(p)
  BY DEF Receive, clientVars
<1>2. CASE ReceiveWhole(p)
  BY <1>1, <1>2, AcceptIndex DEF ReceiveWhole
<1>3. CASE ReceiveLastPart(p)
  BY <1>1, <1>3, AcceptIndex DEF ReceiveLastPart
<1>4. CASE ReceiveFirstPart(p) \/ ReceivePart(p)
  BY <1>1, <1>4 DEF ReceiveFirstPart, ReceivePart, IndexInv, recvVars, outVars
<1>5. CASE PanicOnPart(p)
  BY <1>1, <1>5, FreedEmpty DEF PanicOnPart, IndexInv
<1> QED BY <1>2, <1>3, <1>4, <1>5 DEF Receive

\* The loop body keeps the data right and does not panic, as long as no split id
\* was used again.
LEMMA ReceiveData ==
  ASSUME TypeOK, ClientInv, IndexInv, NoReuse, DataInv, NEW p \in sent, Receive(p)
  PROVE  DataInv'
<1>1. UNCHANGED <<sent, next, script>> /\ InHorizon(p) /\ status = "up"
  BY DEF Receive, clientVars
<1>2. /\ p \in PacketType /\ p.num \in Nat /\ p.part \in Nat /\ p.count \in Nat \ {0}
      /\ p.part < p.count /\ p.part <= p.num
  BY PacketFacts
<1> DEFINE sid == SplitId(p.sid)
<1>3. CASE ReceiveWhole(p)
  <2>2. p.count = 1 /\ <<p.num>> = Whole(p)
    BY <1>3, WholeAlone DEF ReceiveWhole
  <2>3. Accept(p, Whole(p)) /\ UNCHANGED <<split_packet_queue, status>>
    BY <1>3, <2>2 DEF ReceiveWhole
  <2>4. OrderedExact' /\ EarlyExact'
    BY <1>1, <2>3, AcceptData DEF DataInv
  <2> QED BY <1>1, <2>3, <2>4 DEF DataInv, SplitExact, NoPanic
<1>4. CASE ReceiveFirstPart(p)
  <2> DEFINE new == [i \in 0..p.count - 1 |-> IF i = p.part THEN p.num ELSE None]
  <2>1. /\ p.count > 1
        /\ split_packet_queue' = [s \in DOMAIN split_packet_queue \cup {sid} |->
                                     IF s = sid THEN new ELSE split_packet_queue[s]]
        /\ UNCHANGED <<recvVars, status, outVars>>
    BY <1>4 DEF ReceiveFirstPart
  <2>2. PartsOf(new, p)
    <3>1. p.num = p.num - p.part + p.part
      BY <1>2
    <3> QED BY <1>2, <3>1 DEF PartsOf
  <2> HIDE DEF new
  <2>3. SplitExact'
    BY <1>1, <2>1, <2>2 DEF DataInv, SplitExact
  <2> QED BY <1>1, <2>1, <2>3 DEF DataInv, OrderedExact, EarlyExact, NoPanic, recvVars, outVars
<1>5. CASE ReceivePart(p)
  <2>1. /\ p.count > 1 /\ sid \in DOMAIN split_packet_queue
        /\ split_packet_queue' = [split_packet_queue EXCEPT ![sid] = Stored(p)]
        /\ UNCHANGED <<recvVars, status, outVars>>
    BY <1>5 DEF ReceivePart
  <2>2. PartsOf(Stored(p), p)
    BY <2>1, StoredExact DEF DataInv
  <2>3. SplitExact'
    BY <1>1, <2>1, <2>2 DEF DataInv, SplitExact
  <2> QED BY <1>1, <2>1, <2>3 DEF DataInv, OrderedExact, EarlyExact, NoPanic, recvVars, outVars
<1>6. CASE ReceiveLastPart(p)
  <2>1. /\ p.count > 1 /\ sid \in DOMAIN split_packet_queue
        /\ \A i \in DOMAIN Stored(p) : Stored(p)[i] # None
        /\ split_packet_queue' = [s \in DOMAIN split_packet_queue \ {sid} |-> split_packet_queue[s]]
        /\ Accept(p, [i \in 1..Cardinality(DOMAIN Stored(p)) |-> Stored(p)[i - 1]])
        /\ UNCHANGED status
    BY <1>6 DEF ReceiveLastPart
  <2>2. PartsOf(Stored(p), p)
    BY <2>1, StoredExact DEF DataInv
  <2>3. Accept(p, Whole(p))
    BY <1>2, <2>1, <2>2, JoinedWhole
  <2>4. OrderedExact' /\ EarlyExact'
    BY <1>1, <2>3, AcceptData DEF DataInv
  <2>5. SplitExact'
    BY <1>1, <2>1 DEF DataInv, SplitExact
  <2> QED BY <1>1, <2>1, <2>4, <2>5 DEF DataInv, NoPanic
<1>7. CASE PanicOnPart(p)
  BY <1>7, StoredExact DEF DataInv, PanicOnPart
<1> QED BY <1>3, <1>4, <1>5, <1>6, <1>7 DEF Receive

\* The client's step: what it adds to sent and to the script.
LEMMA ClientSendInv ==
  ASSUME TypeOK, ClientInv, IndexInv, NEW k \in Kinds, ClientSend(k)
  PROVE  /\ ClientInv' /\ IndexInv'
         /\ NoReuse' => NoReuse
         /\ DataInv => DataInv'
<1>1. k.count \in Nat \ {0} /\ k.rel \in Reliability
  BY KindsAssumption DEF KindType
<1>2. next.num \in Nat /\ next.seq \in Nat /\ next.ord \in Nat /\ next.split \in Nat
      /\ script \in Seq(Seq(Nat)) /\ Len(script) \in Nat /\ Len(script) = next.ord
  BY DEF TypeOK, ClientInv
<1> DEFINE idx == CASE k.rel = "ReliableOrdered"     -> next.ord
                    [] k.rel = "UnreliableSequenced" -> next.seq
                    [] OTHER                         -> 0
           Packet(i) == [num |-> next.num + i, rel |-> k.rel, idx |-> idx,
                         sid |-> next.split, part |-> i, count |-> k.count,
                         disc |-> k.disc]
           data == [i \in 1..k.count |-> next.num + i - 1]
<1>3. /\ sent' = sent \cup {Packet(i) : i \in 0..k.count - 1}
      /\ script' = IF k.rel = "ReliableOrdered" THEN Append(script, data) ELSE script
      /\ next'.ord = next.ord + (IF k.rel = "ReliableOrdered" THEN 1 ELSE 0)
      /\ next'.split = next.split + (IF k.count > 1 THEN 1 ELSE 0)
      /\ UNCHANGED <<rel_ord_index, out_of_order_packets, split_packet_queue, status, ordered>>
  BY DEF ClientSend, recvVars, outVars
<1>4. k.rel = "ReliableOrdered" => idx = next.ord
  OBVIOUS
<1> HIDE DEF idx
<1>5. /\ Len(script') = next'.ord /\ Len(script') >= Len(script)
      /\ \A j \in 1..Len(script) : script'[j] = script[j]
      /\ k.rel = "ReliableOrdered" =>
           Len(script') = Len(script) + 1 /\ script'[Len(script) + 1] = data
  <2>1. data \in Seq(Nat)
    <3>1. next.num \in Nat /\ k.count \in Nat
      BY <1>1, <1>2
    <3> QED BY <3>1
  <2> DEFINE D == Seq(Nat)
  <2>2. data \in D /\ script \in Seq(D)
    BY <1>2, <2>1
  <2> HIDE DEF data, D
  <2> QED BY <1>2, <1>3, <2>2
<1>6. ASSUME NEW i \in 0..k.count - 1
      PROVE  /\ Packet(i).part < Packet(i).count /\ Packet(i).part <= Packet(i).num
             /\ Packet(i).count > 1 => Packet(i).sid < next'.split
             /\ Packet(i).num - Packet(i).part = next.num /\ Packet(i).count = k.count
             /\ Whole(Packet(i)) = data
  <2>1. Packet(i).num - Packet(i).part = next.num
    BY <1>1, <1>2
  <2>2. Whole(Packet(i)) = data
    BY <1>1, <2>1 DEF Whole
  <2> QED BY <1>1, <1>2, <1>3, <2>1, <2>2
<1>7. \A p \in sent : p \in PacketType /\ p.idx \in Nat /\ p.sid \in Nat
  BY DEF TypeOK, PacketType
<1>8. ASSUME NEW p \in sent'
      PROVE  p.part < p.count /\ p.part <= p.num /\ (p.count > 1 => p.sid < next'.split)
  <2>1. CASE p \in sent
    BY <1>2, <1>3, <1>7, <2>1 DEF ClientInv
  <2>2. CASE \E i \in 0..k.count - 1 : p = Packet(i)
    BY <1>6, <2>2
  <2> QED BY <1>3, <2>1, <2>2
<1>9. ASSUME NEW p \in sent', p.rel = "ReliableOrdered"
      PROVE  p.idx < Len(script') /\ script'[p.idx + 1] = Whole(p)
  <2>1. CASE p \in sent
    <3>1. p.idx < Len(script) /\ script[p.idx + 1] = Whole(p) /\ p.idx \in Nat
      BY <1>7, <1>9, <2>1 DEF ClientInv
    <3>2. p.idx + 1 \in 1..Len(script)
      BY <1>2, <3>1
    <3>3. Len(script') \in Nat
      BY <1>2, <1>3, <1>5
    <3> QED BY <1>2, <1>5, <3>1, <3>2, <3>3
  <2>2. CASE \E i \in 0..k.count - 1 : p = Packet(i)
    <3>1. PICK i \in 0..k.count - 1 : p = Packet(i)
      BY <2>2
    <3>2. p.rel = k.rel /\ p.idx = idx /\ Whole(p) = data
      BY <1>6, <3>1
    <3> QED BY <1>2, <1>4, <1>5, <1>9, <3>2
  <2> QED BY <1>3, <2>1, <2>2
<1>10. ASSUME NEW p \in sent', NEW q \in sent', p.count > 1, q.count > 1, p.sid = q.sid
       PROVE  SameMessage(p, q)
  <2>1. CASE p \in sent /\ q \in sent
    BY <1>10, <2>1 DEF ClientInv
  <2>2. ASSUME NEW r \in sent, r.count > 1, NEW i \in 0..k.count - 1, r.sid = Packet(i).sid
        PROVE  FALSE
    BY <1>2, <1>7, <2>2 DEF ClientInv
  <2>3. CASE p \notin sent /\ q \notin sent
    BY <1>3, <1>6, <2>3 DEF SameMessage
  <2> QED BY <1>3, <1>10, <2>1, <2>2, <2>3
<1>11. ClientInv'
  BY <1>5, <1>8, <1>9, <1>10 DEF ClientInv
<1>12. Len(ordered) \in Nat /\ Len(script') \in Nat
  BY <1>2, <1>3, <1>5 DEF TypeOK
<1>13. IndexInv'
  <2>1. Len(ordered) <= Len(script')
    BY <1>2, <1>5, <1>12 DEF IndexInv
  <2>2. \A d \in 1..Half - 1 : Len(ordered) + d < Len(script) => Len(ordered) + d < Len(script')
    BY <1>2, <1>5, <1>12, HalfBounds
  <2> QED BY <1>3, <2>1, <2>2 DEF IndexInv
<1>14. NoReuse' => NoReuse
  BY <1>1, <1>2, <1>3, SplitModAssumption DEF NoReuse
<1>15. ASSUME DataInv PROVE DataInv'
  <2>1. OrderedExact'
    <3>1. \A j \in 1..Len(ordered) : j \in 1..Len(script)
      BY <1>2, <1>12 DEF IndexInv
    <3>2. Len(ordered) <= Len(script')
      BY <1>2, <1>5, <1>12 DEF IndexInv
    <3> QED BY <1>3, <1>5, <1>15, <3>1, <3>2 DEF DataInv, OrderedExact
  <2>2. EarlyExact'
    <3> SUFFICES ASSUME NEW o \in DOMAIN out_of_order_packets, NEW d \in 1..Half - 1,
                        o = Wrap(Len(ordered) + d)
                 PROVE  out_of_order_packets[o] = script'[Len(ordered) + d + 1]
      BY <1>3 DEF EarlyExact
    <3>1. PICK e \in 1..Half - 1 : o = Wrap(Len(ordered) + e) /\ Len(ordered) + e < Len(script)
      BY DEF IndexInv
    <3>2. out_of_order_packets[o] = script[Len(ordered) + e + 1]
      BY <1>15, <3>1 DEF DataInv, EarlyExact
    <3>3. Half \in Nat /\ 2 * Half < IndexMod /\ IndexMod \in Nat
      BY HalfBounds, IndexModAssumption
    <3>4. /\ Len(ordered) + d \in Int /\ Len(ordered) + e \in Int
          /\ (Len(ordered) + d) - (Len(ordered) + e) < IndexMod
          /\ (Len(ordered) + e) - (Len(ordered) + d) < IndexMod
      BY <1>12, <3>3
    <3>5. Len(ordered) + d = Len(ordered) + e
      BY <3>1, <3>4, WrapInjective
    <3>6. Len(ordered) + d + 1 \in 1..Len(script)
      BY <1>2, <1>12, <3>1, <3>3, <3>5
    <3> QED BY <1>5, <3>2, <3>5, <3>6
  <2>3. SplitExact'
    BY <1>3, <1>15 DEF DataInv, SplitExact
  <2> QED BY <1>3, <1>15, <2>1, <2>2, <2>3 DEF DataInv, NoPanic
<1> QED BY <1>11, <1>13, <1>14, <1>15

\* Inv holds in every state.
LEMMA InvInvariant == Spec => []Inv
<1>1. Init => Inv
  <2> SUFFICES ASSUME Init PROVE Inv
    OBVIOUS
  <2>1. 0 \in 0..IndexMod - 1
    BY IndexModAssumption
  <2>2. DOMAIN out_of_order_packets = {} /\ DOMAIN split_packet_queue = {} /\ sent = {}
        /\ script = <<>> /\ ordered = <<>> /\ next.ord = 0 /\ status = "up"
        /\ rel_ord_index = 0
    BY DEF Init
  <2>3. TypeOK
    BY InitType
  <2>4. ClientInv
    BY <2>2 DEF ClientInv
  <2>5. IndexInv
    <3>1. Len(ordered) = 0 /\ Len(script) = 0
      BY <2>2
    <3>2. Wrap(0) = 0
      BY <2>1, WrapSmall
    <3> QED BY <2>2, <3>1, <3>2 DEF IndexInv
  <2>6. DataInv
    BY <2>2 DEF DataInv, OrderedExact, EarlyExact, SplitExact, NoPanic
  <2> QED BY <2>3, <2>4, <2>5, <2>6 DEF Inv
<1>2. Inv /\ [Next]_vars => Inv'
  <2> SUFFICES ASSUME Inv, [Next]_vars PROVE Inv'
    OBVIOUS
  <2>0. TypeOK /\ ClientInv /\ IndexInv /\ (NoReuse => DataInv)
    BY DEF Inv
  <2>1. CASE \E k \in Kinds : ClientSend(k)
    BY <2>0, <2>1, ClientSendType, ClientSendInv DEF Inv
  <2>2. CASE \E p \in sent : Receive(p)
    <3>1. PICK p \in sent : Receive(p)
      BY <2>2
    <3>2. TypeOK' /\ IndexInv'
      BY <2>0, <3>1, ReceiveType, ReceiveIndex
    <3>3. UNCHANGED <<sent, next, script>>
      BY <3>1 DEF Receive, clientVars
    <3>4. ClientInv'
      BY <2>0, <3>3 DEF ClientInv
    <3>5. NoReuse' => DataInv'
      <4>1. NoReuse' => NoReuse
        BY <3>3 DEF NoReuse
      <4> QED BY <2>0, <3>1, <4>1, ReceiveData
    <3> QED BY <3>2, <3>4, <3>5 DEF Inv
  <2>3. CASE \E S \in SUBSET acks : SendAcks(S)
    <3>1. TypeOK'
      BY <2>0, <2>3 DEF SendAcks, TypeOK, recvVars, outVars
    <3>2. UNCHANGED <<sent, next, script, recvVars, split_packet_queue, status, outVars>>
      BY <2>3 DEF SendAcks
    <3>3. ClientInv' /\ IndexInv' /\ (NoReuse' => DataInv')
      BY <2>0, <3>2 DEF ClientInv, IndexInv, NoReuse, DataInv, OrderedExact, EarlyExact,
                        SplitExact, NoPanic, recvVars, outVars
    <3> QED BY <3>1, <3>3 DEF Inv
  <2>4. CASE Drop
    <3>1. TypeOK'
      BY <2>0, <2>4, FreedEmpty DEF Drop, TypeOK, clientVars
    <3>2. /\ UNCHANGED <<sent, next, script, rel_ord_index, ordered>>
          /\ DOMAIN out_of_order_packets' = {} /\ DOMAIN split_packet_queue' = {}
          /\ status' = "dropped"
      BY <2>4, FreedEmpty DEF Drop, clientVars
    <3>3. ClientInv' /\ IndexInv' /\ (NoReuse' => DataInv')
      BY <2>0, <3>2 DEF ClientInv, IndexInv, NoReuse, DataInv, OrderedExact, EarlyExact,
                        SplitExact, NoPanic
    <3> QED BY <3>1, <3>3 DEF Inv
  <2>5. CASE UNCHANGED vars
    BY <2>0, <2>5 DEF Inv, TypeOK, ClientInv, IndexInv, NoReuse, DataInv, OrderedExact,
                      EarlyExact, SplitExact, NoPanic, vars, clientVars, recvVars, outVars
  <2> QED BY <2>1, <2>2, <2>3, <2>4, <2>5 DEF Next
<1> QED BY <1>1, <1>2, PTL DEF Spec

\* As long as the client has not used a split id twice, what is handed on as
\* ReliableOrdered is a prefix of what it sent as ReliableOrdered, and no part
\* is stored out of bounds: under loss, duplication and reordering, for any
\* number of messages and across any number of wraps of the ordering index.
THEOREM OrderedDelivery == Spec => []ExactUntilReuse
<1>1. Inv => ExactUntilReuse
  BY DEF Inv, DataInv, ExactUntilReuse
<1> QED BY <1>1, InvInvariant, PTL

\* Early messages wait less than half of the index space ahead of the receiver's
\* index, at places the client has sent, even if split ids are used again.
THEOREM EarlyStaysAhead == Spec => []EarlyAhead
<1>1. ASSUME Inv PROVE EarlyAhead
  <2> SUFFICES ASSUME NEW o \in DOMAIN out_of_order_packets
               PROVE  /\ Wrap(o - rel_ord_index) \in 1..Half - 1
                      /\ Len(ordered) + Wrap(o - rel_ord_index) < Len(script)
    BY DEF EarlyAhead
  <2>1. PICK d \in 1..Half - 1 : o = Wrap(Len(ordered) + d) /\ Len(ordered) + d < Len(script)
    BY <1>1 DEF Inv, IndexInv
  <2>2. Len(ordered) \in Nat /\ rel_ord_index = Wrap(Len(ordered))
    BY <1>1 DEF Inv, TypeOK, IndexInv
  <2>3. Half \in Nat /\ 2 * Half < IndexMod /\ IndexMod \in Nat
    BY HalfBounds, IndexModAssumption
  <2>4. Wrap(o - rel_ord_index) = Wrap((Len(ordered) + d) - Len(ordered))
    BY <2>1, <2>2, <2>3, WrapDifference
  <2>5. (Len(ordered) + d) - Len(ordered) = d /\ d \in 0..IndexMod - 1
    BY <2>2, <2>3
  <2>6. Wrap(o - rel_ord_index) = d
    BY <2>4, <2>5, WrapSmall
  <2> QED BY <2>1, <2>6
<1> QED BY <1>1, InvInvariant, PTL
=============================================================================
