------------------------ MODULE RakReceiveHeldProofs ------------------------
(***************************************************************************)
(* Further proofs about RakReceive: the sequenced messages, the messages   *)
(* handed on without order, and that acknowledging a packet before it is   *)
(* sorted out loses nothing.                                               *)
(***************************************************************************)
EXTENDS RakReceiveProofs

-----------------------------------------------------------------------------
(* Sequenced messages *)

\* The receiver's index is the one after the newest message handed on.
SeqInv == unrel_seq_index = Wrap(SeqNext) /\ SequencedNewest

\* Accepting a sequenced packet keeps this, whatever its data.
LEMMA AcceptSeq ==
  ASSUME TypeOK, ClientInv, SeqInv, NEW p \in sent, InHorizon(p),
         NEW data \in Seq(Nat), Accept(p, data)
  PROVE  SeqInv'
<1> DEFINE R == [idx : Nat, data : Seq(Nat)]
           r == [idx |-> p.idx, data |-> data]
<1>1. CASE UNCHANGED <<unrel_seq_index, sequenced>>
  BY <1>1 DEF SeqInv, SeqNext, SequencedNewest
<1>2. CASE /\ AcceptSequenced(p, data) /\ Ahead(Wrap(p.idx), unrel_seq_index)
  <2>1. /\ unrel_seq_index' = Wrap(Wrap(p.idx) + 1)
        /\ sequenced' = Append(sequenced, r) /\ p.rel = "UnreliableSequenced"
    BY <1>2 DEF AcceptSequenced
  <2>2. p.idx \in Nat /\ r \in R /\ sequenced \in Seq(R) /\ r.idx = p.idx
    BY PacketFacts DEF TypeOK
  <2>3. \A i \in 1..Len(sequenced) : sequenced[i].idx \in Nat
    <3>1. \A i \in 1..Len(sequenced) : sequenced[i] \in R
      BY <2>2, ElementOfSeq
    <3> QED BY <3>1
  <2>4. Len(sequenced) \in Nat
    BY <2>2
  <2> HIDE DEF r, R
  <2>5. /\ Len(sequenced') = Len(sequenced) + 1 /\ sequenced' # <<>>
        /\ sequenced'[Len(sequenced) + 1] = r
        /\ \A i \in 1..Len(sequenced) : sequenced'[i] = sequenced[i]
    <3>1. /\ sequenced' \in Seq(R) /\ Len(sequenced') = Len(sequenced) + 1
          /\ sequenced'[Len(sequenced) + 1] = r
          /\ \A i \in 1..Len(sequenced) : sequenced'[i] = sequenced[i]
      BY <2>1, <2>2, AppendProperties
    <3>2. sequenced' # <<>>
      BY <2>4, <3>1
    <3> QED BY <3>1, <3>2
  <2>6. /\ SeqNext \in Nat
        /\ \A i \in 1..Len(sequenced) : sequenced[i].idx < SeqNext
    <3>1. CASE sequenced = <<>>
      BY <2>4, <3>1 DEF SeqNext
    <3>2. CASE sequenced # <<>>
      <4>1. Len(sequenced) \in 1..Len(sequenced)
        BY <2>2, <3>2, EmptySeq
      <4>2. SeqNext = sequenced[Len(sequenced)].idx + 1 /\ sequenced[Len(sequenced)].idx \in Nat
        BY <2>3, <3>2, <4>1 DEF SeqNext
      <4>3. \A i \in 1..Len(sequenced) :
              i < Len(sequenced) => sequenced[i].idx < sequenced[Len(sequenced)].idx
        BY <4>1 DEF SeqInv, SequencedNewest
      <4>4. ASSUME NEW i \in 1..Len(sequenced) PROVE sequenced[i].idx < SeqNext
        <5>1. CASE i = Len(sequenced)
          BY <4>2, <5>1
        <5>2. CASE i # Len(sequenced)
          BY SMTT(40), <2>3, <2>4, <4>2, <4>3, <5>2
        <5> QED BY <5>1, <5>2
      <4> QED BY <4>2, <4>4
    <3> QED BY <3>1, <3>2
  <2>7. p.idx >= SeqNext
    <3>1. p.idx < SeqNext + Half /\ p.idx >= SeqNext - (IndexMod - Half)
      BY <2>1 DEF InHorizon
    <3>2. Ahead(Wrap(p.idx), Wrap(SeqNext))
      BY <1>2 DEF SeqInv
    <3> QED BY <2>2, <2>6, <3>1, <3>2, AheadExact
  <2>8. SeqNext' = p.idx + 1
    BY <2>2, <2>5 DEF SeqNext
  <2>9. unrel_seq_index' = Wrap(p.idx + 1)
    <3>1. p.idx \in Int /\ 1 \in Int
      BY <2>2
    <3>2. Wrap(Wrap(p.idx) + 1) = Wrap(p.idx + 1)
      BY <3>1, WrapSum
    <3> QED BY <2>1, <3>2
  <2>10. ASSUME NEW i \in 1..Len(sequenced'), NEW j \in 1..Len(sequenced'), i < j
         PROVE  sequenced'[i].idx < sequenced'[j].idx
    <3>1. i \in 1..Len(sequenced)
      BY <2>4, <2>5, <2>10
    <3>2. CASE j \in 1..Len(sequenced)
      BY <2>5, <2>10, <3>1, <3>2 DEF SeqInv, SequencedNewest
    <3>3. CASE j = Len(sequenced) + 1
      <4>1. sequenced'[j].idx = p.idx /\ sequenced'[i].idx = sequenced[i].idx
        BY <2>2, <2>5, <3>1, <3>3
      <4>2. sequenced[i].idx \in Nat /\ sequenced[i].idx < SeqNext
        BY <2>3, <2>6, <3>1
      <4> QED BY <2>2, <2>6, <2>7, <4>1, <4>2
    <3> QED BY <2>4, <2>5, <3>2, <3>3
  <2> QED BY <2>8, <2>9, <2>10 DEF SeqInv, SequencedNewest
<1> QED BY <1>1, <1>2 DEF Accept, Disconnect, AcceptSequenced, AcceptInTurn, AcceptEarly,
           DropDuplicate, AcceptLoose, recvVars, outVars

\* UnreliableSequenced messages are handed on at most once and never after a
\* newer one, whatever the network does within the horizon, across any number
\* of wraps of the index, and even if split ids are used again (recv.rs:83).
THEOREM SequencedInOrder == Spec => []SequencedNewest
<1>1. Init => SeqInv
  <2> SUFFICES ASSUME Init PROVE SeqInv
    OBVIOUS
  <2>1. 0 \in 0..IndexMod - 1
    BY IndexModAssumption
  <2>2. sequenced = <<>> /\ unrel_seq_index = 0
    BY DEF Init
  <2>3. unrel_seq_index = Wrap(SeqNext)
    BY <2>1, <2>2, WrapSmall DEF SeqNext
  <2> QED BY <2>2, <2>3 DEF SeqInv, SequencedNewest
<1>2. TypeOK /\ ClientInv /\ SeqInv /\ [Next]_vars => SeqInv'
  <2> SUFFICES ASSUME TypeOK, ClientInv, SeqInv, [Next]_vars PROVE SeqInv'
    OBVIOUS
  <2>1. CASE UNCHANGED <<unrel_seq_index, sequenced>>
    BY <2>1 DEF SeqInv, SeqNext, SequencedNewest
  <2>2. ASSUME NEW p \in sent, Receive(p) PROVE SeqInv'
    <3>1. InHorizon(p)
      BY <2>2 DEF Receive
    <3>2. CASE ReceiveWhole(p)
      <4>1. <<p.num>> \in Seq(Nat)
        BY PacketFacts
      <4> QED BY <3>1, <3>2, <4>1, AcceptSeq DEF ReceiveWhole
    <3>3. CASE ReceiveLastPart(p)
      <4> DEFINE data == [i \in 1..Cardinality(DOMAIN Stored(p)) |-> Stored(p)[i - 1]]
      <4>1. data \in Seq(Nat)
        BY <2>2, <3>3, StoredJoinedType
      <4>2. Accept(p, data)
        BY <3>3 DEF ReceiveLastPart
      <4> HIDE DEF data
      <4> QED BY <3>1, <4>1, <4>2, AcceptSeq
    <3>4. CASE ReceiveFirstPart(p) \/ ReceivePart(p)
      BY <2>1, <3>4 DEF ReceiveFirstPart, ReceivePart, recvVars, outVars
    <3>5. CASE PanicOnPart(p)
      BY <2>1, <3>5, FreedEmpty DEF PanicOnPart
    <3> QED BY <2>2, <3>2, <3>3, <3>4, <3>5 DEF Receive
  <2>3. CASE Drop
    BY <2>1, <2>3, FreedEmpty DEF Drop
  <2> QED BY <2>1, <2>2, <2>3 DEF Next, vars, ClientSend, SendAcks, recvVars, outVars
<1>3. Inv => TypeOK /\ ClientInv
  BY DEF Inv
<1>4. SeqInv => SequencedNewest
  BY DEF SeqInv
<1> QED BY <1>1, <1>2, <1>3, <1>4, InvInvariant, PTL DEF Spec

-----------------------------------------------------------------------------
(* Acknowledged packets *)

\* The numbers of the packets of p's message.
NumbersOf(p) == p.num - p.part .. p.num - p.part + p.count - 1

\* What the client's packets have in common: messages have ranges of numbers of
\* their own, within which all packets agree, and each ordered message is there.
MessageInv ==
  /\ \A p \in sent : p.num - p.part + p.count <= next.num
  /\ \A p, q \in sent : q.num \in NumbersOf(p) =>
        SameMessage(p, q) /\ q.rel = p.rel /\ q.idx = p.idx /\ q.disc = p.disc
  /\ \A k \in 1..Len(script) : \E r \in sent : r.rel = "ReliableOrdered" /\ r.idx = k - 1

\* Only numbers of reliable packets that were sent are acknowledged.
AckInv ==
  \A n \in acks \cup clientAcked :
    n \in Nat /\ n < next.num /\ \A q \in sent : q.num = n => IsReliable(q)

\* The inductive invariant, besides Inv.
HeldInv == MessageInv /\ AckInv /\ (NoReuse => UnmixedLoose /\ AckedHeld)

\* The number of a packet is one of its message's numbers, and so is the first.
LEMMA OwnNumbers ==
  ASSUME TypeOK, ClientInv, NEW p \in sent
  PROVE  /\ p.num \in NumbersOf(p) /\ p.num - p.part \in NumbersOf(p)
         /\ \A i \in 0..p.count - 1 : p.num - p.part + i \in NumbersOf(p)
         /\ Whole(p)[1] = p.num - p.part
<1>1. p.num \in Nat /\ p.part \in Nat /\ p.count \in Nat \ {0} /\ p.part < p.count /\ p.part <= p.num
  BY PacketFacts
<1>2. 1 \in 1..p.count /\ p.num - p.part + 1 - 1 = p.num - p.part
  BY <1>1
<1>3. Whole(p)[1] = p.num - p.part
  BY <1>2 DEF Whole
<1> QED BY <1>1, <1>3 DEF NumbersOf

\* Packets of one message have the same data.
LEMMA SameWhole ==
  ASSUME NEW p, NEW q, SameMessage(p, q)
  PROVE  Whole(p) = Whole(q)
BY DEF SameMessage, Whole

\* Messages with the same data are the same message.
LEMMA WholeIdentifies ==
  ASSUME TypeOK, ClientInv, MessageInv, NEW p \in sent, NEW q \in sent, Whole(p) = Whole(q)
  PROVE  q.rel = p.rel /\ q.idx = p.idx
<1>1. /\ p.num \in Nat /\ p.part \in Nat /\ p.count \in Nat \ {0} /\ p.part <= p.num
      /\ q.num \in Nat /\ q.part \in Nat /\ q.count \in Nat \ {0} /\ q.part <= q.num
      /\ q.part < q.count
  BY PacketFacts
<1>2. p.num - p.part = q.num - q.part
  BY OwnNumbers
<1>3. p.count = q.count
  <2>1. Len(Whole(p)) = p.count /\ Len(Whole(q)) = q.count
    BY <1>1, WholeType, PacketFacts
  <2> QED BY <2>1
<1>4. q.num \in NumbersOf(p)
  BY <1>1, <1>2, <1>3 DEF NumbersOf
<1> QED BY <1>4 DEF MessageInv

\* The client's step keeps the numbering.
LEMMA ClientSendMessages ==
  ASSUME TypeOK, ClientInv, IndexInv, MessageInv, AckInv, NEW k \in Kinds, ClientSend(k)
  PROVE  MessageInv' /\ AckInv'
<1>1. k.count \in Nat \ {0} /\ k.rel \in Reliability
  BY KindsAssumption DEF KindType
<1>2. next.num \in Nat /\ next.ord \in Nat /\ script \in Seq(Seq(Nat)) /\ Len(script) \in Nat
      /\ Len(script) = next.ord
  BY DEF TypeOK, ClientInv
<1> DEFINE idx == CASE k.rel = "ReliableOrdered"     -> next.ord
                    [] k.rel = "UnreliableSequenced" -> next.seq
                    [] OTHER                         -> 0
           Packet(i) == [num |-> next.num + i, rel |-> k.rel, idx |-> idx,
                         sid |-> next.split, part |-> i, count |-> k.count,
                         disc |-> k.disc]
<1>3. /\ sent' = sent \cup {Packet(i) : i \in 0..k.count - 1}
      /\ next'.num = next.num + k.count
      /\ next'.ord = next.ord + (IF k.rel = "ReliableOrdered" THEN 1 ELSE 0)
      /\ UNCHANGED <<acks, clientAcked>>
  BY DEF ClientSend
<1>4. k.rel = "ReliableOrdered" => idx = next.ord
  OBVIOUS
<1> HIDE DEF idx
<1>5. Len(script') = next'.ord
  BY ClientSendInv DEF ClientInv
<1>6. ASSUME NEW i \in 0..k.count - 1
      PROVE  /\ Packet(i) \in sent'
             /\ Packet(i).num - Packet(i).part = next.num
             /\ Packet(i).count = k.count /\ Packet(i).num >= next.num
             /\ NumbersOf(Packet(i)) = next.num .. next.num + k.count - 1
  <2>1. Packet(i).num - Packet(i).part = next.num /\ Packet(i).num >= next.num
    BY <1>1, <1>2
  <2>2. Packet(i) \in sent' /\ Packet(i).count = k.count
    BY <1>3
  <2>3. NumbersOf(Packet(i)) = next.num .. next.num + k.count - 1
    BY <2>1, <2>2 DEF NumbersOf
  <2> QED BY <2>1, <2>2, <2>3
<1>7. ASSUME NEW p \in sent
      PROVE  /\ p.num \in Nat /\ p.part \in Nat /\ p.count \in Nat /\ p.part < p.count
             /\ p.num < next.num /\ p.num - p.part + p.count <= next.num
  <2>1. /\ p.num \in Nat /\ p.part \in Nat /\ p.count \in Nat /\ p.part < p.count
        /\ p.num - p.part + p.count <= next.num
    BY PacketFacts DEF MessageInv
  <2> QED BY <1>2, <2>1
<1>8. ASSUME NEW p \in sent' PROVE p.num - p.part + p.count <= next'.num
  <2>1. CASE p \in sent
    BY <1>1, <1>2, <1>3, <1>7, <2>1
  <2>2. CASE \E i \in 0..k.count - 1 : p = Packet(i)
    BY <1>1, <1>2, <1>3, <1>6, <2>2
  <2> QED BY <1>3, <2>1, <2>2
<1>9. ASSUME NEW p \in sent', NEW q \in sent', q.num \in NumbersOf(p)
      PROVE  SameMessage(p, q) /\ q.rel = p.rel /\ q.idx = p.idx /\ q.disc = p.disc
  <2>1. CASE p \in sent /\ q \in sent
    BY <1>9, <2>1 DEF MessageInv
  <2>2. CASE p \in sent /\ \E i \in 0..k.count - 1 : q = Packet(i)
    <3>1. q.num >= next.num /\ q.num \in Nat
      BY <1>2, <1>6, <2>2
    <3> QED BY SMTT(40), <1>2, <1>7, <1>9, <2>2, <3>1 DEF NumbersOf
  <2>3. CASE q \in sent /\ \E i \in 0..k.count - 1 : p = Packet(i)
    <3>1. NumbersOf(p) = next.num .. next.num + k.count - 1
      BY <1>6, <2>3
    <3> QED BY <1>2, <1>7, <1>9, <2>3, <3>1
  <2>4. CASE (\E i \in 0..k.count - 1 : p = Packet(i)) /\ (\E i \in 0..k.count - 1 : q = Packet(i))
    <3>1. SameMessage(p, q)
      BY <1>6, <2>4 DEF SameMessage
    <3> QED BY <2>4, <3>1
  <2> QED BY <1>3, <2>1, <2>2, <2>3, <2>4
<1>10. ASSUME NEW j \in 1..Len(script')
       PROVE  \E r \in sent' : r.rel = "ReliableOrdered" /\ r.idx = j - 1
  <2>1. CASE j \in 1..Len(script)
    BY <1>3, <2>1 DEF MessageInv
  <2>2. CASE j \notin 1..Len(script)
    <3>1. k.rel = "ReliableOrdered" /\ j = Len(script) + 1
      BY <1>2, <1>3, <1>5, <2>2
    <3>2. 0 \in 0..k.count - 1
      BY <1>1
    <3>3. Packet(0) \in sent' /\ Packet(0).rel = "ReliableOrdered" /\ Packet(0).idx = j - 1
      BY <1>2, <1>4, <1>6, <3>1, <3>2
    <3> QED BY <3>3
  <2> QED BY <2>1, <2>2
<1>11. MessageInv'
  BY <1>8, <1>9, <1>10 DEF MessageInv
<1>12. AckInv'
  <2> SUFFICES ASSUME NEW n \in acks \cup clientAcked
               PROVE  n \in Nat /\ n < next'.num /\ \A q \in sent' : q.num = n => IsReliable(q)
    BY <1>3 DEF AckInv
  <2>1. n \in Nat /\ n < next.num /\ \A q \in sent : q.num = n => IsReliable(q)
    BY DEF AckInv
  <2>2. n < next'.num
    BY <1>1, <1>2, <1>3, <2>1
  <2>3. \A i \in 0..k.count - 1 : Packet(i).num # n
    BY <1>1, <1>2, <1>6, <2>1
  <2> QED BY <1>3, <2>1, <2>2, <2>3
<1> QED BY <1>11, <1>12

\* The message of p is queued as an early one or was handed on.
SortedOut(p) ==
  \/ p.rel = "ReliableOrdered" /\ p.idx < Len(ordered)
  \/ \E o \in DOMAIN out_of_order_packets : out_of_order_packets[o] = Whole(p)
  \/ Whole(p) \in loose

\* The chunk of p waits for other parts.
Waiting(p) ==
  \E s \in DOMAIN split_packet_queue : \E i \in DOMAIN split_packet_queue[s] :
    split_packet_queue[s][i] = p.num

\* A complete reliable message is queued, handed on, or a goodbye.
LEMMA AcceptSorts ==
  ASSUME TypeOK, ClientInv, IndexInv, MessageInv, NEW p \in sent, InHorizon(p),
         IsReliable(p), Accept(p, Whole(p))
  PROVE  p.disc \/ SortedOut(p)'
<1>1. p.idx \in Nat /\ Len(ordered) \in Nat
  BY PacketFacts DEF TypeOK
<1>2. CASE Disconnect(Whole(p))
  <2>1. PICK r \in sent : r.num = Whole(p)[1] /\ r.disc
    BY <1>2 DEF Disconnect, IsGoodbye
  <2>2. r.num \in NumbersOf(p)
    BY <2>1, OwnNumbers
  <2> QED BY <2>1, <2>2 DEF MessageInv
<1>3. CASE AcceptInTurn(p, Whole(p))
  <2>1. p.rel = "ReliableOrdered" /\ p.idx = Len(ordered)
    BY <1>3, InTurnDrains DEF AcceptInTurn
  <2>2. PICK n \in Nat : Len(ordered') = Len(ordered) + n + 1
    BY <1>3, InTurnDrains DEF Drained
  <2>3. p.idx < Len(ordered')
    BY <1>1, <2>1, <2>2
  <2> QED BY <2>1, <2>3 DEF SortedOut
<1>4. CASE AcceptEarly(p, Whole(p))
  <2>1. /\ Wrap(p.idx) \in DOMAIN out_of_order_packets'
        /\ out_of_order_packets'[Wrap(p.idx)] = Whole(p)
    BY <1>4 DEF AcceptEarly
  <2> QED BY <2>1 DEF SortedOut
<1>5. CASE DropDuplicate(p)
  <2>1. p.rel = "ReliableOrdered" /\ ~Ahead(Wrap(p.idx), rel_ord_index) /\ UNCHANGED ordered
    BY <1>5 DEF DropDuplicate, outVars
  <2>2. p.idx < Len(ordered)
    BY <1>1, <2>1, OrderedTurn
  <2> QED BY <2>1, <2>2 DEF SortedOut
<1>6. CASE AcceptLoose(p, Whole(p))
  BY <1>6 DEF AcceptLoose, SortedOut
<1>7. ~AcceptSequenced(p, Whole(p))
  BY DEF AcceptSequenced, IsReliable
<1> QED BY <1>2, <1>3, <1>4, <1>5, <1>6, <1>7 DEF Accept

\* Accepting a message takes no other one away: an early one is overwritten by
\* its own copy only, and released only to be handed on.
LEMMA AcceptKeeps ==
  ASSUME TypeOK, ClientInv, IndexInv, MessageInv, EarlyExact,
         NEW p \in sent, InHorizon(p), Accept(p, Whole(p)),
         NEW q \in sent, SortedOut(q)
  PROVE  SortedOut(q)'
<1> DEFINE L == Len(ordered)
<1>1. /\ L \in Nat /\ Len(script) \in Nat /\ p.idx \in Nat /\ q.idx \in Nat
      /\ Half \in Nat /\ Half >= 1 /\ 2 * Half < IndexMod /\ IndexMod \in Nat
  <2>1. p.idx \in Nat /\ q.idx \in Nat
    BY PacketFacts
  <2>2. L \in Nat /\ Len(script) \in Nat
    BY DEF TypeOK
  <2> QED BY <2>1, <2>2, HalfBounds, IndexModAssumption
<1>2. CASE UNCHANGED <<ordered, out_of_order_packets>> /\ loose \subseteq loose'
  BY <1>2 DEF SortedOut
<1>3. CASE AcceptInTurn(p, Whole(p))
  <2>1. PICK n \in Nat : Drained(Whole(p), n)
    BY <1>3, InTurnDrains
  <2>2. Len(ordered') = L + n + 1 /\ n < Half /\ loose' = loose /\ L + n < Len(script)
    BY <1>3, <2>1 DEF Drained, AcceptInTurn
  <2>3. CASE q.rel = "ReliableOrdered" /\ q.idx < L
    <3>1. q.idx < Len(ordered')
      BY <1>1, <2>2, <2>3
    <3> QED BY <2>3, <3>1 DEF SortedOut
  <2>4. CASE \E o \in DOMAIN out_of_order_packets : out_of_order_packets[o] = Whole(q)
    <3>1. PICK o \in DOMAIN out_of_order_packets : out_of_order_packets[o] = Whole(q)
      BY <2>4
    <3>2. CASE o \in DOMAIN out_of_order_packets'
      <4>1. out_of_order_packets'[o] = Whole(q)
        BY <2>1, <3>1, <3>2 DEF Drained
      <4> QED BY <3>2, <4>1 DEF SortedOut
    <3>3. CASE \E i \in 1..n : o = Wrap(L + i)
      <4>1. PICK i \in 1..n : o = Wrap(L + i)
        BY <3>3
      <4>2. i \in 1..Half - 1 /\ L + i + 1 \in 1..Len(script) /\ (L + i + 1) - 1 = L + i
        BY <1>1, <2>2
      <4>3. out_of_order_packets[o] = script[L + i + 1]
        BY <4>1, <4>2 DEF EarlyExact
      <4>4. PICK r \in sent : r.rel = "ReliableOrdered" /\ r.idx = L + i
        BY <4>2 DEF MessageInv
      <4>5. script[L + i + 1] = Whole(r)
        BY <4>4 DEF ClientInv
      <4>6. q.rel = "ReliableOrdered" /\ q.idx = L + i
        BY <3>1, <4>3, <4>4, <4>5, WholeIdentifies
      <4>7. q.idx < Len(ordered')
        BY <1>1, <2>2, <4>6
      <4> QED BY <4>6, <4>7 DEF SortedOut
    <3> QED BY <2>1, <3>2, <3>3 DEF Drained
  <2>5. CASE Whole(q) \in loose
    BY <2>2, <2>5 DEF SortedOut
  <2> QED BY <2>3, <2>4, <2>5 DEF SortedOut
<1>4. CASE AcceptEarly(p, Whole(p))
  <2>1. p.rel = "ReliableOrdered" /\ Wrap(p.idx) # rel_ord_index
        /\ Ahead(Wrap(p.idx), rel_ord_index)
    BY <1>4 DEF AcceptEarly
  <2>2. p.idx >= L /\ p.idx < L + Half /\ p.idx # L
    BY <2>1, OrderedTurn DEF IndexInv
  <2>3. /\ UNCHANGED <<ordered, loose>>
        /\ out_of_order_packets' =
             [o \in DOMAIN out_of_order_packets \cup {Wrap(p.idx)} |->
                IF o = Wrap(p.idx) THEN Whole(p) ELSE out_of_order_packets[o]]
    BY <1>4 DEF AcceptEarly, outVars
  <2>4. Wrap(p.idx) \in DOMAIN out_of_order_packets => out_of_order_packets[Wrap(p.idx)] = Whole(p)
    <3>1. p.idx - L \in 1..Half - 1 /\ L + (p.idx - L) = p.idx
      BY <1>1, <2>2
    <3>2. Wrap(p.idx) \in DOMAIN out_of_order_packets =>
            out_of_order_packets[Wrap(p.idx)] = script[p.idx + 1]
      BY <3>1 DEF EarlyExact
    <3> QED BY <2>1, <3>2 DEF ClientInv
  <2> QED BY <2>3, <2>4 DEF SortedOut
<1> QED BY <1>2, <1>3, <1>4 DEF Accept, Disconnect, AcceptSequenced, DropDuplicate,
           AcceptLoose, recvVars, outVars

\* What is handed on without order is a message of the client.
LEMMA AcceptUnmixed ==
  ASSUME TypeOK, UnmixedLoose, NEW p \in sent, Accept(p, Whole(p)), UNCHANGED sent
  PROVE  UnmixedLoose'
<1>1. \A d \in loose' : \E q \in sent' : d = Whole(q)
  BY DEF Accept, Disconnect, AcceptSequenced, AcceptInTurn, AcceptEarly, DropDuplicate,
         AcceptLoose, outVars, UnmixedLoose
<1> DEFINE r == [idx |-> p.idx, data |-> Whole(p)]
<1>2. \/ UNCHANGED sequenced
      \/ p.rel = "UnreliableSequenced" /\ sequenced' = Append(sequenced, r)
  BY DEF Accept, Disconnect, AcceptSequenced, AcceptInTurn, AcceptEarly, DropDuplicate,
         AcceptLoose, outVars
<1>3. ASSUME NEW i \in 1..Len(sequenced')
      PROVE  \E q \in sent' : /\ q.rel = "UnreliableSequenced" /\ q.idx = sequenced'[i].idx
                              /\ sequenced'[i].data = Whole(q)
  <2>1. CASE i \in 1..Len(sequenced) /\ sequenced'[i] = sequenced[i]
    BY <2>1 DEF UnmixedLoose
  <2>2. CASE p.rel = "UnreliableSequenced" /\ sequenced'[i] = r
    BY <2>2
  <2>3. CASE UNCHANGED sequenced
    BY <2>1, <2>3
  <2>4. CASE p.rel = "UnreliableSequenced" /\ sequenced' = Append(sequenced, r)
    <3> DEFINE T == [idx : Nat, data : Seq(Nat)]
               R == T \cup {r}
    <3>1. sequenced \in Seq(R) /\ r \in R
      <4>1. sequenced \in Seq(T)
        BY DEF TypeOK
      <4> HIDE DEF T, r
      <4>2. \A j \in 1..Len(sequenced) : sequenced[j] \in R
        BY <4>1, ElementOfSeq
      <4> QED BY <4>1, <4>2
    <3> HIDE DEF R, r
    <3>2. /\ Len(sequenced') = Len(sequenced) + 1
          /\ sequenced'[Len(sequenced) + 1] = r
          /\ \A j \in 1..Len(sequenced) : sequenced'[j] = sequenced[j]
      BY <2>4, <3>1, AppendProperties
    <3>3. Len(sequenced) \in Nat
      BY <3>1
    <3>4. i \in 1..Len(sequenced) \/ i = Len(sequenced) + 1
      BY <3>2, <3>3
    <3> QED BY <2>1, <2>2, <2>4, <3>2, <3>4
  <2> QED BY <1>2, <2>3, <2>4
<1> QED BY <1>1, <1>3 DEF UnmixedLoose

\* The packets of one message are sorted out together.
LEMMA SameFate ==
  ASSUME MessageInv, NEW p \in sent, NEW q \in sent, q.num \in NumbersOf(p)
  PROVE  /\ q.disc = p.disc /\ (IsReliable(q) <=> IsReliable(p))
         /\ SortedOut(p)' => SortedOut(q)'
<1>1. SameMessage(p, q) /\ q.rel = p.rel /\ q.idx = p.idx /\ q.disc = p.disc
  BY DEF MessageInv
<1>2. Whole(q) = Whole(p)
  BY <1>1, SameWhole
<1> QED BY <1>1, <1>2 DEF SortedOut, IsReliable

\* The loop body acknowledges numbers of reliable packets only.
LEMMA ReceiveAcks ==
  ASSUME TypeOK, ClientInv, MessageInv, AckInv, NEW p \in sent, Receive(p)
  PROVE  /\ AckInv'
         /\ \A q \in sent : q.num \in acks' \cup clientAcked' =>
              IsReliable(q) /\ (q.num \in acks \cup clientAcked \/ q.num = p.num)
<1>1. (Ack(p) \/ acks' = {}) /\ UNCHANGED <<sent, next, clientAcked>>
  BY FreedEmpty DEF Receive, ReceiveWhole, ReceiveFirstPart, ReceivePart, ReceiveLastPart,
                    PanicOnPart, clientVars
<1>2. p.num \in Nat /\ p.num < next.num
  <2>1. /\ p.num \in Nat /\ p.part \in Nat /\ p.count \in Nat /\ p.part < p.count
        /\ next.num \in Nat
    BY PacketFacts DEF TypeOK
  <2>2. p.num - p.part + p.count <= next.num
    BY DEF MessageInv
  <2> QED BY <2>1, <2>2
<1>3. \A q \in sent : q.num = p.num => (IsReliable(q) <=> IsReliable(p))
  BY OwnNumbers, SameFate
<1>4. AckInv'
  BY <1>1, <1>2, <1>3 DEF AckInv, Ack, IsReliable
<1>5. ASSUME NEW q \in sent, q.num \in acks' \cup clientAcked'
      PROVE  IsReliable(q) /\ (q.num \in acks \cup clientAcked \/ q.num = p.num)
  BY <1>1, <1>3, <1>5 DEF Ack, AckInv
<1> QED BY <1>4, <1>5

\* The loop body loses no packet that was acknowledged, and mixes no messages.
LEMMA ReceiveHeld ==
  ASSUME TypeOK, ClientInv, IndexInv, NoReuse, DataInv, MessageInv, AckInv,
         UnmixedLoose, AckedHeld, NEW p \in sent, Receive(p)
  PROVE  UnmixedLoose' /\ AckedHeld'
<1>1. UNCHANGED <<sent, next, script>> /\ InHorizon(p) /\ status = "up"
  BY DEF Receive, clientVars
<1>2. /\ p \in PacketType /\ p.num \in Nat /\ p.part \in Nat /\ p.count \in Nat \ {0}
      /\ p.part < p.count /\ p.part <= p.num
  BY PacketFacts
<1> DEFINE sid == SplitId(p.sid)
           Acked(q) == q \in sent /\ q.num \in acks' \cup clientAcked'
<1>3. ASSUME NEW q, Acked(q)
      PROVE  IsReliable(q) /\ (q.num = p.num \/ q.disc \/ Waiting(q) \/ SortedOut(q))
  <2>1. IsReliable(q) /\ (q.num \in acks \cup clientAcked \/ q.num = p.num)
    BY <1>3, ReceiveAcks
  <2> QED BY <1>1, <1>3, <2>1 DEF AckedHeld, Held, Waiting, SortedOut
<1>4. SUFFICES UnmixedLoose' /\ \A q : Acked(q) => q.disc \/ Waiting(q)' \/ SortedOut(q)'
  BY <1>1 DEF AckedHeld, Held, Waiting, SortedOut
<1>5. ASSUME Accept(p, Whole(p)), NEW q, Acked(q), q.num \in NumbersOf(p)
      PROVE  q.disc \/ SortedOut(q)'
  <2>1. IsReliable(p)
    BY <1>3, <1>5, SameFate
  <2>2. p.disc \/ SortedOut(p)'
    BY <1>1, <1>5, <2>1, AcceptSorts
  <2> QED BY <1>5, <2>2, SameFate
<1>6. ASSUME Accept(p, Whole(p)), NEW q, Acked(q), SortedOut(q)
      PROVE  SortedOut(q)'
  BY <1>1, <1>6, AcceptKeeps DEF DataInv
<1>7. CASE ReceiveWhole(p)
  <2>1. Accept(p, Whole(p)) /\ UNCHANGED split_packet_queue
    BY <1>7, WholeAlone DEF ReceiveWhole
  <2>2. UnmixedLoose'
    BY <1>1, <2>1, AcceptUnmixed
  <2>3. ASSUME NEW q, Acked(q) PROVE q.disc \/ Waiting(q)' \/ SortedOut(q)'
    <3>1. CASE q.num = p.num
      BY <1>5, <2>1, <2>3, <3>1, OwnNumbers
    <3>2. CASE Waiting(q)
      BY <2>1, <3>2 DEF Waiting
    <3>3. CASE SortedOut(q)
      BY <1>6, <2>1, <2>3, <3>3
    <3> QED BY <1>3, <2>3, <3>1, <3>2, <3>3
  <2> QED BY <2>2, <2>3
<1>8. CASE ReceiveFirstPart(p)
  <2> DEFINE new == [i \in 0..p.count - 1 |-> IF i = p.part THEN p.num ELSE None]
  <2>1. /\ sid \notin DOMAIN split_packet_queue
        /\ split_packet_queue' = [s \in DOMAIN split_packet_queue \cup {sid} |->
                                     IF s = sid THEN new ELSE split_packet_queue[s]]
        /\ UNCHANGED <<recvVars, outVars>>
    BY <1>8 DEF ReceiveFirstPart
  <2>2. p.part \in DOMAIN new /\ new[p.part] = p.num
    BY <1>2
  <2> HIDE DEF new
  <2>3. UnmixedLoose'
    BY <1>1, <2>1 DEF UnmixedLoose, outVars
  <2>4. \A q : Waiting(q) => Waiting(q)'
    BY <2>1 DEF Waiting
  <2>5. \A q : q.num = p.num => Waiting(q)'
    BY <2>1, <2>2 DEF Waiting
  <2>6. \A q : SortedOut(q) => SortedOut(q)'
    BY <2>1 DEF SortedOut, recvVars, outVars
  <2> QED BY <1>3, <2>3, <2>4, <2>5, <2>6
<1>9. CASE ReceivePart(p)
  <2>1. /\ p.count > 1 /\ sid \in DOMAIN split_packet_queue
        /\ split_packet_queue' = [split_packet_queue EXCEPT ![sid] = Stored(p)]
        /\ UNCHANGED <<recvVars, outVars>>
    BY <1>9 DEF ReceivePart
  <2>2. p.part \in DOMAIN split_packet_queue[sid] /\ PartsOf(split_packet_queue[sid], p)
    BY <2>1, StoredExact DEF DataInv
  <2>3. /\ DOMAIN Stored(p) = DOMAIN split_packet_queue[sid] /\ Stored(p)[p.part] = p.num
        /\ \A i \in DOMAIN Stored(p) : i # p.part => Stored(p)[i] = split_packet_queue[sid][i]
    BY <2>2 DEF Stored
  <2>4. split_packet_queue[sid][p.part] \in {None, p.num}
    <3>1. p.part \in 0..p.count - 1 /\ p.num - p.part + p.part = p.num
      BY <1>2
    <3> QED BY <2>2, <3>1 DEF PartsOf
  <2>5. UnmixedLoose'
    BY <1>1, <2>1 DEF UnmixedLoose, outVars
  <2>6. ASSUME NEW q, Acked(q), Waiting(q) PROVE Waiting(q)'
    <3>1. q.num # None
      <4>1. q.num \in Nat
        BY <2>6, PacketFacts
      <4> QED BY <4>1 DEF None
    <3>2. PICK s \in DOMAIN split_packet_queue : \E i \in DOMAIN split_packet_queue[s] :
            split_packet_queue[s][i] = q.num
      BY <2>6 DEF Waiting
    <3>3. PICK i \in DOMAIN split_packet_queue[s] : split_packet_queue[s][i] = q.num
      BY <3>2
    <3>4. CASE s # sid
      BY <2>1, <3>3, <3>4 DEF Waiting
    <3>5. CASE s = sid
      <4>1. Stored(p)[i] = q.num
        BY <2>3, <2>4, <3>1, <3>3, <3>5
      <4>2. split_packet_queue'[sid] = Stored(p) /\ sid \in DOMAIN split_packet_queue'
        BY <2>1
      <4> QED BY <2>3, <3>3, <3>5, <4>1, <4>2 DEF Waiting
    <3> QED BY <3>4, <3>5
  <2>7. \A q : q.num = p.num => Waiting(q)'
    <3>1. split_packet_queue'[sid] = Stored(p) /\ sid \in DOMAIN split_packet_queue'
      BY <2>1
    <3> QED BY <2>2, <2>3, <3>1 DEF Waiting
  <2>8. \A q : SortedOut(q) => SortedOut(q)'
    BY <2>1 DEF SortedOut, recvVars, outVars
  <2> QED BY <1>3, <2>5, <2>6, <2>7, <2>8
<1>10. CASE ReceiveLastPart(p)
  <2>1. /\ p.count > 1 /\ sid \in DOMAIN split_packet_queue
        /\ \A i \in DOMAIN Stored(p) : Stored(p)[i] # None
        /\ split_packet_queue' = [s \in DOMAIN split_packet_queue \ {sid} |-> split_packet_queue[s]]
        /\ Accept(p, [i \in 1..Cardinality(DOMAIN Stored(p)) |-> Stored(p)[i - 1]])
    BY <1>10 DEF ReceiveLastPart
  <2>2. PartsOf(split_packet_queue[sid], p) /\ PartsOf(Stored(p), p)
    BY <2>1, StoredExact DEF DataInv
  <2>3. Accept(p, Whole(p))
    BY <1>2, <2>1, <2>2, JoinedWhole
  <2>4. UnmixedLoose'
    BY <1>1, <2>3, AcceptUnmixed
  <2>5. ASSUME NEW q, Acked(q) PROVE q.disc \/ Waiting(q)' \/ SortedOut(q)'
    <3>1. CASE q.num = p.num
      BY <1>5, <2>3, <2>5, <3>1, OwnNumbers
    <3>2. CASE Waiting(q)
      <4>1. PICK s \in DOMAIN split_packet_queue : \E i \in DOMAIN split_packet_queue[s] :
              split_packet_queue[s][i] = q.num
        BY <3>2 DEF Waiting
      <4>2. PICK i \in DOMAIN split_packet_queue[s] : split_packet_queue[s][i] = q.num
        BY <4>1
      <4>3. CASE s # sid
        BY <2>1, <4>2, <4>3 DEF Waiting
      <4>4. CASE s = sid
        <5>1. q.num # None
          <6>1. q.num \in Nat
            BY <2>5, PacketFacts
          <6> QED BY <6>1 DEF None
        <5>2. i \in 0..p.count - 1 /\ q.num = p.num - p.part + i
          BY <2>2, <4>2, <4>4, <5>1 DEF PartsOf
        <5>3. q.num \in NumbersOf(p)
          BY <5>2, OwnNumbers
        <5> QED BY <1>5, <2>3, <2>5, <5>3
      <4> QED BY <4>3, <4>4
    <3>3. CASE SortedOut(q)
      BY <1>6, <2>3, <2>5, <3>3
    <3> QED BY <1>3, <2>5, <3>1, <3>2, <3>3
  <2> QED BY <2>4, <2>5
<1>11. CASE PanicOnPart(p)
  BY <1>11, StoredExact DEF DataInv, PanicOnPart
<1> QED BY <1>7, <1>8, <1>9, <1>10, <1>11 DEF Receive

\* HeldInv holds in every state.
LEMMA HeldInvariant == Spec => []HeldInv
<1>1. Init => HeldInv
  <2> SUFFICES ASSUME Init PROVE HeldInv
    OBVIOUS
  <2>1. sent = {} /\ script = <<>> /\ acks = {} /\ clientAcked = {}
        /\ sequenced = <<>> /\ loose = {}
    BY DEF Init
  <2> QED BY <2>1 DEF HeldInv, MessageInv, AckInv, UnmixedLoose, AckedHeld
<1>2. Inv /\ HeldInv /\ [Next]_vars => HeldInv'
  <2> SUFFICES ASSUME Inv, HeldInv, [Next]_vars PROVE HeldInv'
    OBVIOUS
  <2>0. /\ TypeOK /\ ClientInv /\ IndexInv /\ (NoReuse => DataInv)
        /\ MessageInv /\ AckInv /\ (NoReuse => UnmixedLoose /\ AckedHeld)
    BY DEF Inv, HeldInv
  <2>1. ASSUME NEW k \in Kinds, ClientSend(k) PROVE HeldInv'
    <3>1. MessageInv' /\ AckInv' /\ (NoReuse' => NoReuse)
      BY <2>0, <2>1, ClientSendMessages, ClientSendInv
    <3>2. /\ UNCHANGED <<clientAcked, split_packet_queue, acks, status>>
          /\ UNCHANGED <<out_of_order_packets, ordered, sequenced, loose>>
          /\ sent \subseteq sent'
      BY <2>1 DEF ClientSend, recvVars, outVars
    <3>3. ASSUME UnmixedLoose PROVE UnmixedLoose'
      BY <3>2, <3>3 DEF UnmixedLoose
    <3>4. ASSUME NEW q \in sent', q.num \in acks \cup clientAcked PROVE q \in sent
      <4>1. q.num \in Nat /\ q.num < next.num /\ next.num \in Nat
        BY <2>0, <3>4 DEF AckInv, TypeOK
      <4>2. q \in sent \/ \E i \in 0..k.count - 1 : q.num = next.num + i
        BY <2>1, <3>4 DEF ClientSend
      <4>3. k.count \in Nat
        BY KindsAssumption DEF KindType
      <4> QED BY <4>1, <4>2, <4>3
    <3>5. ASSUME AckedHeld PROVE AckedHeld'
      BY <3>2, <3>4, <3>5 DEF AckedHeld, Held
    <3> QED BY <2>0, <3>1, <3>3, <3>5 DEF HeldInv
  <2>2. ASSUME NEW p \in sent, Receive(p) PROVE HeldInv'
    <3>1. UNCHANGED <<sent, next, script>>
      BY <2>2 DEF Receive, clientVars
    <3>2. MessageInv' /\ (NoReuse' => NoReuse)
      BY <2>0, <3>1 DEF MessageInv, NoReuse
    <3> QED BY <2>0, <2>2, <3>2, ReceiveAcks, ReceiveHeld DEF HeldInv
  <2>3. CASE \E S \in SUBSET acks : SendAcks(S)
    <3>1. /\ UNCHANGED <<sent, next, script, recvVars, split_packet_queue, outVars>>
          /\ acks' \cup clientAcked' \subseteq acks \cup clientAcked
          /\ UNCHANGED status
      BY <2>3 DEF SendAcks
    <3> QED BY <2>0, <3>1 DEF HeldInv, MessageInv, AckInv, NoReuse, UnmixedLoose, AckedHeld,
                              Held, recvVars, outVars
  <2>4. CASE Drop
    <3>1. /\ UNCHANGED <<sent, next, script, clientAcked, sequenced, loose>>
          /\ acks' = {} /\ status' = "dropped"
      BY <2>4, FreedEmpty DEF Drop, clientVars
    <3> QED BY <2>0, <3>1 DEF HeldInv, MessageInv, AckInv, NoReuse, UnmixedLoose, AckedHeld
  <2>5. CASE UNCHANGED vars
    <3>1. UNCHANGED <<clientVars, recvVars, split_packet_queue, acks, status, outVars>>
      BY <2>5 DEF vars
    <3> QED BY <2>0, <3>1 DEF HeldInv, MessageInv, AckInv, NoReuse, UnmixedLoose, AckedHeld,
                              Held, clientVars, recvVars, outVars
  <2> QED BY <2>1, <2>2, <2>3, <2>4, <2>5 DEF Next
<1> QED BY <1>1, <1>2, InvInvariant, PTL DEF Spec

\* As long as no split id has come round again, and the connection is there, a
\* packet that was acknowledged is held or was handed on, unless it is the
\* goodbye: the receiver acknowledges first (recv.rs:35) and sorts out
\* afterwards, and the client will not send it again.
THEOREM AckedIsHeld == Spec => [](NoReuse => AckedHeld)
<1>1. HeldInv => (NoReuse => AckedHeld)
  BY DEF HeldInv
<1> QED BY <1>1, HeldInvariant, PTL

\* As long as no split id has come round again, what is handed on without order
\* is a message of the client: parts of different messages are never joined
\* (recv.rs:61).
THEOREM LooseIsUnmixed == Spec => [](NoReuse => UnmixedLoose)
<1>1. HeldInv => (NoReuse => UnmixedLoose)
  BY DEF HeldInv
<1> QED BY <1>1, HeldInvariant, PTL

\* As long as no split id has come round again, what is handed on as
\* ReliableOrdered is a prefix of what the client sent (recv.rs:92).
COROLLARY OrderedIsExact == Spec => [](NoReuse => OrderedExact)
<1>1. ExactUntilReuse => (NoReuse => OrderedExact)
  BY DEF ExactUntilReuse
<1> QED BY <1>1, OrderedDelivery, PTL
=============================================================================
