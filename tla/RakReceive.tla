----------------------------- MODULE RakReceive -----------------------------
(***************************************************************************)
(* The receiving half of a RakNet connection: ReceivePart                  *)
(* (raknet/recv.rs) inside Connection (raknet/connection.rs), fed by a     *)
(* RakNet client over UDP.                                                 *)
(*                                                                         *)
(* A Receive action is one iteration of the loop of                        *)
(* process_incoming_packets: acknowledge, reassemble split packets, notice *)
(* a disconnect, then order, filter or forward.  A datagram with several   *)
(* packets is several consecutive Receive steps; the loop reads no state   *)
(* but its own, so letting other steps come between them only adds         *)
(* behaviours.                                                             *)
(*                                                                         *)
(* The client and the network are external.  The client numbers its        *)
(* packets the way SendPart does.  The network may lose, duplicate, delay  *)
(* and reorder them: a packet once sent may arrive any number of times, in *)
(* any order, within the horizon stated by InHorizon.                      *)
(*                                                                         *)
(* Data are abstracted to identities: a packet carries the chunk named by  *)
(* its message number, a message's data is the sequence of its chunks.     *)
(* Numbers and indices are kept unbounded in a packet (num, idx, sid) and  *)
(* reduced to the width of the wire where the code looks at them.          *)
(***************************************************************************)
EXTENDS Integers, Sequences, FiniteSets

CONSTANTS IndexMod,     \* 2^32, ordering and sequencing indices are u32
          SplitMod,     \* 2^16, split packet ids are u16
          Kinds,        \* kinds of message the client sends, see KindType
          MaxNum        \* bound: message numbers the client uses

Reliability == {"Unreliable", "UnreliableSequenced", "Reliable", "ReliableOrdered"}

\* A message: its reliability, the packets it is split into (1: not split),
\* and whether its first byte is DisconnectNotification.
KindType == [rel : Reliability, count : Nat \ {0}, disc : BOOLEAN]

ASSUME IndexModAssumption == IndexMod \in Nat /\ IndexMod >= 4
ASSUME SplitModAssumption == SplitMod \in Nat \ {0}
ASSUME KindsAssumption    == Kinds \subseteq KindType
ASSUME MaxNumAssumption   == MaxNum \in Nat

VARIABLES
  \* the client
  sent,                 \* the packets sent so far
  next,                 \* counters: num, seq, ord, split
  script,               \* history: data of the ordered messages, in order
  clientAcked,          \* message numbers the client knows to be received
  \* ReceivePart and Connection
  unrel_seq_index, rel_ord_index, out_of_order_packets, split_packet_queue,
  acks, closed,
  status,               \* "up", "dropped" (Connection::drop) or "panicked"
  \* history: what was handed on to the TcpUdp connection
  ordered,              \* data of the ReliableOrdered messages, in order
  sequenced,            \* index and data of the UnreliableSequenced ones
  loose                 \* data of the Unreliable and Reliable ones

clientVars == <<sent, next, script, clientAcked>>
recvVars   == <<unrel_seq_index, rel_ord_index, out_of_order_packets>>
outVars    == <<ordered, sequenced, loose>>
vars == <<clientVars, recvVars, split_packet_queue, acks, closed, status, outVars>>

-----------------------------------------------------------------------------
\* u32::max_value() / 2, and an index taken as ahead of another one.
Half == (IndexMod - 1) \div 2

Wrap(n) == n % IndexMod         \* wrapping arithmetic on indices

\* Mutant: the plain comparison of the indices.
Ahead_Plain(ord, index) == ord >= index

Ahead(ord, index) == Wrap(ord - index) < Half

None == -1              \* a part that has not arrived

IsReliable(p) == p.rel \in {"Reliable", "ReliableOrdered"}

SplitId(sid) == sid % SplitMod

\* The data of the message that packet p belongs to.
Whole(p) == [i \in 1..p.count |-> p.num - p.part + i - 1]

\* The index after the newest UnreliableSequenced message handed on.
SeqNext == IF sequenced = <<>> THEN 0 ELSE sequenced[Len(sequenced)].idx + 1

-----------------------------------------------------------------------------
(* The client and the network *)

\* A split id is taken again only when all reliable packets that had it are
\* acknowledged: the client is never a whole turn of the ids behind.
ReusesOnlyAcked ==
  \A p \in sent : p.count > 1 /\ SplitId(p.sid) = SplitId(next.split)
                  => p.num \in clientAcked \/ ~IsReliable(p)

\* The client sends a message: one packet, or one per part, numbered like
\* SendPart::process_outgoing_packets numbers them.
ClientSend(k) ==
  /\ next.num + k.count <= MaxNum
  /\ k.count > 1 => ReusesOnlyAcked
  /\ LET idx == CASE k.rel = "ReliableOrdered"     -> next.ord
                  [] k.rel = "UnreliableSequenced" -> next.seq
                  [] OTHER                         -> 0
         Packet(i) == [num |-> next.num + i, rel |-> k.rel, idx |-> idx,
                       sid |-> next.split, part |-> i, count |-> k.count,
                       disc |-> k.disc]
     IN  sent' = sent \cup {Packet(i) : i \in 0..k.count - 1}
  /\ next' = [num   |-> next.num + k.count,
              seq   |-> next.seq + IF k.rel = "UnreliableSequenced" THEN 1 ELSE 0,
              ord   |-> next.ord + IF k.rel = "ReliableOrdered" THEN 1 ELSE 0,
              split |-> next.split + IF k.count > 1 THEN 1 ELSE 0]
  /\ script' = IF k.rel = "ReliableOrdered"
               THEN Append(script, [i \in 1..k.count |-> next.num + i - 1])
               ELSE script
  /\ UNCHANGED <<clientAcked, recvVars, split_packet_queue, acks, closed, status, outVars>>

\* Half of the index space is ahead of the receiver, the other half behind: a
\* packet does not arrive more than that out of its turn.
InHorizon(p) ==
  LET base == CASE p.rel = "ReliableOrdered"     -> Len(ordered)
                [] p.rel = "UnreliableSequenced" -> SeqNext
                [] OTHER                         -> p.idx
  IN  /\ p.idx < base + Half
      /\ p.idx >= base - (IndexMod - Half)

-----------------------------------------------------------------------------
(* process_incoming_packets, one packet *)

\* Mutant: a duplicate is not acknowledged again.
Ack_OnlyNew(p) ==
  acks' = IF IsReliable(p) /\ Ahead(Wrap(p.idx), rel_ord_index)
          THEN acks \cup {p.num} ELSE acks

\* Lines 34-39.
Ack(p) ==
  acks' = IF IsReliable(p) THEN acks \cup {p.num} ELSE acks

\* Line 77: the first byte of the data, of its first chunk, says goodbye.
IsGoodbye(data) == \E q \in sent : q.num = data[1] /\ q.disc

\* Lines 77-80: whatever its reliability and its turn.
Disconnect(data) ==
  /\ IsGoodbye(data)
  /\ closed' = TRUE
  /\ UNCHANGED <<recvVars, outVars>>

\* Lines 83-90.
AcceptSequenced(p, data) ==
  /\ p.rel = "UnreliableSequenced"
  /\ IF Ahead(Wrap(p.idx), unrel_seq_index)
     THEN /\ unrel_seq_index' = Wrap(Wrap(p.idx) + 1)
          /\ sequenced' = Append(sequenced, [idx |-> p.idx, data |-> data])
     ELSE UNCHANGED <<unrel_seq_index, sequenced>>
  /\ UNCHANGED <<rel_ord_index, out_of_order_packets, ordered, loose>>

\* The n queued packets that follow index o are there, and no more.
Drains(o, n) ==
  /\ \A i \in 1..n : Wrap(o + i) \in DOMAIN out_of_order_packets
  /\ Wrap(o + n + 1) \notin DOMAIN out_of_order_packets

\* The first n queued packets after index o, behind the packet in turn.
Released(data, o, n) ==
  [i \in 1..n + 1 |-> IF i = 1 THEN data ELSE out_of_order_packets[Wrap(o + i - 1)]]

\* Mutant: the queued packets are read, not removed.
AcceptInTurn_Peek(p, data) ==
  /\ p.rel = "ReliableOrdered"
  /\ Wrap(p.idx) = rel_ord_index
  /\ \E n \in 0..Cardinality(DOMAIN out_of_order_packets) :
        /\ Drains(rel_ord_index, n)
        /\ rel_ord_index' = Wrap(rel_ord_index + n + 1)
        /\ ordered' = ordered \o Released(data, rel_ord_index, n)
  /\ UNCHANGED <<unrel_seq_index, out_of_order_packets, sequenced, loose>>

\* Mutant: the index does not step over a drained packet.
AcceptInTurn_NoStep(p, data) ==
  /\ p.rel = "ReliableOrdered"
  /\ Wrap(p.idx) = rel_ord_index
  /\ LET n == IF Wrap(rel_ord_index + 1) \in DOMAIN out_of_order_packets THEN 1 ELSE 0
     IN  /\ ordered' = ordered \o Released(data, rel_ord_index, n)
         /\ out_of_order_packets' =
              [o \in DOMAIN out_of_order_packets \ {Wrap(rel_ord_index + n)}
                 |-> out_of_order_packets[o]]
  /\ rel_ord_index' = Wrap(rel_ord_index + 1)
  /\ UNCHANGED <<unrel_seq_index, sequenced, loose>>

\* Mutant: the queued packets wait for one of their own to be resent.
AcceptInTurn_NoDrain(p, data) ==
  /\ p.rel = "ReliableOrdered"
  /\ Wrap(p.idx) = rel_ord_index
  /\ rel_ord_index' = Wrap(rel_ord_index + 1)
  /\ ordered' = Append(ordered, data)
  /\ UNCHANGED <<unrel_seq_index, out_of_order_packets, sequenced, loose>>

\* Mutant: the index is not wrapped.
AcceptInTurn_NoWrap(p, data) ==
  /\ p.rel = "ReliableOrdered"
  /\ Wrap(p.idx) = rel_ord_index
  /\ Drains(rel_ord_index, 0)
  /\ rel_ord_index' = rel_ord_index + 1
  /\ ordered' = Append(ordered, data)
  /\ UNCHANGED <<unrel_seq_index, out_of_order_packets, sequenced, loose>>

\* Lines 92-106: the packet whose turn it is, and the queued ones after it.
AcceptInTurn(p, data) ==
  /\ p.rel = "ReliableOrdered"
  /\ Wrap(p.idx) = rel_ord_index
  /\ \E n \in 0..Cardinality(DOMAIN out_of_order_packets) :
        /\ Drains(rel_ord_index, n)
        /\ LET drained == {Wrap(rel_ord_index + i) : i \in 1..n}
           IN  out_of_order_packets' =
                 [o \in DOMAIN out_of_order_packets \ drained |-> out_of_order_packets[o]]
        /\ rel_ord_index' = Wrap(rel_ord_index + n + 1)
        /\ ordered' = ordered \o Released(data, rel_ord_index, n)
  /\ UNCHANGED <<unrel_seq_index, sequenced, loose>>

\* Mutant: an early packet is dropped.
AcceptEarly_Dropped(p, data) ==
  /\ p.rel = "ReliableOrdered"
  /\ Wrap(p.idx) # rel_ord_index
  /\ Ahead(Wrap(p.idx), rel_ord_index)
  /\ UNCHANGED <<recvVars, outVars>>

\* Lines 107-112.
AcceptEarly(p, data) ==
  /\ p.rel = "ReliableOrdered"
  /\ LET ord == Wrap(p.idx)
     IN  /\ ord # rel_ord_index
         /\ Ahead(ord, rel_ord_index)
         /\ out_of_order_packets' =
              [o \in DOMAIN out_of_order_packets \cup {ord} |->
                 IF o = ord THEN data ELSE out_of_order_packets[o]]
  /\ UNCHANGED <<unrel_seq_index, rel_ord_index, outVars>>

\* Lines 113-117.
DropDuplicate(p) ==
  /\ p.rel = "ReliableOrdered"
  /\ Wrap(p.idx) # rel_ord_index
  /\ ~Ahead(Wrap(p.idx), rel_ord_index)
  /\ UNCHANGED <<recvVars, outVars>>

\* Lines 119-122: Unreliable and Reliable packets are handed on as they come.
AcceptLoose(p, data) ==
  /\ p.rel \in {"Unreliable", "Reliable"}
  /\ loose' = loose \cup {data}
  /\ UNCHANGED <<recvVars, ordered, sequenced>>

\* Lines 77-122: the data is complete.
Accept(p, data) ==
  \/ Disconnect(data)
  \/ /\ ~IsGoodbye(data)
     /\ UNCHANGED closed
     /\ \/ AcceptSequenced(p, data)
        \/ AcceptInTurn(p, data)
        \/ AcceptEarly(p, data)
        \/ DropDuplicate(p)
        \/ AcceptLoose(p, data)

ReceiveWhole(p) ==
  /\ p.count = 1
  /\ Ack(p)
  /\ Accept(p, <<p.num>>)
  /\ UNCHANGED <<split_packet_queue, status>>

\* Mutant: the first part to arrive is taken for part 0.
ReceiveFirstPart_AtFront(p) ==
  /\ p.count > 1
  /\ SplitId(p.sid) \notin DOMAIN split_packet_queue
  /\ Ack(p)
  /\ LET parts == [i \in 0..p.count - 1 |-> IF i = 0 THEN p.num ELSE None]
     IN  split_packet_queue' =
           [s \in DOMAIN split_packet_queue \cup {SplitId(p.sid)} |->
              IF s = SplitId(p.sid) THEN parts ELSE split_packet_queue[s]]
  /\ UNCHANGED <<recvVars, closed, status, outVars>>

\* Lines 45-50: the first part of a split packet to arrive.
ReceiveFirstPart(p) ==
  /\ p.count > 1
  /\ SplitId(p.sid) \notin DOMAIN split_packet_queue
  /\ Ack(p)
  /\ LET parts == [i \in 0..p.count - 1 |-> IF i = p.part THEN p.num ELSE None]
     IN  split_packet_queue' =
           [s \in DOMAIN split_packet_queue \cup {SplitId(p.sid)} |->
              IF s = SplitId(p.sid) THEN parts ELSE split_packet_queue[s]]
  /\ UNCHANGED <<recvVars, closed, status, outVars>>

\* The parts once packet p is stored among them (line 53).
Stored(p) == [split_packet_queue[SplitId(p.sid)] EXCEPT ![p.part] = p.num]

\* Lines 51-60 and 70-72: another part, some are still missing.
ReceivePart(p) ==
  /\ p.count > 1
  /\ SplitId(p.sid) \in DOMAIN split_packet_queue
  /\ p.part \in DOMAIN split_packet_queue[SplitId(p.sid)]
  /\ \E i \in DOMAIN Stored(p) : Stored(p)[i] = None
  /\ Ack(p)
  /\ split_packet_queue' = [split_packet_queue EXCEPT ![SplitId(p.sid)] = Stored(p)]
  /\ UNCHANGED <<recvVars, closed, status, outVars>>

\* Lines 61-69: the last missing part.
ReceiveLastPart(p) ==
  /\ p.count > 1
  /\ SplitId(p.sid) \in DOMAIN split_packet_queue
  /\ p.part \in DOMAIN split_packet_queue[SplitId(p.sid)]
  /\ \A i \in DOMAIN Stored(p) : Stored(p)[i] # None
  /\ Ack(p)
  /\ split_packet_queue' =
       [s \in DOMAIN split_packet_queue \ {SplitId(p.sid)} |-> split_packet_queue[s]]
  /\ Accept(p, [i \in 1..Cardinality(DOMAIN Stored(p)) |-> Stored(p)[i - 1]])
  /\ UNCHANGED status

\* The connection is freed with its queues and the list of acknowledgements.
\* What is left are the client and what was handed on; nobody reads the indices.
Freed ==
  /\ out_of_order_packets' = [o \in {} |-> <<>>]
  /\ split_packet_queue' = [s \in {} |-> <<>>]
  /\ acks' = {}
  /\ UNCHANGED <<unrel_seq_index, rel_ord_index, closed, outVars>>

\* Line 53, index out of bounds: the entry was made for fewer parts.  The
\* program unwinds.
PanicOnPart(p) ==
  /\ p.count > 1
  /\ SplitId(p.sid) \in DOMAIN split_packet_queue
  /\ p.part \notin DOMAIN split_packet_queue[SplitId(p.sid)]
  /\ status' = "panicked"
  /\ Freed

Receive(p) ==
  /\ status = "up"
  /\ p \in sent
  /\ InHorizon(p)
  /\ \/ ReceiveWhole(p)
     \/ ReceiveFirstPart(p)
     \/ ReceivePart(p)
     \/ ReceiveLastPart(p)
     \/ PanicOnPart(p)
  /\ UNCHANGED clientVars

-----------------------------------------------------------------------------
(* Connection::send, called once per turn of the event loop *)

\* The acknowledgements leave with the first datagram and the list is cleared.
\* Those in S reach the client: the datagram may be lost, and a list that was
\* given duplicates may lack some numbers (see RangeList).
SendAcks(S) ==
  /\ status = "up"
  /\ ~closed
  /\ acks # {}
  /\ clientAcked' = clientAcked \cup S
  /\ acks' = {}
  /\ UNCHANGED <<sent, next, script, recvVars, split_packet_queue, closed, status, outVars>>

\* After a disconnect send fails and the bridge drops the connection, which
\* sends nothing: whatever waited in its queues is gone, acknowledged or not.
Drop ==
  /\ status = "up"
  /\ closed
  /\ status' = "dropped"
  /\ Freed
  /\ UNCHANGED clientVars

-----------------------------------------------------------------------------
Init ==
  /\ sent = {} /\ script = <<>> /\ clientAcked = {}
  /\ next = [num |-> 0, seq |-> 0, ord |-> 0, split |-> 0]
  /\ unrel_seq_index = 0 /\ rel_ord_index = 0
  /\ out_of_order_packets = [o \in {} |-> <<>>]
  /\ split_packet_queue = [s \in {} |-> <<>>]
  /\ acks = {} /\ closed = FALSE /\ status = "up"
  /\ ordered = <<>> /\ sequenced = <<>> /\ loose = {}

Next ==
  \/ \E k \in Kinds : ClientSend(k)
  \/ \E p \in sent : Receive(p)
  \/ \E S \in SUBSET acks : SendAcks(S)
  \/ Drop

Spec == Init /\ [][Next]_vars

(***************************************************************************)
(* Fairness: the client resends every reliable packet until it is          *)
(* acknowledged and the network does not lose all copies; the event loop   *)
(* calls send again and again, and not every acknowledgement of a packet   *)
(* is lost.                                                                *)
(***************************************************************************)
Resend(n) ==
  \E p \in sent : p.num = n /\ p.num \notin clientAcked /\ Receive(p)

FairSpec ==
  /\ Spec
  /\ \A n \in 0..MaxNum - 1 : WF_vars(Resend(n))
  /\ \A n \in 0..MaxNum - 1 : SF_vars(\E S \in SUBSET acks : n \in S /\ SendAcks(S))
  /\ WF_vars(Drop)

-----------------------------------------------------------------------------
PacketType ==
  [num : Nat, rel : Reliability, idx : Nat, sid : Nat, part : Nat,
   count : Nat \ {0}, disc : BOOLEAN]

\* The variables hold what the Rust types allow; the parts of a split packet
\* are indexed from 0.
TypeOK ==
  /\ sent \subseteq PacketType
  /\ next \in [num : Nat, seq : Nat, ord : Nat, split : Nat]
  /\ script \in Seq(Seq(Nat)) /\ ordered \in Seq(Seq(Nat))
  /\ sequenced \in Seq([idx : Nat, data : Seq(Nat)])
  /\ loose \subseteq Seq(Nat)
  /\ unrel_seq_index \in 0..IndexMod - 1 /\ rel_ord_index \in 0..IndexMod - 1
  /\ DOMAIN out_of_order_packets \subseteq 0..IndexMod - 1
  /\ \A o \in DOMAIN out_of_order_packets : out_of_order_packets[o] \in Seq(Nat)
  /\ DOMAIN split_packet_queue \subseteq 0..SplitMod - 1
  /\ \A s \in DOMAIN split_packet_queue :
        LET parts == split_packet_queue[s]
        IN  IsFiniteSet(DOMAIN parts)
            /\ parts \in [0..Cardinality(DOMAIN parts) - 1 -> Nat \cup {None}]
  /\ acks \subseteq Nat /\ closed \in BOOLEAN
  /\ status \in {"up", "dropped", "panicked"}

\* What is handed on as ReliableOrdered is a prefix of what the client sent as
\* ReliableOrdered: complete, once each, in order and unmixed, whatever is
\* lost, duplicated or reordered and across the wrap of the 32-bit index.
OrderedExact ==
  /\ Len(ordered) <= Len(script)
  /\ \A i \in 1..Len(ordered) : ordered[i] = script[i]

\* UnreliableSequenced messages are handed on at most once and never after a
\* newer one, across the wrap of the 32-bit index.
SequencedNewest ==
  \A i, j \in 1..Len(sequenced) : i < j => sequenced[i].idx < sequenced[j].idx

\* Every message handed on without order is one the client sent: no part of
\* one message is joined with a part of another.
UnmixedLoose ==
  /\ \A d \in loose : \E p \in sent : d = Whole(p)
  /\ \A i \in 1..Len(sequenced) : \E p \in sent :
        p.rel = "UnreliableSequenced" /\ p.idx = sequenced[i].idx
        /\ sequenced[i].data = Whole(p)

\* Every queued early message lies ahead of the index, within half of the
\* index space, at the place of a message that the client has sent and that is
\* not handed on yet: none is left behind to come out again one wrap later.
EarlyAhead ==
  \A o \in DOMAIN out_of_order_packets :
    LET d == Wrap(o - rel_ord_index)
    IN  d \in 1..Half - 1 /\ Len(ordered) + d < Len(script)

\* The chunk of packet p is still there, or its message was handed on.
Held(p) ==
  \/ \E s \in DOMAIN split_packet_queue : \E i \in DOMAIN split_packet_queue[s] :
        split_packet_queue[s][i] = p.num
  \/ p.rel = "ReliableOrdered" /\ p.idx < Len(ordered)
  \/ \E o \in DOMAIN out_of_order_packets : out_of_order_packets[o] = Whole(p)
  \/ Whole(p) \in loose

\* As long as the connection is there, a packet that was acknowledged, so that
\* the client will not send it again, is held or was handed on, unless it was the
\* disconnect: acknowledging before sorting out early, split and duplicate
\* packets loses nothing.  What is still held when a disconnect ends the
\* connection is lost.
AckedHeld ==
  status = "up" =>
    \A p \in sent : p.num \in acks \cup clientAcked => p.disc \/ Held(p)

\* No part is ever stored outside the vector made for its split packet
\* (recv.rs:53 would panic and take every connection down).
NoPanic == status # "panicked"

\* No split id has come round again.
NoReuse == next.split <= SplitMod

\* As long as no split id has come round again, ordered messages are handed on
\* exactly as sent and nothing panics, for whole and split packets alike.
ExactUntilReuse == NoReuse => OrderedExact /\ NoPanic

\* Every ordered message the client sends is handed on, unless the connection
\* is closed first: lost acknowledgements and duplicates do not stop it.
OrderedDelivered ==
  \A k \in 1..MaxNum : (Len(script) >= k) ~> (Len(ordered) >= k \/ closed)

\* Every reliable packet is acknowledged in the end, again if the first
\* acknowledgement was lost, so the client stops resending it.
EventuallyAcked ==
  \A n \in 0..MaxNum - 1 :
    (\E p \in sent : p.num = n /\ IsReliable(p))
      ~> (n \in clientAcked \/ closed)
=============================================================================
