------------------------------ MODULE RakSend ------------------------------
(***************************************************************************)
(* The sending half of a RakNet connection: SendPart (raknet/send.rs)      *)
(* inside Connection (raknet/connection.rs), with the list of              *)
(* acknowledgements that it shares with the receiver.                      *)
(*                                                                         *)
(* A call of send_packets is a number of Process steps, one per message,   *)
(* that give out numbers and cut the message into packets, and then one    *)
(* SendPacket step per packet; without messages it is SendAcks or nothing. *)
(* Any datagram may fail to be sent: the rest of the call is given up and  *)
(* the bridge drops the connection, which tries to say goodbye.            *)
(*                                                                         *)
(* A datagram is written field by field (RakWire) and read again by the    *)
(* reader in this program, whose peer uses the same format; read and acked *)
(* record what it gets.  Data are abstracted to where they come from: the  *)
(* message, the offset and the length.                                     *)
(***************************************************************************)
EXTENDS RakWire, FiniteSetsExt

CONSTANTS IndexMod,     \* 2^32: message numbers and indices are u32
          SplitMod,     \* 2^16: split packet ids are u16
          Messages,     \* the messages to send, [rel, len]
          MaxMessages,  \* bound: messages sent
          MaxItem,      \* u32::max_value(), the largest number to acknowledge
          Numbers       \* bound: message numbers to acknowledge

ASSUME IndexModAssumption == IndexMod \in Nat \ {0}
ASSUME SplitModAssumption == SplitMod \in Nat \ {0}
ASSUME MessagesAssumption == Messages \subseteq [rel : Range(RelNames), len : Nat]
ASSUME MaxAssumption      == MaxMessages \in Nat
ASSUME MaxItemAssumption  == MaxItem \in Nat
ASSUME NumbersAssumption  == Numbers \subseteq 0..MaxItem

VARIABLES
  message_number, split_packet_index, unrel_seq_index, rel_ord_index,
  acks,                 \* RangeList::ranges
  remote_system_time,
  rak_packets,          \* packets of this call still to be sent
  sending,              \* the call has come to its second loop
  status,               \* "up", "failed", "dropping" or "dropped"
  datagram,             \* the datagram last sent
  \* history
  script,               \* the messages given to send_packets
  read,                 \* the packets a reader of the datagrams gets
  inserted, acked       \* numbers to acknowledge, and those a reader gets

counters == <<message_number, split_packet_index, unrel_seq_index, rel_ord_index>>
vars == <<counters, acks, remote_system_time, rak_packets, sending, status,
          datagram, script, read, inserted, acked>>

List == INSTANCE RangeList WITH
  MaxItem <- MaxItem, CountMod <- U16, ranges <- acks, pending <- inserted,
  fresh <- TRUE, wire <- datagram, reported <- acked, wireFresh <- TRUE

-----------------------------------------------------------------------------
MTU_SIZE == 1228
UDP_HEADER_SIZE == 28
MAX_PACKET_SIZE == MTU_SIZE - UDP_HEADER_SIZE

\* Mutant: the counters do not wrap.
Wrap_Plain(n) == n

Wrap(n) == n % IndexMod

\* Mutant: what a split packet has in addition is left out.
HeaderLen_Unsplit(rel, is_split_packet) ==
  (32 + 3 + (IF HasOrd(rel) THEN 5 + 32 ELSE 0) + 1) \div 8 + 1

\* header_len, in bytes.
HeaderLen(rel, is_split_packet) ==
  LET len == 32 + 3 + (IF HasOrd(rel) THEN 5 + 32 ELSE 0) + 1
                + (IF is_split_packet THEN 16 + 32 + 32 + 16 ELSE 0)
  IN  len \div 8 + 1

NeedsSplit(m) == HeaderLen(m.rel, FALSE) + m.len > MAX_PACKET_SIZE
ChunkSize(m)  == MAX_PACKET_SIZE - HeaderLen(m.rel, TRUE)
Count(m)      == IF NeedsSplit(m) THEN (m.len + ChunkSize(m) - 1) \div ChunkSize(m) ELSE 1

\* Mutant: both kinds of index are taken from one counter.
Ord_Shared(rel) == IF HasOrd(rel) THEN rel_ord_index ELSE 0

\* rel_data: the index that the message gets.
Ord(rel) ==
  CASE rel = "UnreliableSequenced" -> unrel_seq_index
    [] rel = "ReliableOrdered"     -> rel_ord_index
    [] OTHER                       -> 0

Data(m, i) ==
  LET from == (i - 1) * ChunkSize(m)
  IN  [msg  |-> Len(script) + 1,
       from |-> from,
       len  |-> IF NeedsSplit(m) THEN Min({ChunkSize(m), m.len - from}) ELSE m.len]

\* The packets that the message m becomes.
Packets(m) ==
  [i \in 1..Count(m) |->
     [message_number |-> Wrap(message_number + i - 1),
      rel |-> m.rel,
      ord |-> Ord(m.rel),
      split_packet_info |->
        IF NeedsSplit(m)
        THEN <<[id |-> split_packet_index, index |-> i - 1, count |-> Count(m)]>>
        ELSE <<>>,
      data |-> Data(m, i)]]

\* One iteration of process_outgoing_packets.
Process(m) ==
  /\ message_number' = Wrap(message_number + Count(m))
  /\ split_packet_index' =
       IF NeedsSplit(m) THEN (split_packet_index + 1) % SplitMod ELSE split_packet_index
  /\ unrel_seq_index' =
       IF m.rel = "UnreliableSequenced" THEN Wrap(unrel_seq_index + 1) ELSE unrel_seq_index
  /\ rel_ord_index' =
       IF m.rel = "ReliableOrdered" THEN Wrap(rel_ord_index + 1) ELSE rel_ord_index
  /\ rak_packets' = rak_packets \o Packets(m)
  /\ script' = Append(script, m)
  /\ UNCHANGED <<acks, remote_system_time, sending, datagram, read, inserted, acked>>

ProcessOutgoing(m) ==
  /\ status = "up"
  /\ ~sending
  /\ Len(script) < MaxMessages
  /\ Process(m)
  /\ UNCHANGED status

\* What a reader learns from the acknowledgements in the datagram.
Acknowledge(s) == acked' = acked \cup List!Items(ReadAcks(s).ranges)

\* send_packet: the acknowledgements ride on the first datagram of the call.
SendPacket ==
  /\ rak_packets # <<>>
  /\ datagram' = WritePacket(AckFields(acks, remote_system_time) \o <<Bit(FALSE)>>,
                             Head(rak_packets))
  /\ acks' = <<>>
  /\ Acknowledge(datagram')
  /\ read' = Append(read, ReadDatagram(datagram'))
  /\ rak_packets' = Tail(rak_packets)
  /\ sending' = (Len(rak_packets) > 1)
  /\ status' = IF status = "dropping" THEN "dropped" ELSE status
  /\ UNCHANGED <<counters, remote_system_time, script, inserted>>

\* send_acks, in a call without messages.
SendAcks ==
  /\ status = "up"
  /\ rak_packets = <<>>
  /\ acks # <<>>
  /\ datagram' = Align(AckFields(acks, remote_system_time))
  /\ acks' = <<>>
  /\ Acknowledge(datagram')
  /\ UNCHANGED <<counters, remote_system_time, rak_packets, sending, status,
                 script, read, inserted>>

\* The socket refuses the datagram, whose acknowledgements are cleared already.
SendFailed ==
  /\ \/ rak_packets # <<>>
     \/ status = "up" /\ acks # <<>>
  /\ acks' = <<>>
  /\ rak_packets' = <<>> /\ sending' = FALSE
  /\ status' = IF status = "dropping" THEN "dropped" ELSE "failed"
  /\ UNCHANGED <<counters, remote_system_time, datagram, script, read, inserted, acked>>

\* Connection::drop, after a failure of this or of the TcpUdp connection.
Goodbye == [rel |-> "Unreliable", len |-> 1]

Drop ==
  /\ status \in {"up", "failed"}
  /\ rak_packets = <<>>
  /\ status' = "dropping"
  /\ Process(Goodbye)

\* handle_datagram between two calls: a reliable packet with a number not seen
\* before is to be acknowledged; the datagram may carry the client's time.
HandleDatagram(n, time) ==
  /\ status = "up"
  /\ rak_packets = <<>>
  /\ n \notin inserted
  /\ \E i \in 1..Len(acks) + 1 :
        List!StopsAt(acks, n, i) /\ acks' = List!InsertedAt(acks, n, i)
  /\ inserted' = inserted \cup {n}
  /\ remote_system_time' = time
  /\ UNCHANGED <<counters, rak_packets, sending, status, datagram, script, read, acked>>

-----------------------------------------------------------------------------
Init ==
  /\ message_number = 0 /\ split_packet_index = 0
  /\ unrel_seq_index = 0 /\ rel_ord_index = 0
  /\ acks = <<>> /\ remote_system_time = 0
  /\ rak_packets = <<>> /\ sending = FALSE /\ status = "up"
  /\ datagram = <<>>
  /\ script = <<>> /\ read = <<>>
  /\ inserted = {} /\ acked = {}

Next ==
  \/ \E m \in Messages : ProcessOutgoing(m)
  \/ SendPacket
  \/ SendAcks
  \/ SendFailed
  \/ Drop
  \/ \E n \in Numbers : \E time \in {remote_system_time, 1} : HandleDatagram(n, time)

Spec == Init /\ [][Next]_vars

-----------------------------------------------------------------------------
\* The packets of the messages so far, as a reader gets them or will get them.
Wire == read \o rak_packets

\* How many messages before the k-th one have its kind of index, or were split.
EarlierRel(k, rel) == Cardinality({j \in 1..k - 1 : script[j].rel = rel})
EarlierSplit(k) == Cardinality({j \in 1..k - 1 : NeedsSplit(script[j])})

\* The variables hold what the Rust types allow, and so does what is read: no
\* counter outgrows its width (send.rs:52-79).
TypeOK ==
  /\ message_number \in 0..IndexMod - 1 /\ split_packet_index \in 0..SplitMod - 1
  /\ unrel_seq_index \in 0..IndexMod - 1 /\ rel_ord_index \in 0..IndexMod - 1
  /\ acks \in Seq(List!RangeType)
  /\ remote_system_time \in Nat /\ sending \in BOOLEAN
  /\ status \in {"up", "failed", "dropping", "dropped"}
  /\ script \in Seq(Messages \cup {Goodbye})
  /\ inserted \subseteq Numbers /\ acked \subseteq Nat
  /\ \A i \in 1..Len(Wire) :
        /\ Wire[i].message_number \in 0..IndexMod - 1
        /\ Wire[i].ord \in 0..IndexMod - 1
        /\ Wire[i].data \in [msg : 1..Len(script), from : Nat, len : 0..MAX_PACKET_SIZE]

\* Packets are numbered without a gap across messages, whole or split, and
\* every sequenced or ordered message takes the next index of its kind, one for
\* all of its parts, across the wrap of the counters: what RakReceive expects
\* of its client.
Numbered ==
  status = "up" =>
    \A i \in 1..Len(Wire) :
      LET p == Wire[i]
          k == p.data.msg
      IN  /\ p.message_number = Wrap(i - 1)
          /\ p.rel = script[k].rel
          /\ p.ord = IF HasOrd(p.rel) THEN Wrap(EarlierRel(k, p.rel)) ELSE 0

\* Whoever reads the datagrams the way packet.rs does can put every message
\* together the way recv.rs does: its packets are its data from the first to the
\* last byte, in order; several carry the same id, not that of the split message
\* before, the index of their place and their number.
Rejoins ==
  status = "up" =>
    \A k \in 1..Len(script) :
      LET parts == {i \in 1..Len(Wire) : Wire[i].data.msg = k}
          n     == Cardinality(parts)
          a     == Min(parts)
          b     == a + n - 1
          id    == EarlierSplit(k) % SplitMod
      IN  /\ parts # {} /\ parts = a..b
          /\ Wire[a].data.from = 0
          /\ Wire[b].data.from + Wire[b].data.len = script[k].len
          /\ \A i \in a..b - 1 : Wire[i + 1].data.from = Wire[i].data.from + Wire[i].data.len
          /\ \A i \in a..b :
               Wire[i].split_packet_info =
                 IF n = 1 THEN <<>> ELSE <<[id |-> id, index |-> i - a, count |-> n]>>

\* Every number to acknowledge is read from one datagram or still listed, never
\* both, unless a datagram could not be sent: clearing the list as soon as it is
\* written (send.rs:167) loses nothing else, whether the acknowledgements ride on
\* a packet or go alone.
AcksOnce ==
  /\ acked \cap List!Items(acks) = {}
  /\ acked \cup List!Items(acks) \subseteq inserted
  /\ status = "up" => inserted \subseteq acked \cup List!Items(acks)

\* Datagrams with a part of a split message keep to MAX_PACKET_SIZE, those with a
\* whole message exceed it by at most the two bytes that header_len leaves out
\* (send.rs:120-135), if acknowledgements, which it does not count either, are
\* left aside.
Sized ==
  read # <<>> =>
    LET extra == IF Last(read).split_packet_info = <<>> THEN 2 ELSE 0
        ackBits == Bits(SubSeq(datagram, 1, ReadAcks(datagram).at - 1)) - 1
    IN  Bits(datagram) <= 8 * (MAX_PACKET_SIZE + extra) + ackBits + 7
=============================================================================
