------------------------------ MODULE RakWire ------------------------------
(***************************************************************************)
(* How RakNet datagrams are written and read: compressed integers          *)
(* (raknet/comp.rs), packets (raknet/packet.rs), the acknowledgements in   *)
(* front of them (raknet/send.rs, raknet/rangelist.rs) and the reader of   *)
(* both (raknet/connection.rs, raknet/recv.rs).                            *)
(*                                                                         *)
(* A datagram is the sequence of the fields that were written to the bit   *)
(* stream, each with its width in bits; which bit of a field comes first   *)
(* is the business of the stream library, which writes and reads alike.    *)
(* A reader asks for a width: a field of another width, or none, is not    *)
(* what it expects, and it gets Eof.  The data of a packet is one field.   *)
(***************************************************************************)
EXTENDS Integers, Sequences, SequencesExt

Eof == -1
NoData == [msg |-> 0, from |-> 0, len |-> 0]

Field(w, v) == [w |-> w, v |-> v]
Bit(b) == Field(1, IF b THEN 1 ELSE 0)
Bits(s) ==
  LET sum[i \in 0..Len(s)] == IF i = 0 THEN 0 ELSE sum[i - 1] + s[i].w
  IN  sum[Len(s)]

\* BitWriter::align and the end of a stream: fill up the last byte.
Align(s) == IF Bits(s) % 8 = 0 THEN s ELSE Append(s, Field(8 - (Bits(s) % 8), 0))

Fits(s, p, w) == p \in 1..Len(s) /\ s[p].w = w
At(s, p, w) == IF Fits(s, p, w) THEN s[p].v ELSE Eof
DataAt(s, p, w) == IF Fits(s, p, w) THEN s[p].v ELSE NoData

\* BitReader::align: the position after the filling, if there is any.
AlignAt(s, p) == IF Bits(SubSeq(s, 1, p - 1)) % 8 = 0 THEN p ELSE p + 1

-----------------------------------------------------------------------------
(* Compressed integers of size bytes *)

U16 == 65536                    \* values of a u16
Weight(j) == <<1, 256, 65536, 16777216>>[j + 1]
Byte(n, j) == (n \div Weight(j)) % 256

\* The highest byte of n that is not zero, byte 0 if all are.
Top(n, size) ==
  CHOOSE j \in 0..size - 1 :
    /\ j > 0 => Byte(n, j) # 0
    /\ \A k \in j + 1..size - 1 : Byte(n, k) = 0

Ones(k) == [i \in 1..k |-> Bit(TRUE)]
LowBytes(n, k) == [j \in 1..k |-> Field(8, Byte(n, j - 1))]

\* The lowest byte alone is a nibble if it can.
Lowest(n) == IF Byte(n, 0) < 16 THEN <<Bit(TRUE), Field(4, n % 16)>>
                                ELSE <<Bit(FALSE), Field(8, Byte(n, 0))>>

\* serialize: a 1 for every zero byte from the top, then a 0 and the bytes
\* that are left, from low to high.
Compress(n, size) ==
  LET top == Top(n, size)
  IN  Ones(size - 1 - top) \o IF top > 0 THEN <<Bit(FALSE)>> \o LowBytes(n, top + 1)
                                         ELSE Lowest(n)

\* deserialize: after i ones, the next byte is taken for byte i (line 77).
Decompress(s, p, size) ==
  LET i == CHOOSE i \in 0..size - 1 :
             /\ \A k \in 0..i - 1 : At(s, p + k, 1) = 1
             /\ i < size - 1 => At(s, p + i, 1) # 1
      Part(j) == IF j \in i..size - 1 THEN At(s, p + 1 + j, 8) * Weight(j) ELSE 0
      nibble == At(s, p + i, 1) = 1
  IN  IF i < size - 1
      THEN [val |-> Part(0) + Part(1) + Part(2) + Part(3), at |-> p + 1 + size]
      ELSE [val |-> At(s, p + size, IF nibble THEN 4 ELSE 8), at |-> p + size + 1]

-----------------------------------------------------------------------------
(* Packets *)

\* The reliabilities in the order of their ids, which start at 0.
RelNames == <<"Unreliable", "UnreliableSequenced", "Reliable", "ReliableOrdered">>
HasOrd(rel) == rel \in {"UnreliableSequenced", "ReliableOrdered"}

RelFields(rel, ord) ==
  LET id == CHOOSE i \in 0..3 : RelNames[i + 1] = rel
  IN  <<Field(3, id)>> \o IF HasOrd(rel) THEN <<Field(5, 0), Field(32, ord)>> ELSE <<>>

\* Mutant: the parts are counted from one.
SplitFields_FromOne(info) ==
  <<Field(16, info.id)>> \o Compress(info.index + 1, 4) \o Compress(info.count, 4)

SplitFields(info) ==
  <<Field(16, info.id)>> \o Compress(info.index, 4) \o Compress(info.count, 4)

\* RaknetPacket::serialize, after what is in the stream already.
WritePacket(s, packet) ==
  LET split == packet.split_packet_info
      len   == packet.data.len
  IN  Append(Align(s \o <<Field(32, packet.message_number)>>
                     \o RelFields(packet.rel, packet.ord)
                     \o <<Bit(split # <<>>)>>
                     \o (IF split # <<>> THEN SplitFields(split[1]) ELSE <<>>)
                     \o Compress(((len % U16) * 8) % U16, 2)),
             Field(8 * len, packet.data))

\* ReliabilityData::deserialize; other ids and channels are a panic.
RelAt(s, p) ==
  LET id  == At(s, p, 3)
      rel == IF id \in 0..3 THEN RelNames[id + 1] ELSE "panic"
  IN  IF HasOrd(rel)
      THEN [rel |-> IF At(s, p + 1, 5) = 0 THEN rel ELSE "panic",
            ord |-> At(s, p + 2, 32), at |-> p + 3]
      ELSE [rel |-> rel, ord |-> 0, at |-> p + 1]

SplitAt(s, p) ==
  LET index == Decompress(s, p + 1, 4)
      count == Decompress(s, index.at, 4)
  IN  [info |-> [id |-> At(s, p, 16), index |-> index.val, count |-> count.val],
       at   |-> count.at]

\* RaknetPacket::deserialize from position p.
ReadPacket(s, p) ==
  LET rel     == RelAt(s, p + 1)
      isSplit == At(s, rel.at, 1) = 1
      split   == SplitAt(s, rel.at + 1)
      length  == Decompress(s, IF isSplit THEN split.at ELSE rel.at + 1, 2)
  IN  [message_number |-> At(s, p, 32),
       rel |-> rel.rel,
       ord |-> rel.ord,
       split_packet_info |-> IF isSplit THEN <<split.info>> ELSE <<>>,
       data |-> DataAt(s, AlignAt(s, length.at), 8 * (length.val \div 8))]

-----------------------------------------------------------------------------
(* Acknowledgements and the header of a datagram *)

\* Mutant: every range is written as a single number.
RangeFields_Single(r) == <<Bit(TRUE), Field(32, r.min)>>

RangeFields(r) ==
  <<Bit(r.min = r.max), Field(32, r.min)>>
    \o IF r.min = r.max THEN <<>> ELSE <<Field(32, r.max)>>

RangesFields(rs) ==
  LET first[i \in 0..Len(rs)] == IF i = 0 THEN <<>> ELSE first[i - 1] \o RangeFields(rs[i])
  IN  Compress(Len(rs) % U16, 2) \o first[Len(rs)]

\* A range at position p, and where it ends.
RangeAt(s, p) ==
  LET same == At(s, p, 1) = 1
      min  == At(s, p + 1, 32)
  IN  [range |-> [min |-> min, max |-> IF same THEN min ELSE At(s, p + 2, 32)],
       at    |-> IF same THEN p + 2 ELSE p + 3]

\* count ranges from position p on, and where they end.
RangesAt(s, p, count) ==
  LET list[i \in 0..count] ==
        IF i = 0 THEN [ranges |-> <<>>, at |-> p]
        ELSE LET next == RangeAt(s, list[i - 1].at)
             IN  [ranges |-> Append(list[i - 1].ranges, next.range), at |-> next.at]
  IN  list[count]

ReadRanges(s, p) ==
  LET count == Decompress(s, p, 2)
  IN  RangesAt(s, count.at, count.val)

\* write_acks: what stands in front of everything else.
AckFields(rs, time) ==
  IF rs = <<>> THEN <<Bit(FALSE)>>
               ELSE <<Bit(TRUE), Field(32, time)>> \o RangesFields(rs)

\* handle_header up to has_remote_system_time: the acknowledged ranges and the
\* time they were written with.
ReadAcks(s) ==
  LET list == ReadRanges(s, 3)
  IN  IF At(s, 1, 1) = 1
      THEN [time |-> At(s, 2, 32), ranges |-> list.ranges, at |-> list.at]
      ELSE [time |-> 0, ranges |-> <<>>, at |-> 2]

\* handle_header and parse_packets: the packet behind the header.
ReadDatagram(s) ==
  LET at == ReadAcks(s).at
  IN  ReadPacket(s, IF At(s, at, 1) = 1 THEN at + 2 ELSE at + 1)
=============================================================================
