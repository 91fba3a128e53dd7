------------------------------- MODULE TcpUdp -------------------------------
(***************************************************************************)
(* One direction of a TcpUdp connection (tcpudp/mod.rs): Connection::send  *)
(* at one end, Connection::receive at the other.  In the program one of    *)
(* the ends is always a server; it is external and speaks the same         *)
(* protocol.                                                               *)
(*                                                                         *)
(* Reliable messages share a stream of bytes.  A read of it returns any    *)
(* part of what was written and asked for, or nothing at all, also when    *)
(* there is something: data is still on its way, or the TLS library has    *)
(* only part of a record.  The library takes every write as a whole unless *)
(* it fails.  Datagrams may be lost, duplicated and reordered.             *)
(***************************************************************************)
EXTENDS Integers, Sequences, FiniteSets

CONSTANTS Base,         \* values of a byte, 256
          LenBytes,     \* bytes of a length, 4
          NumMod,       \* sequence numbers, 2^32
          Messages,     \* the reliable messages, as sequences of bytes
          MaxMsgs,      \* bound: reliable messages sent
          MaxNum,       \* bound: sequenced datagrams sent
          MaxBatch      \* bound: datagrams handed on by one call

Bytes == 0 .. Base - 1

ASSUME WidthAssumption   == Base \in Nat \ {0, 1} /\ LenBytes \in Nat \ {0} /\ NumMod \in Nat
ASSUME SeqAssumption     == NumMod >= 4     \* below, no number is ever ahead
ASSUME BoundAssumption   == MaxMsgs \in Nat /\ MaxNum \in Nat /\ MaxBatch \in Nat

VARIABLES
  \* the sending end
  sender,               \* "up", or "gone" after a failed write
  seq_num_send,
  \* on their way
  stream,               \* bytes written and not yet read
  datagrams,            \* datagrams sent
  \* the receiving end: Connection, and the call of receive in progress
  seq_num_recv,
  reading_length, offset, length, buffer,       \* BufferOffset
  pc,                   \* "idle" between calls, "tcp", "udp" or "gone"
  packets,              \* the vector receive will return: the reliable
                        \* messages in it, and how many others
  \* history
  sent,                 \* reliable messages sent in full
  got,                  \* reliable messages handed on
  newest                \* number after the last sequenced datagram taken

sendVars   == <<sender, seq_num_send>>
netVars    == <<stream, datagrams>>
bufferVars == <<reading_length, offset, length, buffer>>
recvVars   == <<seq_num_recv, bufferVars, pc, packets>>
vars == <<sendVars, netVars, recvVars, sent, got, newest>>

-----------------------------------------------------------------------------
\* What is left of n when i bytes of it are written.
Quotients(n) ==
  LET q[i \in 0..LenBytes] == IF i = 0 THEN n ELSE q[i - 1] \div Base IN q

\* Little-endian lengths, written and read.
LengthBytes(n) == [i \in 1..LenBytes |-> Quotients(n)[i - 1] % Base]
FromBytes(bs) ==
  LET v[i \in 0..LenBytes] ==
        IF i = 0 THEN 0 ELSE bs[LenBytes + 1 - i] + Base * v[i - 1]
  IN  v[LenBytes]

\* Messages are shorter than 2^32 bytes: nothing is left of their lengths.
ASSUME MessageAssumption ==
  \A m \in Messages : m \in Seq(Bytes) /\ Quotients(Len(m))[LenBytes] = 0

Encoded(m) == LengthBytes(Len(m)) \o m

Zeros(n) == [i \in 1..n |-> 0]

\* buf with the bytes bs from place off on, what a read leaves behind.
Filled(buf, off, bs) ==
  [i \in DOMAIN buf |-> IF i - off \in DOMAIN bs THEN bs[i - off] ELSE buf[i]]

Wrap(n) == n % NumMod           \* wrapping arithmetic on sequence numbers

Sequenced == {d \in datagrams : d.rel = "sequenced"}

NoPackets == [reliable |-> <<>>, others |-> 0]

-----------------------------------------------------------------------------
(* send *)

\* Unreliable datagrams carry no number; nothing tells them apart.
SendUnreliable ==
  /\ sender = "up"
  /\ datagrams' = datagrams \cup {[rel |-> "unreliable", seq |-> 0, num |-> 0]}
  /\ UNCHANGED <<sendVars, stream, recvVars, sent, got, newest>>

\* num counts the datagrams without wrapping; the receiver does not read it.
SendSequenced(n) ==
  /\ sender = "up"
  /\ n = Cardinality(Sequenced)
  /\ seq_num_send' = Wrap(seq_num_send + 1)
  /\ datagrams' = datagrams \cup {[rel |-> "sequenced", seq |-> seq_num_send, num |-> n]}
  /\ UNCHANGED <<sender, stream, recvVars, sent, got, newest>>

SendReliable(m) ==
  /\ sender = "up"
  /\ Len(sent) < MaxMsgs
  /\ stream' = stream \o Encoded(m)
  /\ sent' = Append(sent, m)
  /\ UNCHANGED <<sendVars, datagrams, recvVars, got, newest>>

\* A write fails, after part of a message or before: the error ends the connection.
SendFailed(m) ==
  /\ sender = "up"
  /\ Len(sent) < MaxMsgs
  /\ \E n \in 0 .. Len(Encoded(m)) - 1 : stream' = stream \o SubSeq(Encoded(m), 1, n)
  /\ sender' = "gone"
  /\ UNCHANGED <<seq_num_send, datagrams, recvVars, sent, got, newest>>

-----------------------------------------------------------------------------
(* receive *)

\* Mutant: each call starts to read a new message.
Receive_FromStart ==
  /\ pc = "idle"
  /\ pc' = "tcp" /\ packets' = NoPackets
  /\ reading_length' = TRUE /\ offset' = 0
  /\ UNCHANGED <<sendVars, netVars, seq_num_recv, length, buffer, sent, got, newest>>

Receive ==
  /\ pc = "idle"
  /\ pc' = "tcp" /\ packets' = NoPackets
  /\ UNCHANGED <<sendVars, netVars, seq_num_recv, bufferVars, sent, got, newest>>

\* receive returns an error, with it go the packets and the connection.
ReceiveFails ==
  /\ pc' = "gone" /\ packets' = NoPackets
  /\ UNCHANGED <<sendVars, netVars, seq_num_recv, bufferVars, sent, got, newest>>

(* receive_tcp *)

\* The array that is being filled, and whether it has room left.
Target == IF reading_length THEN length ELSE buffer
ReadDue == pc = "tcp" /\ offset < Len(Target)

\* Lines 137 and 148: n bytes are read.
ReadTcp(n) ==
  /\ ReadDue
  /\ n <= Len(Target) - offset /\ n <= Len(stream)
  /\ LET target == Filled(Target, offset, SubSeq(stream, 1, n))
     IN  IF reading_length THEN length' = target /\ UNCHANGED buffer
                           ELSE buffer' = target /\ UNCHANGED length
  /\ offset' = offset + n
  /\ stream' = SubSeq(stream, n + 1, Len(stream))
  /\ UNCHANGED <<sendVars, datagrams, seq_num_recv, reading_length, pc, packets,
                 sent, got, newest>>

\* Lines 137-140 and 148-151: nothing to read, on to receive_udp.
TcpWouldBlock ==
  /\ ReadDue
  /\ pc' = "udp"
  /\ UNCHANGED <<sendVars, netVars, seq_num_recv, bufferVars, packets, sent, got, newest>>

TcpFailed == ReadDue /\ ReceiveFails

\* Mutant: the body is read from where the length ended.
LengthRead_KeepsOffset ==
  /\ pc = "tcp" /\ reading_length /\ offset = Len(length)
  /\ reading_length' = FALSE
  /\ buffer' = Zeros(FromBytes(length))
  /\ UNCHANGED <<sendVars, netVars, seq_num_recv, offset, length, pc, packets, sent, got, newest>>

\* Lines 143-145.
LengthRead ==
  /\ pc = "tcp" /\ reading_length /\ offset = Len(length)
  /\ reading_length' = FALSE
  /\ offset' = 0
  /\ buffer' = Zeros(FromBytes(length))
  /\ UNCHANGED <<sendVars, netVars, seq_num_recv, length, pc, packets, sent, got, newest>>

\* Mutant: an empty message is waited for like any other.
BodyRead_NotEmpty ==
  /\ pc = "tcp" /\ ~reading_length /\ offset = Len(buffer)
  /\ buffer # <<>>
  /\ reading_length' = TRUE
  /\ offset' = 0
  /\ buffer' = <<>>
  /\ packets' = [packets EXCEPT !.reliable = Append(@, buffer)]
  /\ UNCHANGED <<sendVars, netVars, seq_num_recv, length, pc, sent, got, newest>>

\* Lines 154-159.
BodyRead ==
  /\ pc = "tcp" /\ ~reading_length /\ offset = Len(buffer)
  /\ reading_length' = TRUE
  /\ offset' = 0
  /\ buffer' = <<>>
  /\ packets' = [packets EXCEPT !.reliable = Append(@, buffer)]
  /\ UNCHANGED <<sendVars, netVars, seq_num_recv, length, pc, sent, got, newest>>

(* receive_udp *)

\* Bound: datagrams handed on by one call.
Room == packets.others < MaxBatch

TakeUnreliable(d) ==
  /\ pc = "udp" /\ d.rel = "unreliable" /\ Room
  /\ packets' = [packets EXCEPT !.others = @ + 1]
  /\ UNCHANGED <<sendVars, netVars, seq_num_recv, bufferVars, pc, sent, got, newest>>

\* Line 121.
Half == (NumMod - 1) \div 2
IsNew(seq) == Wrap(seq - seq_num_recv) < Half

\* A datagram is not so late or early that wrapping makes it look otherwise.
InHorizon(d) == d.num - newest \in Half - NumMod .. Half - 1

\* Mutant: the number taken is expected again.
TakeSequenced_Again(d) ==
  /\ pc = "udp" /\ d.rel = "sequenced" /\ InHorizon(d) /\ Room
  /\ IsNew(d.seq)
  /\ seq_num_recv' = d.seq
  /\ packets' = [packets EXCEPT !.others = @ + 1]
  /\ newest' = d.num + 1
  /\ UNCHANGED <<sendVars, netVars, bufferVars, pc, sent, got>>

\* Lines 121-124.
TakeSequenced(d) ==
  /\ pc = "udp" /\ d.rel = "sequenced" /\ InHorizon(d) /\ Room
  /\ IsNew(d.seq)
  /\ seq_num_recv' = Wrap(d.seq + 1)
  /\ packets' = [packets EXCEPT !.others = @ + 1]
  /\ newest' = d.num + 1
  /\ UNCHANGED <<sendVars, netVars, bufferVars, pc, sent, got>>

\* Line 121: an old datagram is passed over.
PassOver(d) ==
  /\ pc = "udp" /\ d.rel = "sequenced" /\ InHorizon(d)
  /\ ~IsNew(d.seq)
  /\ UNCHANGED vars

UdpWouldBlock ==
  /\ pc = "udp"
  /\ pc' = "idle"
  /\ got' = got \o packets.reliable
  /\ packets' = NoPackets
  /\ UNCHANGED <<sendVars, netVars, seq_num_recv, bufferVars, sent, newest>>

UdpFailed == pc = "udp" /\ ReceiveFails

-----------------------------------------------------------------------------
Init ==
  /\ sender = "up" /\ seq_num_send = 0
  /\ stream = <<>> /\ datagrams = {}
  /\ seq_num_recv = 0
  /\ reading_length = TRUE /\ offset = 0 /\ length = Zeros(LenBytes) /\ buffer = <<>>
  /\ pc = "idle" /\ packets = NoPackets
  /\ sent = <<>> /\ got = <<>> /\ newest = 0

Send ==
  \/ SendUnreliable
  \/ \E n \in 0 .. MaxNum - 1 : SendSequenced(n)
  \/ \E m \in Messages : SendReliable(m) \/ SendFailed(m)

ReceiveTcp ==
  \/ \E n \in 1..Len(stream) : ReadTcp(n)
  \/ LengthRead \/ BodyRead \/ TcpWouldBlock \/ TcpFailed

ReceiveUdp ==
  \/ \E d \in datagrams : TakeUnreliable(d) \/ TakeSequenced(d) \/ PassOver(d)
  \/ UdpWouldBlock \/ UdpFailed

Next == Send \/ Receive \/ ReceiveTcp \/ ReceiveUdp

Spec == Init /\ [][Next]_vars

(***************************************************************************)
(* Fairness: the loop of main calls receive again and again and a call     *)
(* takes its steps (bridge.rs:67); what was written arrives, so that not   *)
(* every read of a stream that holds something returns nothing; datagrams  *)
(* do not come faster than they are read.                                  *)
(***************************************************************************)
FairSpec ==
  /\ Spec
  /\ WF_vars(Receive)
  /\ SF_vars(\E n \in 1..Len(stream) : ReadTcp(n))
  /\ WF_vars(LengthRead) /\ WF_vars(BodyRead) /\ WF_vars(TcpWouldBlock)
  /\ WF_vars(UdpWouldBlock)

-----------------------------------------------------------------------------
\* The variables hold what the Rust types allow, and the position in an array
\* that is being read is never behind its end: the slices of lines 137 and 148
\* do not panic.
TypeOK ==
  /\ sender \in {"up", "gone"} /\ seq_num_send \in 0 .. NumMod - 1
  /\ stream \in Seq(Bytes)
  /\ datagrams \subseteq
       [rel : {"unreliable", "sequenced"}, seq : 0 .. NumMod - 1, num : 0..MaxNum]
  /\ seq_num_recv \in 0 .. NumMod - 1
  /\ reading_length \in BOOLEAN /\ offset \in 0..Len(Target)
  /\ length \in [1..LenBytes -> Bytes] /\ buffer \in Seq(Bytes)
  /\ pc \in {"idle", "tcp", "udp", "gone"}
  /\ packets \in [reliable : Seq(Seq(Bytes)), others : 0..MaxBatch]
  /\ sent \in Seq(Messages) /\ got \in Seq(Seq(Bytes)) /\ newest \in Nat

Stream == INSTANCE OrderedStream WITH open <- pc # "gone"

\* However the bytes are cut up by reads and calls, and wherever a write fails,
\* the reliable messages that receive returns are the first of those sent, whole
\* and in order; and while the connection lasts all of them are returned in the
\* end, empty ones too (bridge.rs:37).
ImplementsStream == Stream!FairSpec

\* A sequenced datagram is never handed on after a newer one, nor a second time
\* when it is duplicated, also not when the numbers wrap (bridge.rs:33): it
\* comes behind all that were handed on before it.
NewestOnly == [][\A d \in datagrams : TakeSequenced(d) => d.num >= newest]_vars
=============================================================================
