# raknet_shim in TLA+

`raknet_shim` is a relay between a RakNet 3.25 client and servers that speak a
simpler protocol over TCP and UDP. The client connects to a *shim* on localhost;
for every client the shim keeps a *bridge* between a RakNet connection and a
TcpUdp connection; redirects that a server sends are rewritten so that the client
goes to another shim, which is started if need be. This directory holds TLA+
modules that model the program, configurations for TLC and proofs for TLAPS.

Paths below are relative to the repository; line numbers are of the modelled
commit.

## 1. Inventory

### Parts, state and operations

| Part | Source | State | Operations |
|------|--------|-------|------------|
| Event loop | `src/main.rs` `main` | `shims`, `addrs`, `cmds` of the turn | step every shim, run the commands, sleep |
| Shim | `src/main.rs` `Shim` | `connect_addr`, UDP socket, `bridges` | `new`, `step`, `raknet_receive`, `create_bridge`, drop |
| Bridge | `src/bridge.rs` | a RakNet and a TcpUdp connection | `tcpudp_receive`, `raknet_receive`, `scan_packets` |
| RakNet connection | `src/raknet/connection.rs` | `closed`, `remote_system_time`, `acks`, the two halves | `handle_datagram`, `send`, drop |
| RakNet receiver | `src/raknet/recv.rs` | two indices, early packets, parts of split packets | `process_incoming_packets` |
| RakNet sender | `src/raknet/send.rs` | message number, split id, two indices | `send_packets`, splitting, `write_acks` |
| Acknowledgement list | `src/raknet/rangelist.rs` | vector of ranges | `insert`, `clear`, iterate, serialize, deserialize |
| Encodings | `raknet/packet.rs`, `raknet/comp.rs`, `string.rs` | none | read and write packets, compressed integers, fixed strings |
| TcpUdp connection | `src/tcpudp/mod.rs` | streams, position in the packet being read, two sequence numbers | `send`, `receive` |
| TLS stream | `src/tcpudp/tls.rs` | library session | connect (blocking), read, write |
| Log names | `src/log.rs` | none | text for the log |

### How they interact

There is one thread. Each turn `main` calls `Shim::step` on every shim:
`raknet_receive` reads datagrams until the socket is empty and gives each to the
bridge of its source (or opens one); then `retain` visits the bridges, and
`Bridge::tcpudp_receive` polls the server, scans the packets for redirects, sends
them to the client together with the acknowledgements, and returns commands. A
bridge is dropped when any of this fails; dropping its RakNet connection sends a
disconnect unless the client has disconnected itself. New shims travel as
`ShimCommand`s and enter `shims` and the table `addrs` when the turn is over.

What interleaves with the thread are the clients, whose datagrams may be lost,
duplicated, delayed and reordered, and the servers, which decide what a poll
yields and when a connection fails.

### What is hard

* Order, duplicates and wrap-around in the receiver: early packets are queued
  under a wrapping 32-bit index, old ones recognised by half of the index space.
* Split packets are put together under a 16-bit id that is reused.
* Acknowledging comes before sorting out, the list of acknowledgements is
  cleared before it is known to be sent, and the list's ranges must merge and
  stay sorted through any order of insertions.
* The table of shims is read during a turn and written after it; a failure
  between the rewrite of a redirect and the end of the turn concerns a shim that
  nobody else knows.
* The sender gives out four wrapping counters at different rates, decides about
  splitting by an estimate of the header's length, and writes integers in a form of
  variable length that the reader must take apart in the same way.
* A client and its bridge may give each other up at the same time.
* Nothing is ever retransmitted and nothing times out; progress depends on the
  client's resending and on the loop coming round.

What makes each part correct: the receiver hands on a prefix of the ordered
messages, and only ever newer sequenced ones; nothing acknowledged is lost; the
acknowledgements name nothing that did not arrive and, without duplicates, all
that did; what the sender splits and writes can be read and put together; every port
a client is told of has a shim for the right server; client
and bridge agree on whether they are connected; requests are answered and
disconnects end bridges.

`PROJECT.json` lists the hazards at their lines, with the properties that
cover them.

## 2. Modules

### RangeList — `raknet/rangelist.rs`, `write_acks` of `raknet/send.rs`

State: `ranges` (the vector) and `wire` (the acknowledgement last written), with
history variables for what the list stands for: `pending`, the numbers inserted
since the last clear, `fresh`, whether each was inserted once, and the same two
for `wire` (`reported`, `wireFresh`). `StopsAt` says where the loop of `insert`
stops, `InsertedAt` what is done there. The comparison with `item - 1` at
`rangelist.rs:68` is modelled as it is written. The count of ranges is cut to
`CountMod` (2^16 in the program).

### RakReceive — `raknet/recv.rs`, `raknet/connection.rs`

`Receive(p)` is one iteration of the loop of `process_incoming_packets`:
acknowledge, reassemble, notice a disconnect, then filter, order, queue or hand on.
It is split by the state of the split packet (`ReceiveWhole`, `ReceiveFirstPart`,
`ReceivePart`, `ReceiveLastPart`, and `PanicOnPart` for the index out of bounds at
line 53), and a complete message is treated by `Accept`. `SendAcks` is the
acknowledgement that leaves with `Connection::send`, `Drop` the removal of the
connection after a disconnect, which frees it with the queues of early and split packets
(`Freed`; a panic does the same). `remote_system_time` is only echoed and is left
to `RakSend`; the list of acknowledgements is the set of its numbers, of which an
acknowledgement may lack some, because it is lost or because of the fault in
`RangeList`.

The client and the network are external. The client numbers packets like
`SendPart` does, which is what `RakSend!Numbered` and `RakSend!Rejoins` say of it. A packet that was
sent may arrive any number of times and in any order, but not more than half of the index space out of its turn (`InHorizon`: the
code cannot tell an index further ahead from a duplicate), and a client does not
take a split id again before the reliable packets that had it are acknowledged
(`ReusesOnlyAcked`). A client sends well-formed split packets: the count is at
least 2 and the same in all parts (the code asserts the first, line 42).

Data are identities: a packet carries its message number as its chunk, a message
is the sequence of its chunks. `num`, `idx` and `sid` are unbounded in the packet,
and reduced to the width of the wire where the code reads them, so that the
properties can speak of what was meant.

`ordered`, `sequenced` and `loose` record what was handed on to the server,
`script` the ordered messages the client has sent.

`AckedHeld` is stated for a connection that is there (`status = "up"`): an acknowledged
packet was handed on or waits in a queue. What waits when a disconnect ends the connection
is lost (section 5).
Bridges that are removed because of other failures are the subject of `ShimLoop`.

### RakWire — `raknet/comp.rs`, `raknet/packet.rs`, serialization of `raknet/rangelist.rs`

No state: operators that write and read a datagram. It is the sequence of fields given
to the bit stream, each with its width, so that sizes are exact and a reader that asks
for another width than was written gets nothing; the order of the bits inside a field is
left to the stream library (`endio_bit`, external), which writes and reads alike.
`Compress` and `Decompress` are the compressed integers, translated separately, with
the shift of `comp.rs:77` as it is written. `WritePacket` and `ReadPacket`, `AckFields`
and `ReadAcks` are the two sides of a packet and of the acknowledgements in front of it;
`ReadDatagram` is `handle_header` followed by the first round of `parse_packets` (a
datagram of this program holds one packet). The data of a packet is one field.

### RakSend — `raknet/send.rs`, `raknet/connection.rs`

State: the four counters of `SendPart`, the list of acknowledgements (`acks`, with the
insertion of `RangeList`, instantiated) and `remote_system_time` of the connection, and
the packets of the call in progress. `ProcessOutgoing` is one iteration of
`process_outgoing_packets`, `SendPacket` one of the loop that follows it, `SendAcks` a call
without messages. `SendFailed` is an error of the socket at any of these datagrams: the
acknowledgements in it are cleared already, the rest of the call is given up, and the
bridge drops the connection. `Drop` sends the goodbye through the same path.
`HandleDatagram` is what a datagram of the client changes here, between two calls.
Sizes are the real ones (1200 bytes); only the moduli of the counters are small. `Numbers`
are the message numbers that may arrive, `MaxItem` the largest number of a range.

`datagram` is what was last sent; `read` and `acked` record what a reader in the style of
this program's own gets from all of them. An acknowledgement that goes alone is read only
up to the acknowledgements: `send_acks` writes no bit for the remote system time although
`handle_header` reads one, and how a RakNet client treats its end is not in the source.

### ShimLoop — `main.rs`, `bridge.rs`, drop of `connection.rs`

`pc` says where the loop stands: reading the socket of shim `cur` (`raknet`),
visiting its bridges (`bridges`), inside `scan_packets` for one of them (`scan`),
or running the commands (`cmds`); `exited` once `main` has returned or panicked.
Every call that may fail has an action for it. Bridges are pairs of a port and a
client; of the packets only redirects are told apart. `told` records which client
was sent which port for which server.

A client's `view` of its connection to a port is `none`, `asked` or `open`.
Replies and disconnects of the shim reach the client at once; its own datagrams
wait in `inbox`. On localhost datagrams are neither lost nor reordered, except that
one to a closed port, or to a full inbox (`MaxInbox`), is lost; the disconnect is
not sent into a full inbox.

`Patient` says whether a client waits until its request was read before it asks
again. With impatient clients, a leftover request can open a bridge that the
client does not know of; `SessionsMatch`, `NoOrphan` and the liveness properties
are therefore stated for patient clients. `Faults` says whether calls on UDP sockets
may fail and server names may fail to resolve: then a poll may be sent in part, the
disconnect of a dropped connection may stay unsent, and the program may end. A request
that is refused gets two answers: the goodbye of the RakNet connection that `create_bridge` made
before it tried to connect, and the refusal (`NotCreated`).

### TcpUdp, OrderedStream — `tcpudp/mod.rs`

`TcpUdp` is one direction of a TcpUdp connection: `Connection::send` at one end,
`Connection::receive` at the other. In the program one end is always a server, which
is external and speaks the same protocol, so the model stands for either direction.

`stream` holds the bytes written and not yet read. `reading_length`, `offset`, `length`
and `buffer` are the fields of `BufferOffset`; they outlive a call, `packets`, the vector
that is returned, does not (of the datagrams in it only their number is kept). `pc` says whether no call is in progress (`idle`), the call
is in `receive_tcp` or `receive_udp`, or the connection is `gone` because a call failed.
A read (`ReadTcp`) returns any number of bytes up to what fits and what is there, or
nothing even if there is something (`TcpWouldBlock`). A failing write leaves any part of
a message behind. Lengths are encoded and decoded, little-endian, with `LenBytes` bytes
of `Base` values (`LengthBytes` and `FromBytes`, recursive functions that divide and
multiply byte by byte); messages are byte strings. Datagrams may be lost, duplicated and
reordered, within half of the number space (`InHorizon`, as for `RakReceive`), and are
well-formed; `num` counts the sequenced ones without wrapping, for the properties only.

`OrderedStream` is what the reliable part promises: messages handed on are a prefix of
those sent, and while the connection is open the rest follows. `ImplementsStream` states
that `TcpUdp` implements it, with `open` mapped to `pc # "gone"`.

The calls of `receive` and what becomes of the packets are the business of `ShimLoop`,
where a call is `Poll` or `PollFailed`.

### RangeListProofs, RakReceiveProofs, RakReceiveHeldProofs, RakWireProofs, RakSendProofs, TcpUdpProofs, ShimLoopProofs, Recursion

The theorems (section 4). `RakReceiveHeldProofs` extends `RakReceiveProofs`;
`RakSendProofs` extends `RakWireProofs` and instantiates `RangeListProofs` for the list of
acknowledgements. `Recursion` holds what `RakWireProofs` and `TcpUdpProofs` need about
functions defined by recursion.

### MCRakReceive, MCRakSend, MCTcpUdp, MCShimLoop

Kinds and lengths of messages, byte strings, and symmetry, for the runs.

## 3. Runs

Every passing run explores the whole bounded state space. Each of its properties is
paired, in `PROJECT.json`, with a mutant of a definition that TLC rejects under the
same configuration.

| Run | Bounds | Shows |
|-----|--------|-------|
| `acks` | numbers 0..5, count modulo 3 | With any insertions, duplicates too, list and acknowledgement name nothing that did not arrive. Without duplicates the list stays sorted and names everything (duplicates are the subject of `acks_sorted`), and so does the acknowledgement unless the count overflows. |
| `acks_sorted` | same | **Violation**: with duplicates ranges overlap, against the comment at `rangelist.rs:62`. |
| `recv_wrap` | indices modulo 5, one split id, 6 packets | Ordered and sequenced packets across the wrap of the index, whole and split; the indices stay right although the split id is reused and parts of different messages are mixed. |
| `recv_mixed` | indices modulo 8, 4 split ids, 4 packets | All reliabilities, whole and split in 2, and a disconnect: order, no mixing of parts, nothing acknowledged is lost while the connection is there; ordered messages are handed on and reliable packets acknowledged in the end. |
| `recv_split_reuse` | one split id, 5 packets | **Violation**: a stale part enters an ordered message. |
| `send` | counters modulo 2, 3 messages of 5 kinds at the size limit, 3 numbers to acknowledge | What is written can be read and put together, numbered as the receiver expects; acknowledgements leave once; datagrams exceed the limit by 2 bytes at most, without the acknowledgements. |
| `send_parts` | one message of 340 parts | **Violation**: parts with an index or count of 256 or more are read wrongly (`comp.rs:77`), so the message is never complete. |
| `tcpudp` | bytes of 2 values, lengths of 2 bytes, 3 messages of 0 to 2 bytes, 7 sequenced datagrams modulo 6 | Framing implements an ordered stream, safety and liveness; sequenced datagrams never twice nor after a newer one, across the wrap. |
| `shim_safety` | 1 client, 2 servers, 3 ports, 2 redirects per poll, 2 datagrams per inbox | Redirects lead to live shims of the right server, the table is sound, client and bridge agree. |
| `shim_liveness` | 1 client, 2 servers, 2 ports, faults | Requests are answered, disconnects end bridges; the table is sound and no bridge orphaned when calls fail. |
| `shim_twice` | 2 clients, 3 ports | **Violation**: two shims for one server, against `bridge.rs:89`. |
| `shim_dead_port` | 1 client, 2 ports, faults | **Violation**: a client is told of a port whose shim was dropped. |

### Why the bounds are enough

* `acks`: six numbers give room for three separate ranges with gaps, for growing a
  range at either end up to its neighbour and for inserting before, between and
  behind; with the count modulo 3 the three ranges overflow it. The proofs cover
  every size.
* Indices modulo 5 and 8: half of the space is 2 and 3, so there are early packets,
  duplicates and a wrap within 6 messages; with modulo 8 several early packets are
  drained at once. The four packets of `recv_mixed` make two split messages
  interleave with each other or with two whole ones. `ExactUntilReuse` and
  `EarlyAhead` are proved for all sizes.
* `send`: the messages are the longest that is not split, the shortest that is, one of
  three parts, an empty one, and each reliability; with counters modulo 2 all four wrap
  within three messages. The numbers 0, 1 and 3 give a range, a single number and both in
  one acknowledgement. Calls of one to three messages, acknowledgements between them and
  a failure at each datagram occur.
* `tcpudp`: three messages of different lengths, one empty, let a call end inside a
  length, inside a body and between messages, and a message follow each of these;
  bodies hold bytes that would pass for lengths if the reader were out of step. Seven
  numbers modulo 6 wrap; `NewestOnly` is proved for all widths.
* `shim_safety`: three ports allow two shims made in the same poll beside the first
  one, even for the same server, and one client can hold a bridge at each. Clients
  share nothing but the table and the ports, so a second one adds interleavings
  but no new conflict, except the one that `shim_twice` shows with two. Two
  datagrams are enough for a disconnect followed by a new request.

The runs of `RakReceive`, `RakSend` and `TcpUdp` say `CHECK_DEADLOCK FALSE`: a connection that
was dropped, failed or panicked stops for good.

### Fairness

`RakReceive!FairSpec`: the client resends each reliable packet until it knows it to
be acknowledged, and not all copies are lost (weak fairness of `Resend`, which is
always enabled within the horizon); `Connection::send` is called in every turn of
the loop and not every acknowledgement of a packet is lost (strong fairness of
`SendAcks` with that number); a closed connection is dropped in the next turn.
The shim itself never retransmits, so nothing weaker would do.

`TcpUdp!FairSpec`: every turn of the loop calls `receive` and a call takes its steps (weak
fairness); what was written arrives, so that a stream that keeps holding something is
read in the end although single reads may return nothing (strong fairness of `ReadTcp`);
the UDP socket is empty at some time in each call.

`ShimLoop!FairSpec`: the loop of `main` never stops, its steps are taken in turn,
and a socket does not report a reset for ever instead of a datagram. Two assumptions
are about the surroundings, because the code does not enforce them:
`[]<>(pc # "raknet")` says that the clients do not send so fast that the loop of
`raknet_receive` never ends, and the blocking TLS handshake returns. A client
without an answer asks again.

## 4. Proofs

The proof modules are checked by TLAPS for all values of the constants, from these
assumptions: `MaxItem` is a natural number, `CountMod` and `SplitMod` positive, `IndexMod`
of the receiver and `NumMod` at least 4 (below, nothing is ahead of the index), `IndexMod` of
the sender positive, `Kinds` a set of kinds of message with at least one part; `Messages` of
the sender is a set of messages of any reliability and length, `Numbers` any part of
`0..MaxItem`; a byte has at least two values, a length at least one byte,
and the length of a reliable message fits; the sets of clients, servers and ports are
arbitrary. What a theorem assumes of `Patient` and `Faults` it says itself.

### The acknowledgement list

* `AcksAreSound`: `Spec => [](NothingInvented /\ WireSound)`. The invariant is
  `SoundInv`, which adds that the list is a sequence of ranges; the main lemma,
  `InsertedSound`, says that an insertion adds at most the inserted number, at
  whatever place of whatever list, sorted or not.
* `FreshAcksAreExact`: `Spec => [](FreshSorted /\ NothingLost /\ WireExact)`. It needs
  `SoundInv` too: a number not inserted before is not in the list (`NothingInvented`),
  which is the case in which `InsertedFresh` shows that order is kept and nothing
  dropped. `InsertedShape` reduces an insertion to four shapes of the new list.
* `WireIsSound`, `FreshStaysSorted` and `WireIsExact` state the parts of these two, and
  `TypeCorrect` that list and wire keep their types.

### The receiver

* `TypeCorrect`: `Spec => []TypeOK`.
* `EarlyStaysAhead`: `Spec => []EarlyAhead`, and
* `OrderedDelivery`: `Spec => []ExactUntilReuse`, which is
  `NoReuse => OrderedExact /\ NoPanic`, where `NoReuse` says that no split id has come round again (`recv_split_reuse` shows that the
  condition is needed). `OrderedExact` is not inductive. `Inv` adds: that packets and
  script agree (`ClientInv`); that `rel_ord_index` is the number of messages handed
  on, wrapped, and each queued packet lies at a distance below half of the index space
  (`IndexInv`, from which `EarlyAhead` follows and which needs `InHorizon`); and,
  without reuse, that each queued early message and each part of a split packet is the
  one the client sent for that place (`DataInv`). The lemma `InTurnDrains` shows that
  draining the queue walks along the script, because distances below half of the space
  do not collide when wrapped. `OrderedIsExact` is the part about the stream alone.
* `SequencedInOrder`: `Spec => []SequencedNewest`, with or without reuse of split ids.
  `SeqInv` says that `unrel_seq_index` is the number after the last message handed on, wrapped.
* `AckedIsHeld` and `LooseIsUnmixed`: `Spec => [](NoReuse => AckedHeld)`, which speaks of the
  time while the connection is there, and the same for `UnmixedLoose`. An acknowledged packet is followed through every place it can be in:
  `MessageInv` says that the packets of a message have consecutive numbers and agree in
  everything else, which turns "this part completes the message" into "all of its packets
  are in it"; `AckInv`, that only reliable packets that were sent are acknowledged, so that
  none of them can be dropped as an old sequenced one; and the data of the queues are those
  of `DataInv`. The delicate step is the last part of an ordered message that is itself out
  of turn: its parts leave the store and the whole enters the queue in the same step.

### The TcpUdp connection

* `NewestHandedOn`: `Spec => NewestOnly`: no datagram after a newer one, nor a second time. The invariant `NumInv` says that the
  numbers on the wire and at both ends are the true counts, wrapped; `NewIsNew` then shows
  that within the horizon the window of `receive_udp` takes no old number for new, and not that of the newest datagram again.
* `TypeCorrect`: `Spec => []TypeOK`, for bytes that may be anything: it includes that a slice
  of the array being filled never begins behind its end.
* `StreamIsOrdered`: `Spec => Stream!Spec`, the safety part of `ImplementsStream`. The state
  does not tell where in the stream a message begins, so the invariant looks at `Unread`:
  the bytes from the start of the message being read, the part already taken into `length`
  and `buffer` and the rest still in the stream. `Parse` says that these bytes are a
  piece of the encodings of some messages, placed by the positions at which each ends;
  `Stands`, that these messages are the ones sent in full, and perhaps one more whose write
  failed and which is not there in full. A read moves bytes within `Unread` and changes
  nothing (`JoinedRead`); a complete body, whose length was decoded from the same bytes
  (`LengthRoundTrip`), is the next message sent, never the truncated one
  (`StandsTake`).

### The sender

* `DatagramRead` (`RakWireProofs`): what `WritePacket` writes behind the acknowledgements,
  `ReadAcks` and `ReadDatagram` read, for every packet with a split index and count below 256
  and data of less than 8192 bytes (its length is counted in bits, in a u16), and fewer than
  2^16 ranges. `Has(w, p, x)` says that the fields `x` stand in the datagram `w` from position
  `p` on; each reader has a lemma that it returns, from `p`, what its writer made of `x`, and
  stops behind it (`DecompressSmall`, `DecompressTwo`, `HasRange`, `HasRanges`, `HasAcks`,
  `HasRel`, `HasSplit`, `HasPacket`). `Aligned` shows that both ends skip the same filling.
  `AcksRead` is the same for acknowledgements that go alone.
* All theorems of `RakSendProofs` have two hypotheses. `SmallMessages`: no message needs more
  than 255 parts; beyond that `comp.rs:77` reads another number than was written, which is what
  `send_parts` shows. `FewAcks`: no list has 2^16 ranges or more; beyond that the count at
  `rangelist.rs:117` is cut. Both hold in the run `send`.
* `PacketsAreNumbered` and `MessagesRejoin`: `[]Numbered` and `[]Rejoins`. Neither is inductive:
  they quantify over packets and over messages, but do not say how the two lie beside each
  other. `UpInv` does: `Laid` gives for each message the position of its first packet, lets the
  next one begin `Count` packets later, and says of each packet which part of which message it
  is, with which numbers; the four counters are the true counts, wrapped (`CountersOK` for their
  widths). `ProcessUp` extends this by a message (`LaidMore`), and a datagram moves a packet from
  `rak_packets` to `read` unchanged because of `DatagramRead`. That the parts are the message, to
  the last byte, is `Slices`; that there are at least two of them, `Counts`.
* `AckedOnce`: `[]AcksOnce`. In `RakSend` every number arrives once (what duplicates do is the
  subject of `RangeList` and `RakReceive`), so the list is one of `RangeListProofs`' fresh ones: `InsertedSound` and `InsertedFresh` are taken from there.
* `DatagramsAreSized`: `[]Sized`, whose bound allows for what `header_len` leaves out (section 5). `DatagramBits` bounds the bits of a datagram by those of its
  fields: compressed integers by `CompressBits`, the header by what `header_len` counts for each
  reliability (`HeaderFits`).
* `TypeCorrect`: `[]TypeOK`, from `TypeInv`, which also says that every packet is one that
  `DatagramRead` applies to.

### Induction and recursion

The library's induction theorems take a predicate as a parameter, which the provers cannot
instantiate. `SetInduction` states induction with a set in its place, proved from the
well-foundedness of `<`; with it `RecursionExists` shows that a function defined by recursion
on a natural number exists, from which the defining equations of `LengthBytes` and
`FromBytes`, of `Bits`, `RangesFields` and `RangesAt`, and what is proved about them follow.

### Event loop, shims and bridges

* `TypeCorrect` and `TableIsSound`: `Spec => []TypeOK` and `Spec => []AddrsSound`, with faults.
* `RedirectsStayLive`: without faults, `Spec => []RedirectsLive`. `LiveInv` adds `OutLive`: the
  redirects that a scan has rewritten but not yet sent name shims that are listed, about to
  be listed, or made in this scan. The run `shim_dead_port` shows that `Faults` must be excluded.
* `NoBridgeOrphaned`: with patient clients, `Spec => []NoOrphan`, and
* `SessionsAgree`: with patient clients and without faults, `Spec => []SessionsMatch`. `SessionInv`
  adds what may wait in an inbox for each state of a client's view: at most one request,
  only while the client has asked and behind all of its goodbyes, and no goodbye while it
  takes the connection for open (`Queues`); and that bridges are at ports of listed shims
  only, which the shims made in a scan do not share (`Sockets`).

### Only model-checked

The liveness properties, the second half of `ImplementsStream` included: `FairSpec` and
`ENABLED` are beyond the proof system. Every invariant of a passing run is stated by a theorem.
For `OrderedExact`, `UnmixedLoose` and `AckedHeld` it says what the runs show: they hold while no
split id comes round again.

## 5. What is not modelled

* `string.rs`: a pure conversion of the address in a redirect. What its failures do is
  `ScanFailed` and `ScanPanicked` in `ShimLoop`; no state depends on the text.
* Compressed integers of 2^31 and more are beyond TLC's integers; they take the path
  without a leading one, in which reader and writer agree.
* A disconnect is acted on when it arrives (`recv.rs:77`), ahead of ordered messages sent before
  it that are still missing, and the connection is freed with the early messages in its queue,
  also those that were acknowledged. `RakReceive` has this behaviour. The source does not say whether
  "Guaranteed to be received" (`bridge.rs:37`) outlasts a disconnect, so no property does.
* That datagrams keep to `MAX_PACKET_SIZE`: they do not. The longest messages that are not split
  become datagrams of 1202 bytes, because `header_len` leaves out their data length and the flags
  in front of the packet; with acknowledgements they are longer still. `Sized` allows for these
  two bytes and sets the acknowledgements aside: it shows that the excess is no larger and that
  parts of split messages keep to the limit.
* `tls.rs` wraps a library; its blocking handshake appears as an assumption. `log.rs`
  produces text.
* Datagrams of zero length, with an unknown id or cut off inside their header, and
  malformed split packets are no inputs of the models. Neither is a stream write that
  takes only part of its bytes: `send` ignores the count (`tcpudp/mod.rs:79`), which is
  right for the TLS stream, because the library buffers what it is given.
* The comment at `raknet/connection.rs:1-2` expects the client on localhost;
  `RakReceive` assumes a worse network than that.
* Clients that vanish without a disconnect stay connected for ever in the code; there
  is no behaviour to state a property about.

## 6. Plan

Done: the receiver, the sender with the encodings, the acknowledgement list, the TcpUdp
connection, the event loop with shims and bridges; the proofs of section 4.

The proofs cover every invariant that the runs check, `NewestOnly` and the safety part of the
refinement. What is left to TLC is liveness.
