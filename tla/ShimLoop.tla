------------------------------ MODULE ShimLoop ------------------------------
(***************************************************************************)
(* The event loop of main (main.rs) over all shims, with the parts of      *)
(* Shim and Bridge (main.rs, bridge.rs) that create and remove bridges and *)
(* shims.                                                                  *)
(*                                                                         *)
(* One turn of the loop steps every shim in turn: it handles the datagrams *)
(* at the shim's RakNet socket until there are none left, then visits each *)
(* bridge, which polls its server connection, scans the packets for        *)
(* redirects and sends them to the client.  A redirect to a server without *)
(* a shim binds a new one, but the table addrs and the list of shims learn *)
(* of it only at the end of the turn, from cmds.                           *)
(*                                                                         *)
(* The program is one thread; what interleaves with it are the clients,    *)
(* whose datagrams may arrive between any two of its steps, and the        *)
(* servers, whose connections may fail and which decide what is polled.    *)
(* Sockets, clients and servers are external: sockets on localhost keep    *)
(* order and lose nothing, except that a datagram to a port nobody has     *)
(* bound is lost.  Only redirects are told apart among the packets.        *)
(***************************************************************************)
EXTENDS Integers, Sequences, FiniteSets

CONSTANTS Clients,      \* client addresses
          Remotes,      \* addresses of servers
          AuthRemote,   \* connect_addr of the first shim
          Ports,        \* local ports
          AuthPort,     \* 1001, the port of the first shim
          Patient,      \* whether clients wait until a request is read before
                        \* they ask again
          Faults,       \* whether calls on a UDP socket may fail and names of
                        \* servers may not resolve
          MaxBatch,     \* bound: redirects in one poll of a server
          MaxInbox      \* bound: datagrams waiting at a socket

ASSUME AuthAssumption  == AuthRemote \in Remotes /\ AuthPort \in Ports
ASSUME FlagAssumption  == Faults \in BOOLEAN /\ Patient \in BOOLEAN
ASSUME BoundAssumption == MaxBatch \in Nat /\ MaxInbox \in Nat

VARIABLES
  \* main
  shims,                \* the shims: remote address and local port of each
  addrs,                \* remote address -> local port
  cmds,                 \* the shims to add at the end of this turn
  \* where the loop stands
  pc,                   \* "raknet", "bridges", "scan", "cmds" or "exited"
  cur,                  \* the shim being stepped
  todo,                 \* clients whose bridges retain has not visited yet
  visited,              \* the client whose bridge is polled
  out,                  \* the redirects scanned in this poll, rewritten
  fresh,                \* the shims made for them, Bridge's own cmds
  \* the bridges of all shims, as <<port, client>>
  bridges,
  closed,               \* those whose RakConn::closed is set
  \* sockets and clients
  inbox,                \* datagrams waiting at each port
  view,                 \* the client's view of its connection to each port
  told                  \* history: <<client, remote, port>> of sent redirects

mainVars   == <<shims, addrs, cmds>>
pollVars   == <<visited, out, fresh>>
loopVars   == <<pc, cur, todo, pollVars>>
bridgeVars == <<bridges, closed>>
vars == <<mainVars, loopVars, bridgeVars, inbox, view, told>>

-----------------------------------------------------------------------------
NoClient == "none"      \* no bridge is being polled

Shim(r, p) == [remote |-> r, port |-> p]
Elems(s) == {s[i] : i \in 1..Len(s)}

\* The shims whose sockets are open: listed, to be listed, or just made.
Bound ==
  IF pc = "exited" THEN {}
  ELSE {sh.port : sh \in Elems(shims) \cup Elems(cmds) \cup Elems(fresh)}

Port == shims[cur].port

\* The ports a client knows of.
Known(c) == {AuthPort} \cup {t[3] : t \in {u \in told : u[1] = c}}

\* Connection::drop tells the clients of these bridges, except where the
\* connection is closed or, in case of faults, the notification is not sent.
Dropped(bs) ==
  \E silent \in IF Faults THEN SUBSET bs ELSE {{}} :
    view' = [b \in Ports \X Clients |->
               IF b \in bs \ (closed \cup silent) /\ view[b] = "open" THEN "none" ELSE view[b]]

\* A bridge goes away: it is removed, its RakConn dropped.
RemoveBridge(p, c) ==
  /\ bridges' = bridges \ {<<p, c>>}
  /\ closed'  = closed \ {<<p, c>>}
  /\ Dropped({<<p, c>>})

\* main returns an error or unwinds: all bridges are dropped, all sockets closed.
Exit ==
  /\ Faults
  /\ pc' = "exited"
  /\ bridges' = {} /\ closed' = {}
  /\ Dropped(bridges)
  /\ inbox' = [p \in Ports |-> <<>>]
  /\ UNCHANGED <<mainVars, cur, todo, pollVars, told>>

-----------------------------------------------------------------------------
(* Clients *)

Waiting(p, c, kind) ==
  \E i \in 1..Len(inbox[p]) : inbox[p][i] = [from |-> c, kind |-> kind]

\* A datagram reaches a bound socket that has room.
Arrives(p, c, kind) ==
  inbox' = IF p \in Bound /\ Len(inbox[p]) < MaxInbox
           THEN [inbox EXCEPT ![p] = Append(@, [from |-> c, kind |-> kind])]
           ELSE inbox

\* The client asks for a connection, again if it got no answer.
ClientOpen(p, c) ==
  /\ p \in Known(c)
  /\ view[<<p, c>>] # "open"
  /\ Patient => ~Waiting(p, c, "open")
  /\ Arrives(p, c, "open")
  /\ view' = [view EXCEPT ![<<p, c>>] = "asked"]
  /\ UNCHANGED <<mainVars, loopVars, bridgeVars, told>>

ClientData(p, c) ==
  /\ view[<<p, c>>] = "open"
  /\ Arrives(p, c, "data")
  /\ UNCHANGED <<mainVars, loopVars, bridgeVars, view, told>>

\* The client disconnects; its notification is not lost.
ClientClose(p, c) ==
  /\ view[<<p, c>>] = "open"
  /\ Len(inbox[p]) < MaxInbox
  /\ Arrives(p, c, "disconnect")
  /\ view' = [view EXCEPT ![<<p, c>>] = "none"]
  /\ UNCHANGED <<mainVars, loopVars, bridgeVars, told>>

-----------------------------------------------------------------------------
(* Shim::raknet_receive *)

Received(d) ==
  /\ pc = "raknet"
  /\ inbox[Port] # <<>>
  /\ d = Head(inbox[Port])
  /\ inbox' = [inbox EXCEPT ![Port] = Tail(@)]

\* Lines 114-118 and 128: the server accepts, the client gets its reply, which
\* it ignores if it does not wait for one any more.
OpenAccepted(d) ==
  /\ Received(d) /\ d.kind = "open" /\ <<Port, d.from>> \notin bridges
  /\ bridges' = bridges \cup {<<Port, d.from>>}
  /\ view' = [view EXCEPT ![<<Port, d.from>>] = IF @ = "asked" THEN "open" ELSE @]
  /\ UNCHANGED <<mainVars, loopVars, closed, told>>

\* create_bridge fails at line 143: the RakConn of line 142 is dropped and says
\* goodbye, in case of faults perhaps not; then the refusal answers a request.
NotCreated(b) ==
  \E goodbye \in IF Faults THEN BOOLEAN ELSE {TRUE} :
    view' = [view EXCEPT ![b] = IF goodbye \/ @ = "asked" THEN "none" ELSE @]

\* Lines 119-128: the server refuses or cannot be reached.
OpenRefused(d) ==
  /\ Received(d) /\ d.kind = "open" /\ <<Port, d.from>> \notin bridges
  /\ NotCreated(<<Port, d.from>>)
  /\ UNCHANGED <<mainVars, loopVars, bridgeVars, told>>

\* Line 128: the answer cannot be sent.
OpenFailed(d) ==
  /\ pc = "raknet" /\ d.kind = "open" /\ <<Port, d.from>> \notin bridges
  /\ Exit

\* Line 113: anything but a request from an unknown source.
Ignored(d) ==
  /\ Received(d) /\ d.kind # "open" /\ <<Port, d.from>> \notin bridges
  /\ UNCHANGED <<mainVars, loopVars, bridgeVars, view, told>>

\* Mutant: a disconnect is handed on like any other datagram.
Relayed_NoClose(d) ==
  /\ Received(d) /\ <<Port, d.from>> \in bridges
  /\ UNCHANGED <<mainVars, loopVars, bridgeVars, view, told>>

\* Line 132: the bridge handles the datagram.  A request parses as a datagram
\* without packets, a disconnect only sets RakConn::closed.
Relayed(d) ==
  /\ Received(d) /\ <<Port, d.from>> \in bridges
  /\ closed' = IF d.kind = "disconnect" THEN closed \cup {<<Port, d.from>>} ELSE closed
  /\ UNCHANGED <<mainVars, loopVars, bridges, view, told>>

\* Lines 132-135: the datagram has no valid header or the server connection
\* fails.
RelayFailed(d) ==
  /\ Received(d) /\ <<Port, d.from>> \in bridges /\ d.kind = "data"
  /\ RemoveBridge(Port, d.from)
  /\ UNCHANGED <<mainVars, loopVars, told>>

Receive ==
  /\ pc = "raknet"
  /\ inbox[Port] # <<>>
  /\ LET d == Head(inbox[Port])
     IN  \/ OpenAccepted(d)
         \/ OpenRefused(d)
         \/ OpenFailed(d)
         \/ Ignored(d)
         \/ Relayed(d)
         \/ RelayFailed(d)

\* The bridges of the current shim are about to be visited.
StartRetain ==
  /\ pc = "raknet"
  /\ pc' = "bridges"
  /\ todo' = {c \in Clients : <<Port, c>> \in bridges}
  /\ UNCHANGED <<mainVars, cur, pollVars, bridgeVars, inbox, view, told>>

\* Line 104: nothing is left to read.
EndReceive == inbox[Port] = <<>> /\ StartRetain

\* Line 104: a connection reset reported by the socket ends the loop early.
ResetReceive == inbox[Port] # <<>> /\ StartRetain

\* Lines 107-108: the socket reports another error.
ReceiveFailed == pc = "raknet" /\ Exit

-----------------------------------------------------------------------------
(* Shim::step, retain: Bridge::tcpudp_receive *)

\* Mutant: the client is not told.
PollFailed_Silent(c) ==
  /\ pc = "bridges" /\ c \in todo
  /\ todo' = todo \ {c}
  /\ bridges' = bridges \ {<<Port, c>>}
  /\ closed' = closed \ {<<Port, c>>}
  /\ UNCHANGED <<mainVars, pc, cur, pollVars, inbox, view, told>>

\* Bridge line 67: the server connection fails or is closed.
PollFailed(c) ==
  /\ pc = "bridges" /\ c \in todo
  /\ todo' = todo \ {c}
  /\ RemoveBridge(Port, c)
  /\ UNCHANGED <<mainVars, pc, cur, pollVars, inbox, told>>

Poll(c) ==
  /\ pc = "bridges" /\ c \in todo
  /\ pc' = "scan"
  /\ todo' = todo \ {c}
  /\ visited' = c
  /\ out' = <<>> /\ fresh' = <<>>
  /\ UNCHANGED <<mainVars, cur, bridgeVars, inbox, view, told>>

\* A redirect to a server that has a shim.
ScanKnown(r) ==
  /\ pc = "scan" /\ Len(out) < MaxBatch
  /\ r \in DOMAIN addrs
  /\ out' = Append(out, Shim(r, addrs[r]))
  /\ UNCHANGED <<mainVars, pc, cur, todo, visited, fresh, bridgeVars, inbox, view, told>>

\* Mutant: main's table learns of the shim as soon as it is made.
ScanNew_Early(r, p) ==
  /\ pc = "scan" /\ Len(out) < MaxBatch
  /\ r \notin DOMAIN addrs
  /\ p \notin Bound
  /\ out' = Append(out, Shim(r, p))
  /\ fresh' = Append(fresh, Shim(r, p))
  /\ addrs' = [s \in DOMAIN addrs \cup {r} |-> IF s = r THEN p ELSE addrs[s]]
  /\ UNCHANGED <<shims, cmds, pc, cur, todo, visited, bridgeVars, inbox, view, told>>

\* A redirect to a server without one: a new shim, at a port the system picks.
ScanNew(r, p) ==
  /\ pc = "scan" /\ Len(out) < MaxBatch
  /\ r \notin DOMAIN addrs
  /\ p \notin Bound
  /\ out' = Append(out, Shim(r, p))
  /\ fresh' = Append(fresh, Shim(r, p))
  /\ UNCHANGED <<mainVars, pc, cur, todo, visited, bridgeVars, inbox, view, told>>

\* The sockets of the shims made in this poll are closed again.
DropFresh ==
  /\ inbox' = [p \in Ports |-> IF p \in {sh.port : sh \in Elems(fresh)}
                               THEN <<>> ELSE inbox[p]]
  /\ fresh' = <<>>

BackToRetain ==
  pc' = "bridges" /\ visited' = NoClient /\ out' = <<>> /\ UNCHANGED <<cur, todo>>

\* A malformed redirect, or no socket for the shim: the poll fails as a whole.
ScanFailed ==
  /\ pc = "scan"
  /\ RemoveBridge(Port, visited)
  /\ DropFresh
  /\ BackToRetain
  /\ UNCHANGED <<mainVars, told>>

\* Bridge lines 103 and 127: the name of the server does not resolve; unwrap.
ScanPanicked == pc = "scan" /\ Exit

Redirects(n) == {<<visited, out[i].remote, out[i].port>> : i \in 1..n}

\* Bridge lines 72-73 and main line 80: the packets go to the client, the
\* commands to main.
Forward ==
  /\ pc = "scan" /\ <<Port, visited>> \notin closed
  /\ told' = told \cup Redirects(Len(out))
  /\ cmds' = cmds \o fresh
  /\ fresh' = <<>>
  /\ BackToRetain
  /\ UNCHANGED <<shims, addrs, bridgeVars, inbox, view>>

\* Mutant: the bridge stays.
ForwardAborted_Kept ==
  /\ pc = "scan" /\ <<Port, visited>> \in closed
  /\ DropFresh
  /\ BackToRetain
  /\ UNCHANGED <<mainVars, bridgeVars, view, told>>

\* Bridge line 72, RakConn::send after a disconnect: the bridge is removed.
ForwardAborted ==
  /\ pc = "scan" /\ <<Port, visited>> \in closed
  /\ RemoveBridge(Port, visited)
  /\ DropFresh
  /\ BackToRetain
  /\ UNCHANGED <<mainVars, told>>

\* Bridge line 72: only the first n packets are sent, the commands are lost.
ForwardFailed(n) ==
  /\ Faults
  /\ pc = "scan" /\ <<Port, visited>> \notin closed
  /\ n <= Len(out)
  /\ told' = told \cup Redirects(n)
  /\ RemoveBridge(Port, visited)
  /\ DropFresh
  /\ BackToRetain
  /\ UNCHANGED mainVars

-----------------------------------------------------------------------------
(* main *)

\* Mutant: the test for the last shim is off by one.
NextShim_TooFar ==
  /\ pc = "bridges" /\ todo = {}
  /\ IF cur <= Len(shims) THEN pc' = "raknet" /\ cur' = cur + 1
                          ELSE pc' = "cmds" /\ UNCHANGED cur
  /\ UNCHANGED <<mainVars, todo, pollVars, bridgeVars, inbox, view, told>>

\* Lines 181-182: the next shim, or the end of the turn.
NextShim ==
  /\ pc = "bridges" /\ todo = {}
  /\ IF cur < Len(shims) THEN pc' = "raknet" /\ cur' = cur + 1
                         ELSE pc' = "cmds" /\ UNCHANGED cur
  /\ UNCHANGED <<mainVars, todo, pollVars, bridgeVars, inbox, view, told>>

\* Mutant: a second shim for a server is thrown away.
RunCmd_OnePerServer ==
  /\ pc = "cmds" /\ cmds # <<>>
  /\ LET sh == Head(cmds)
     IN  IF sh.remote \in DOMAIN addrs THEN UNCHANGED <<addrs, shims>>
         ELSE /\ addrs' = [r \in DOMAIN addrs \cup {sh.remote} |->
                              IF r = sh.remote THEN sh.port ELSE addrs[r]]
              /\ shims' = Append(shims, sh)
  /\ cmds' = Tail(cmds)
  /\ UNCHANGED <<loopVars, bridgeVars, inbox, view, told>>

\* Lines 184-190.
RunCmd ==
  /\ pc = "cmds" /\ cmds # <<>>
  /\ LET sh == Head(cmds)
     IN  /\ addrs' = [r \in DOMAIN addrs \cup {sh.remote} |->
                        IF r = sh.remote THEN sh.port ELSE addrs[r]]
         /\ shims' = Append(shims, sh)
  /\ cmds' = Tail(cmds)
  /\ UNCHANGED <<loopVars, bridgeVars, inbox, view, told>>

\* Mutant: the loop starts again at the next shim instead of the first.
Sleep_KeepsPlace ==
  /\ pc = "cmds" /\ cmds = <<>>
  /\ pc' = "raknet" /\ cur' = Len(shims)
  /\ UNCHANGED <<mainVars, todo, pollVars, bridgeVars, inbox, view, told>>

\* Line 191, and the loop starts again.
Sleep ==
  /\ pc = "cmds" /\ cmds = <<>>
  /\ pc' = "raknet" /\ cur' = 1
  /\ UNCHANGED <<mainVars, todo, pollVars, bridgeVars, inbox, view, told>>

-----------------------------------------------------------------------------
Init ==
  /\ shims = <<Shim(AuthRemote, AuthPort)>>
  /\ addrs = [r \in {AuthRemote} |-> AuthPort]
  /\ cmds = <<>>
  /\ pc = "raknet" /\ cur = 1 /\ todo = {}
  /\ visited = NoClient /\ out = <<>> /\ fresh = <<>>
  /\ bridges = {} /\ closed = {}
  /\ inbox = [p \in Ports |-> <<>>]
  /\ view = [b \in Ports \X Clients |-> "none"]
  /\ told = {}

ClientStep ==
  \E p \in Ports, c \in Clients : ClientOpen(p, c) \/ ClientData(p, c) \/ ClientClose(p, c)

LoopStep ==
  \/ Receive \/ EndReceive \/ ResetReceive \/ ReceiveFailed
  \/ \E c \in Clients : PollFailed(c) \/ Poll(c)
  \/ \E r \in Remotes : ScanKnown(r) \/ \E p \in Ports : ScanNew(r, p)
  \/ ScanFailed \/ ScanPanicked \/ Forward \/ ForwardAborted
  \/ \E n \in 0..MaxBatch : ForwardFailed(n)
  \/ NextShim \/ RunCmd \/ Sleep

Next == ClientStep \/ LoopStep

Spec == Init /\ [][Next]_vars

(***************************************************************************)
(* Fairness: the loop never stops (its blocking call, the TLS handshake of *)
(* create_bridge, returns) and not every read of a socket reports a reset. *)
(* That the clients do not send faster than raknet_receive reads, so that  *)
(* its loop ends, is an assumption: nothing in the code bounds it.  A      *)
(* client without an answer asks again.                                    *)
(***************************************************************************)
FairSpec ==
  /\ Spec
  /\ []<>(pc # "raknet")
  /\ \A p \in Ports : SF_vars(Port = p /\ Receive)
  /\ WF_vars(\E c \in Clients : PollFailed(c) \/ Poll(c))
  /\ WF_vars(Forward) /\ WF_vars(ForwardAborted)
  /\ WF_vars(NextShim) /\ WF_vars(RunCmd) /\ WF_vars(Sleep)
  /\ \A p \in Ports, c \in Clients : WF_vars(view[<<p, c>>] = "asked" /\ ClientOpen(p, c))

-----------------------------------------------------------------------------
\* The variables hold what the Rust types allow.
TypeOK ==
  /\ shims \in Seq([remote : Remotes, port : Ports])
  /\ cmds \in Seq([remote : Remotes, port : Ports])
  /\ fresh \in Seq([remote : Remotes, port : Ports])
  /\ out \in Seq([remote : Remotes, port : Ports])
  /\ DOMAIN addrs \subseteq Remotes /\ \A r \in DOMAIN addrs : addrs[r] \in Ports
  /\ pc \in {"raknet", "bridges", "scan", "cmds", "exited"}
  /\ cur \in 1..Len(shims)
  /\ todo \subseteq Clients /\ visited \in Clients \cup {NoClient}
  /\ bridges \subseteq Ports \X Clients /\ closed \subseteq bridges
  /\ inbox \in [Ports -> Seq([from : Clients, kind : {"open", "data", "disconnect"}])]
  /\ view \in [Ports \X Clients -> {"none", "asked", "open"}]
  /\ told \subseteq Clients \X Remotes \X Ports

\* Every redirect that was sent to a client names a port at which a shim for
\* that very server listens: a bridge that fails in the middle of a poll takes
\* no shim with it that a client was told of (bridge.rs:71-73).
RedirectsLive ==
  \A t \in told : Shim(t[2], t[3]) \in Elems(shims) \cup Elems(cmds)

\* The lookup table of main names for each server a shim that is being stepped
\* and relays to that server, also when polls that made shims have failed.
AddrsSound == \A r \in DOMAIN addrs : Shim(r, addrs[r]) \in Elems(shims)

\* A client that takes its connection for open has a bridge that is not closed:
\* a bridge is never removed or closed behind its client's back.  It takes a
\* patient client: a request left over from an earlier connection can open a
\* bridge that the disconnect of that connection closes.
SessionsMatch ==
  \A p \in Ports, c \in Clients : view[<<p, c>>] = "open" => <<p, c>> \in bridges \ closed

\* A bridge whose client does not take the connection for open is closed, or the
\* client's disconnect is waiting to be read: a client that says goodbye leaves
\* no server connection behind, even if it asks again at once.
NoOrphan ==
  \A p \in Ports, c \in Clients :
    <<p, c>> \in bridges \ closed => view[<<p, c>>] = "open" \/ Waiting(p, c, "disconnect")

\* There is one shim per server: "starting one if it doesn't already exist"
\* (bridge.rs:89).
OneShimPerAddress ==
  \A i, j \in 1..Len(shims) : shims[i].remote = shims[j].remote => i = j

\* Every request at a port where a shim listens is answered in the end, by a
\* reply or by a refusal, also if the shim was made in this very turn and also if
\* a bridge of an earlier, closed connection swallows the first request.
Answered ==
  \A p \in Ports, c \in Clients :
    (view[<<p, c>>] = "asked") ~> (view[<<p, c>>] # "asked" \/ p \notin Bound)

\* A client's disconnect ends its bridge and with it the server connection, even
\* if the client asks again at once or the bridge has failed in between.
GoodbyeHeard ==
  \A p \in Ports, c \in Clients :
    Waiting(p, c, "disconnect") ~> (<<p, c>> \notin bridges)
=============================================================================
