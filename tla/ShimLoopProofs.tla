--------------------------- MODULE ShimLoopProofs ---------------------------
(***************************************************************************)
(* Proofs about ShimLoop, for any number of clients, servers and ports and *)
(* every bound.                                                            *)
(***************************************************************************)
EXTENDS ShimLoop, SequenceTheorems, TLAPS

-----------------------------------------------------------------------------
(* Elements of sequences *)

LEMMA ElemsAppend ==
  ASSUME NEW S, NEW s \in Seq(S), NEW x \in S
  PROVE  Elems(Append(s, x)) = Elems(s) \cup {x}
<1>1. /\ Append(s, x) \in Seq(S) /\ Len(Append(s, x)) = Len(s) + 1 /\ Len(s) \in Nat
      /\ \A i \in 1..Len(s) : Append(s, x)[i] = s[i]
      /\ Append(s, x)[Len(s) + 1] = x
  BY AppendProperties
<1>2. 1..Len(s) + 1 = 1..Len(s) \cup {Len(s) + 1}
  BY <1>1
<1> QED BY <1>1, <1>2 DEF Elems

LEMMA ElemsConcat ==
  ASSUME NEW S, NEW s \in Seq(S), NEW t \in Seq(S)
  PROVE  Elems(s \o t) = Elems(s) \cup Elems(t)
<1>1. /\ Len(s) \in Nat /\ Len(t) \in Nat /\ Len(s \o t) = Len(s) + Len(t)
      /\ \A i \in 1..Len(s) + Len(t) :
            (s \o t)[i] = IF i <= Len(s) THEN s[i] ELSE t[i - Len(s)]
  BY ConcatProperties
<1>2. ASSUME NEW x \in Elems(s \o t) PROVE x \in Elems(s) \cup Elems(t)
  BY <1>1 DEF Elems
<1>3. ASSUME NEW x \in Elems(s) PROVE x \in Elems(s \o t)
  BY <1>1 DEF Elems
<1>4. ASSUME NEW x \in Elems(t) PROVE x \in Elems(s \o t)
  <2>1. PICK i \in 1..Len(t) : x = t[i]
    BY DEF Elems
  <2>2. Len(s) + i \in 1..Len(s) + Len(t) /\ (s \o t)[Len(s) + i] = t[i]
    BY <1>1
  <2> QED BY <1>1, <2>1, <2>2 DEF Elems
<1> QED BY <1>2, <1>3, <1>4

LEMMA ElemsTail ==
  ASSUME NEW S, NEW s \in Seq(S), s # <<>>
  PROVE  Elems(s) = {Head(s)} \cup Elems(Tail(s))
<1>1. /\ Len(s) \in Nat \ {0} /\ Tail(s) \in Seq(S) /\ Len(Tail(s)) = Len(s) - 1
      /\ Head(s) = s[1] /\ \A i \in 1..Len(s) - 1 : Tail(s)[i] = s[i + 1]
  BY HeadTailProperties, EmptySeq
<1>2. ASSUME NEW x \in Elems(s) PROVE x \in {Head(s)} \cup Elems(Tail(s))
  <2>1. PICK i \in 1..Len(s) : x = s[i]
    BY DEF Elems
  <2>2. CASE i = 1
    BY <1>1, <2>1, <2>2
  <2>3. CASE i # 1
    <3>1. i - 1 \in 1..Len(s) - 1 /\ Tail(s)[i - 1] = s[i]
      BY <1>1, <2>3
    <3> QED BY <1>1, <2>1, <3>1 DEF Elems
  <2> QED BY <2>2, <2>3
<1>3. ASSUME NEW x \in Elems(Tail(s)) PROVE x \in Elems(s)
  BY <1>1 DEF Elems
<1>4. Head(s) \in Elems(s)
  BY <1>1 DEF Elems
<1> QED BY <1>2, <1>3, <1>4

LEMMA ElemsEmpty == Elems(<<>>) = {}
BY DEF Elems

-----------------------------------------------------------------------------
(* Types *)

ShimType == [remote : Remotes, port : Ports]
Datagram == [from : Clients, kind : {"open", "data", "disconnect"}]

\* A poll is always that of a bridge's client.
TypeInv == TypeOK /\ (pc = "scan" => visited \in Clients)

LEMMA PortType == TypeOK => Port \in Ports
<1> SUFFICES ASSUME TypeOK PROVE Port \in Ports
  OBVIOUS
<1>1. shims \in Seq(ShimType) /\ cur \in 1..Len(shims)
  BY DEF TypeOK, ShimType
<1>2. shims[cur] \in ShimType
  BY <1>1, ElementOfSeq
<1> QED BY <1>2 DEF Port, ShimType

LEMMA EmptyType == <<>> \in Seq([remote : Remotes, port : Ports])
BY EmptySeq

LEMMA DroppedType ==
  ASSUME TypeOK, NEW bs, Dropped(bs)
  PROVE  view' \in [Ports \X Clients -> {"none", "asked", "open"}]
BY DEF TypeOK, Dropped

\* A bridge that is not created leaves the client without a connection or as it was.
LEMMA NotCreatedView ==
  ASSUME TypeOK, NEW b, NotCreated(b)
  PROVE  /\ view' \in [Ports \X Clients -> {"none", "asked", "open"}]
         /\ \A e \in Ports \X Clients :
              view'[e] = view[e] \/ (e = b /\ view'[e] = "none")
<1>1. view \in [Ports \X Clients -> {"none", "asked", "open"}]
  BY DEF TypeOK
<1>2. \/ view' = [view EXCEPT ![b] = "none"]
      \/ view' = [view EXCEPT ![b] = IF view[b] = "asked" THEN "none" ELSE view[b]]
  <2>1. PICK goodbye \in BOOLEAN :
          view' = [view EXCEPT ![b] = IF goodbye \/ view[b] = "asked" THEN "none" ELSE view[b]]
    BY DEF NotCreated
  <2>2. CASE goodbye
    BY <2>1, <2>2
  <2>3. CASE ~goodbye
    BY <2>1, <2>3
  <2> QED BY <2>2, <2>3
<1> DEFINE B == Ports \X Clients
           V == {"none", "asked", "open"}
<1> HIDE DEF B, V
<1>3. \E y : y \in {"none", view[b]} /\ view' = [view EXCEPT ![b] = y]
  BY <1>2
<1>4. PICK y \in {"none", view[b]} : view' = [view EXCEPT ![b] = y]
  BY <1>3
<1>5. view \in [B -> V] /\ "none" \in V
  BY <1>1 DEF B, V
<1>6. view' = [e \in B |-> IF e = b THEN y ELSE view[e]]
  BY <1>4, <1>5
<1>7. \A e \in B : view'[e] = view[e] \/ (e = b /\ view'[e] = "none")
  <2> SUFFICES ASSUME NEW e \in B
               PROVE  view'[e] = view[e] \/ (e = b /\ view'[e] = "none")
    OBVIOUS
  <2>1. view'[e] = IF e = b THEN y ELSE view[e]
    BY <1>6
  <2>2. CASE e = b
    <3>1. view'[e] = y
      BY <2>1, <2>2
    <3>2. y = "none" \/ y = view[e]
      BY <1>4, <2>2
    <3> QED BY <3>1, <3>2, <2>2
  <2>3. CASE e # b
    BY <2>1, <2>3
  <2> QED BY <2>2, <2>3
<1>8. view' \in [B -> V]
  <2>1. \A e \in B : (IF e = b THEN y ELSE view[e]) \in V
    BY <1>5
  <2> QED BY <1>6, <2>1
<1> QED BY <1>7, <1>8 DEF B, V

\* What a datagram does to its socket.
LEMMA ArrivesType ==
  ASSUME TypeOK, NEW p \in Ports, NEW c \in Clients,
         NEW kind \in {"open", "data", "disconnect"}, Arrives(p, c, kind)
  PROVE  inbox' \in [Ports -> Seq(Datagram)]
<1>1. [from |-> c, kind |-> kind] \in Datagram /\ inbox \in [Ports -> Seq(Datagram)]
  BY DEF TypeOK, Datagram
<1>2. inbox[p] \in Seq(Datagram)
  BY <1>1
<1>3. Append(inbox[p], [from |-> c, kind |-> kind]) \in Seq(Datagram)
  BY <1>1, <1>2, AppendProperties
<1> QED BY <1>1, <1>3 DEF Arrives

LEMMA ReceivedType ==
  ASSUME TypeOK, NEW d, Received(d)
  PROVE  /\ Port \in Ports /\ d \in Datagram
         /\ inbox' \in [Ports -> Seq(Datagram)]
<1>1. Port \in Ports /\ inbox \in [Ports -> Seq(Datagram)]
  BY PortType DEF TypeOK, Datagram
<1>2. inbox[Port] \in Seq(Datagram) /\ inbox[Port] # <<>> /\ d = Head(inbox[Port])
  BY <1>1 DEF Received
<1>3. Head(inbox[Port]) \in Datagram /\ Tail(inbox[Port]) \in Seq(Datagram)
  BY <1>2, HeadTailProperties
<1> QED BY <1>1, <1>2, <1>3 DEF Received

LEMMA InitTypeInv == Init => TypeInv
<1> SUFFICES ASSUME Init PROVE TypeInv
  OBVIOUS
<1>1. Shim(AuthRemote, AuthPort) \in ShimType
  BY AuthAssumption DEF Shim, ShimType
<1>2. shims \in Seq(ShimType) /\ Len(shims) = 1
  BY <1>1 DEF Init
<1> QED BY <1>2, AuthAssumption DEF Init, TypeInv, TypeOK, ShimType

\* main unwinds.
LEMMA ExitType == TypeInv /\ Exit => TypeInv'
<1> SUFFICES ASSUME TypeInv, Exit PROVE TypeInv'
  OBVIOUS
<1>1. view' \in [Ports \X Clients -> {"none", "asked", "open"}]
  BY DroppedType DEF TypeInv, Exit
<1>2. inbox' \in [Ports -> Seq(Datagram)]
  BY DEF Exit
<1> QED BY <1>1, <1>2 DEF TypeInv, TypeOK, Exit, mainVars, pollVars, Datagram

LEMMA ClientStepType == TypeInv /\ ClientStep => TypeInv'
<1> SUFFICES ASSUME TypeInv, NEW p \in Ports, NEW c \in Clients,
                    ClientOpen(p, c) \/ ClientData(p, c) \/ ClientClose(p, c)
             PROVE  TypeInv'
  BY DEF ClientStep
<1>1. inbox' \in [Ports -> Seq(Datagram)]
  BY ArrivesType DEF TypeInv, ClientOpen, ClientData, ClientClose
<1>2. view' \in [Ports \X Clients -> {"none", "asked", "open"}]
  BY DEF TypeInv, TypeOK, ClientOpen, ClientData, ClientClose
<1>3. UNCHANGED <<mainVars, loopVars, bridgeVars, told>>
  BY DEF ClientOpen, ClientData, ClientClose
<1> QED BY <1>1, <1>2, <1>3
        DEF TypeInv, TypeOK, Datagram, mainVars, loopVars, pollVars, bridgeVars

LEMMA ReceiveType == TypeInv /\ Receive => TypeInv'
<1> SUFFICES ASSUME TypeInv, Receive PROVE TypeInv'
  OBVIOUS
<1> USE DEF TypeInv
<1>1. PICK d : \/ OpenAccepted(d) \/ OpenRefused(d) \/ OpenFailed(d)
               \/ Ignored(d) \/ Relayed(d) \/ RelayFailed(d)
  BY DEF Receive
<1>2. CASE OpenFailed(d)
  BY <1>2, ExitType DEF OpenFailed
<1>3. CASE ~OpenFailed(d)
  <2>1. Received(d)
    BY <1>1, <1>3 DEF OpenAccepted, OpenRefused, Ignored, Relayed, RelayFailed
  <2>2. /\ Port \in Ports /\ d \in Datagram /\ d.from \in Clients
        /\ inbox' \in [Ports -> Seq(Datagram)]
    <3>1. Port \in Ports /\ d \in Datagram /\ inbox' \in [Ports -> Seq(Datagram)]
      BY <2>1, ReceivedType
    <3> QED BY <3>1 DEF Datagram
  <2>3. view' \in [Ports \X Clients -> {"none", "asked", "open"}]
    <3>1. CASE RelayFailed(d)
      BY <3>1, DroppedType DEF RelayFailed, RemoveBridge
    <3>2. CASE OpenRefused(d)
      BY <3>2, NotCreatedView DEF OpenRefused
    <3>3. CASE ~RelayFailed(d) /\ ~OpenRefused(d)
      BY <1>1, <1>3, <2>2, <3>3 DEF TypeOK, OpenAccepted, Ignored, Relayed
    <3> QED BY <3>1, <3>2, <3>3
  <2>4. bridges' \subseteq Ports \X Clients /\ closed' \subseteq bridges'
    BY ZenonT(60), <1>1, <1>3, <2>2 DEF TypeOK, OpenAccepted, OpenRefused, Ignored, Relayed,
                            RelayFailed, RemoveBridge, bridgeVars
  <2>5. UNCHANGED <<mainVars, loopVars, told>>
    BY <1>1, <1>3 DEF OpenAccepted, OpenRefused, Ignored, Relayed, RelayFailed
  <2> QED BY <2>2, <2>3, <2>4, <2>5 DEF TypeOK, Datagram, mainVars, loopVars, pollVars
<1> QED BY <1>2, <1>3

\* The sockets of the shims that were just made are closed.
LEMMA DropFreshType ==
  ASSUME TypeOK, DropFresh
  PROVE  inbox' \in [Ports -> Seq(Datagram)] /\ fresh' = <<>>
<1>1. inbox \in [Ports -> Seq(Datagram)]
  BY DEF TypeOK, Datagram
<1>2. \A p \in Ports : inbox[p] \in Seq(Datagram) /\ <<>> \in Seq(Datagram)
  BY <1>1
<1> QED BY <1>2 DEF DropFresh

\* The redirects that are sent.
LEMMA RedirectsType ==
  ASSUME TypeInv, pc = "scan", NEW n \in Nat, n <= Len(out)
  PROVE  Redirects(n) \subseteq Clients \X Remotes \X Ports
<1>1. out \in Seq(ShimType) /\ visited \in Clients
  BY DEF TypeInv, TypeOK, ShimType
<1>2. \A i \in 1..n : out[i] \in ShimType
  BY <1>1, ElementOfSeq
<1> QED BY <1>1, <1>2 DEF Redirects, ShimType

\* Steps of a poll.
LEMMA PollType ==
  ASSUME TypeInv, NEW c \in Clients, PollFailed(c) \/ Poll(c)
  PROVE  TypeInv'
<1> USE DEF TypeInv
<1>1. CASE PollFailed(c)
  <2>1. view' \in [Ports \X Clients -> {"none", "asked", "open"}]
    BY <1>1, DroppedType DEF PollFailed, RemoveBridge
  <2> QED BY <1>1, <2>1 DEF TypeOK, PollFailed, RemoveBridge, mainVars, pollVars
<1>2. CASE Poll(c)
  <2>1. out' = <<>> /\ fresh' = <<>> /\ visited' \in Clients /\ pc' = "scan"
    BY <1>2 DEF Poll
  <2>2. todo' \subseteq Clients /\ UNCHANGED <<mainVars, cur, bridgeVars, inbox, view, told>>
    BY <1>2 DEF TypeOK, Poll
  <2> QED BY <2>1, <2>2, EmptyType DEF TypeOK, mainVars, bridgeVars
<1> QED BY <1>1, <1>2

LEMMA ScanType ==
  ASSUME TypeInv, NEW r \in Remotes, ScanKnown(r) \/ \E p \in Ports : ScanNew(r, p)
  PROVE  TypeInv'
<1> USE DEF TypeInv
<1>1. out \in Seq(ShimType) /\ fresh \in Seq(ShimType)
  BY DEF TypeOK, ShimType
<1>2. CASE ScanKnown(r)
  <2>1. Shim(r, addrs[r]) \in ShimType
    BY <1>2 DEF TypeOK, ScanKnown, Shim, ShimType
  <2>2. out' \in Seq(ShimType)
    BY <1>1, <1>2, <2>1, AppendProperties DEF ScanKnown
  <2> QED BY <1>2, <2>2 DEF TypeOK, ScanKnown, mainVars, bridgeVars, ShimType
<1>3. CASE \E p \in Ports : ScanNew(r, p)
  <2>1. PICK p \in Ports : ScanNew(r, p)
    BY <1>3
  <2>2. Shim(r, p) \in ShimType
    BY DEF Shim, ShimType
  <2>3. out' \in Seq(ShimType) /\ fresh' \in Seq(ShimType)
    BY <1>1, <2>1, <2>2, AppendProperties DEF ScanNew
  <2> QED BY <2>1, <2>3 DEF TypeOK, ScanNew, mainVars, bridgeVars, ShimType
<1> QED BY <1>2, <1>3

\* A poll ends, and the bridge with it.
LEMMA PollDropsType ==
  ASSUME TypeInv, pc = "scan", NEW n \in 0..Len(out),
         RemoveBridge(Port, visited), DropFresh, BackToRetain, UNCHANGED mainVars,
         told' \subseteq told \cup Redirects(n)
  PROVE  TypeInv'
<1> USE DEF TypeInv
<1>1. view' \in [Ports \X Clients -> {"none", "asked", "open"}]
  BY DroppedType DEF RemoveBridge
<1>2. inbox' \in [Ports -> Seq(Datagram)] /\ fresh' = <<>>
  BY DropFreshType
<1>3. told' \subseteq Clients \X Remotes \X Ports
  <2>1. n \in Nat /\ n <= Len(out)
    BY DEF TypeOK
  <2> QED BY <2>1, RedirectsType DEF TypeOK
<1>4. /\ bridges' \subseteq Ports \X Clients /\ closed' \subseteq bridges'
      /\ pc' = "bridges" /\ visited' = NoClient /\ out' = <<>> /\ UNCHANGED <<cur, todo>>
  BY DEF TypeOK, RemoveBridge, BackToRetain
<1> QED BY <1>1, <1>2, <1>3, <1>4, EmptyType DEF TypeOK, mainVars, Datagram

LEMMA PollEndsType ==
  ASSUME TypeInv,
         ScanFailed \/ Forward \/ ForwardAborted \/ \E n \in 0..MaxBatch : ForwardFailed(n)
  PROVE  TypeInv'
<1>1. Len(out) \in Nat /\ 0 \in 0..Len(out) /\ Len(out) \in 0..Len(out)
  BY DEF TypeInv, TypeOK
<1>2. CASE ScanFailed
  BY <1>1, <1>2, PollDropsType DEF ScanFailed
<1>3. CASE ForwardAborted
  BY <1>1, <1>3, PollDropsType DEF ForwardAborted
<1>4. CASE \E n \in 0..MaxBatch : ForwardFailed(n)
  <2>1. PICK n \in 0..MaxBatch : ForwardFailed(n)
    BY <1>4
  <2>2. n \in 0..Len(out)
    BY <1>1, <2>1, BoundAssumption DEF ForwardFailed
  <2> QED BY <2>1, <2>2, PollDropsType DEF ForwardFailed
<1>5. CASE Forward
  <2>1. cmds \in Seq(ShimType) /\ fresh \in Seq(ShimType)
    BY DEF TypeInv, TypeOK, ShimType
  <2>2. cmds' \in Seq(ShimType)
    BY <1>5, <2>1, ConcatProperties DEF Forward
  <2>3. told' \subseteq Clients \X Remotes \X Ports
    <3>1. Redirects(Len(out)) \subseteq Clients \X Remotes \X Ports
      BY <1>1, <1>5, RedirectsType DEF Forward
    <3> QED BY <1>5, <3>1 DEF TypeInv, TypeOK, Forward
  <2>4. /\ fresh' = <<>> /\ out' = <<>> /\ pc' = "bridges" /\ visited' = NoClient
        /\ UNCHANGED <<shims, addrs, cur, todo, bridges, closed, inbox, view>>
    BY <1>5 DEF Forward, BackToRetain, bridgeVars
  <2> QED BY <2>2, <2>3, <2>4, EmptyType DEF TypeInv, TypeOK, ShimType
<1> QED BY <1>2, <1>3, <1>4, <1>5

\* main's own steps.
LEMMA MainType ==
  ASSUME TypeInv, StartRetain \/ NextShim \/ RunCmd \/ Sleep
  PROVE  TypeInv'
<1> USE DEF TypeInv
<1>1. CASE StartRetain
  BY <1>1 DEF TypeOK, StartRetain, mainVars, pollVars, bridgeVars
<1>2. CASE NextShim
  <2>1. cur' \in 1..Len(shims) /\ pc' \in {"raknet", "cmds"}
    BY <1>2 DEF TypeOK, NextShim
  <2>2. UNCHANGED <<mainVars, todo, pollVars, bridgeVars, inbox, view, told>>
    BY <1>2 DEF NextShim
  <2> QED BY <2>1, <2>2 DEF TypeOK, mainVars, pollVars, bridgeVars
<1>3. CASE RunCmd
  <2>1. cmds \in Seq(ShimType) /\ shims \in Seq(ShimType) /\ cmds # <<>>
    BY <1>3 DEF TypeOK, RunCmd, ShimType
  <2>2. Head(cmds) \in ShimType /\ Tail(cmds) \in Seq(ShimType)
    BY <2>1, HeadTailProperties
  <2>3. shims' \in Seq(ShimType) /\ Len(shims') = Len(shims) + 1 /\ cmds' \in Seq(ShimType)
    BY <1>3, <2>1, <2>2, AppendProperties DEF RunCmd
  <2>4. cur' \in 1..Len(shims')
    BY <1>3, <2>1, <2>3 DEF TypeOK, RunCmd, loopVars
  <2>5. DOMAIN addrs' \subseteq Remotes /\ \A r \in DOMAIN addrs' : addrs'[r] \in Ports
    BY <1>3, <2>2 DEF TypeOK, RunCmd, ShimType
  <2> QED BY <1>3, <2>3, <2>4, <2>5
          DEF TypeOK, RunCmd, loopVars, pollVars, bridgeVars, ShimType
<1>4. CASE Sleep
  <2>1. cur' \in 1..Len(shims) /\ pc' = "raknet"
    BY <1>4 DEF TypeOK, Sleep
  <2>2. UNCHANGED <<mainVars, todo, pollVars, bridgeVars, inbox, view, told>>
    BY <1>4 DEF Sleep
  <2> QED BY <2>1, <2>2 DEF TypeOK, mainVars, pollVars, bridgeVars
<1> QED BY <1>1, <1>2, <1>3, <1>4

LEMMA TypeStep == TypeInv /\ [Next]_vars => TypeInv'
<1> SUFFICES ASSUME TypeInv, [Next]_vars PROVE TypeInv'
  OBVIOUS
<1>1. CASE ClientStep
  BY <1>1, ClientStepType
<1>2. CASE LoopStep
  <2>1. CASE Receive
    BY <2>1, ReceiveType
  <2>2. CASE EndReceive \/ ResetReceive \/ NextShim \/ RunCmd \/ Sleep
    BY <2>2, MainType DEF EndReceive, ResetReceive
  <2>3. CASE ReceiveFailed \/ ScanPanicked
    BY <2>3, ExitType DEF ReceiveFailed, ScanPanicked
  <2>4. CASE \E c \in Clients : PollFailed(c) \/ Poll(c)
    BY <2>4, PollType
  <2>5. CASE \E r \in Remotes : ScanKnown(r) \/ \E p \in Ports : ScanNew(r, p)
    BY <2>5, ScanType
  <2>6. CASE ScanFailed \/ Forward \/ ForwardAborted \/ \E n \in 0..MaxBatch : ForwardFailed(n)
    BY <2>6, PollEndsType
  <2> QED BY <1>2, <2>1, <2>2, <2>3, <2>4, <2>5, <2>6 DEF LoopStep
<1>3. CASE UNCHANGED vars
  BY <1>3 DEF TypeInv, TypeOK, vars, mainVars, loopVars, pollVars, bridgeVars
<1> QED BY <1>1, <1>2, <1>3 DEF Next

LEMMA TypeInvariant == Spec => []TypeInv
BY InitTypeInv, TypeStep, PTL DEF Spec

\* The variables of main, of the loop, of the bridges and of the clients hold
\* what the Rust types allow, and the loop never indexes past its shims.
THEOREM TypeCorrect == Spec => []TypeOK
<1>1. TypeInv => TypeOK
  BY DEF TypeInv
<1> QED BY <1>1, TypeInvariant, PTL

-----------------------------------------------------------------------------
(* The table of main and the redirects *)

\* Only commands change the list of shims and the table.
LEMMA OnlyCommands ==
  ASSUME [Next]_vars, ~RunCmd
  PROVE  UNCHANGED <<shims, addrs>>
BY DEF Next, ClientStep, LoopStep, vars, mainVars, ClientOpen, ClientData, ClientClose,
       Receive, OpenAccepted, OpenRefused, OpenFailed, Ignored, Relayed, RelayFailed, Exit,
       EndReceive, ResetReceive, StartRetain, ReceiveFailed, PollFailed, Poll, ScanKnown,
       ScanNew, ScanFailed, ScanPanicked, Forward, ForwardAborted, ForwardFailed, NextShim,
       Sleep

\* A command moves a shim from the list of commands to that of the shims.
LEMMA RunCmdMoves ==
  ASSUME TypeOK, RunCmd
  PROVE  /\ Head(cmds) \in ShimType
         /\ Elems(shims') = Elems(shims) \cup {Head(cmds)}
         /\ Elems(cmds) = {Head(cmds)} \cup Elems(cmds')
<1>1. cmds \in Seq(ShimType) /\ shims \in Seq(ShimType) /\ cmds # <<>>
  BY DEF TypeOK, RunCmd, ShimType
<1>2. Head(cmds) \in ShimType
  BY <1>1, HeadTailProperties
<1>3. Elems(cmds) = {Head(cmds)} \cup Elems(Tail(cmds))
  BY <1>1, ElemsTail
<1>4. Elems(Append(shims, Head(cmds))) = Elems(shims) \cup {Head(cmds)}
  BY <1>1, <1>2, ElemsAppend
<1> QED BY <1>2, <1>3, <1>4 DEF RunCmd

LEMMA AddrsStep == TypeInv /\ AddrsSound /\ [Next]_vars => AddrsSound'
<1> SUFFICES ASSUME TypeInv, AddrsSound, [Next]_vars PROVE AddrsSound'
  OBVIOUS
<1>1. CASE RunCmd
  <2>1. TypeOK
    BY DEF TypeInv
  <2>2. Head(cmds) \in ShimType /\ Elems(shims') = Elems(shims) \cup {Head(cmds)}
    BY <1>1, <2>1, RunCmdMoves
  <2>3. Head(cmds) = Shim(Head(cmds).remote, Head(cmds).port)
    BY <2>2 DEF ShimType, Shim
  <2>4. ASSUME NEW r \in DOMAIN addrs'
        PROVE  \/ r = Head(cmds).remote /\ addrs'[r] = Head(cmds).port
               \/ r \in DOMAIN addrs /\ addrs'[r] = addrs[r]
    BY <1>1 DEF RunCmd
  <2> QED BY <2>2, <2>3, <2>4 DEF AddrsSound
<1>2. CASE ~RunCmd
  <2>1. shims' = shims /\ addrs' = addrs
    BY <1>2, OnlyCommands
  <2> QED BY <2>1 DEF AddrsSound, Elems
<1> QED BY <1>1, <1>2

LEMMA AddrsInvariant == Spec => [](TypeInv /\ AddrsSound)
<1>1. Init => AddrsSound
  BY DEF Init, AddrsSound, Elems
<1> QED BY <1>1, AddrsStep, InitTypeInv, TypeStep, PTL DEF Spec

\* The lookup table of main is sound with and without faults, whatever the
\* clients do and however many shims are made in a turn: main.rs:184-190 adds to
\* the table and to the list alike, and nothing else touches either.
THEOREM TableIsSound == Spec => []AddrsSound
BY AddrsInvariant, PTL

\* The redirects that a poll is about to send name shims that exist.
OutLive == pc = "scan" => Elems(out) \subseteq Elems(shims) \cup Elems(cmds) \cup Elems(fresh)

LiveInv == RedirectsLive /\ OutLive

\* The shims that are kept stay; only a poll may lose those it made itself.
LEMMA ListedStay ==
  ASSUME TypeInv, [Next]_vars
  PROVE  Elems(shims) \cup Elems(cmds) \subseteq Elems(shims') \cup Elems(cmds')
<1>1. CASE RunCmd
  BY <1>1, RunCmdMoves DEF TypeInv
<1>2. CASE Forward
  <2>1. cmds \in Seq(ShimType) /\ fresh \in Seq(ShimType)
    BY DEF TypeInv, TypeOK, ShimType
  <2>2. Elems(cmds') = Elems(cmds) \cup Elems(fresh) /\ shims' = shims
    BY <1>2, <2>1, ElemsConcat DEF Forward
  <2> QED BY <2>2
<1>3. CASE ~RunCmd /\ ~Forward
  <2>1. shims' = shims
    BY <1>3, OnlyCommands
  <2>2. cmds' = cmds
    BY <1>3
       DEF Next, ClientStep, LoopStep, vars, mainVars, ClientOpen, ClientData, ClientClose,
       Receive, OpenAccepted, OpenRefused, OpenFailed, Ignored, Relayed, RelayFailed, Exit,
       EndReceive, ResetReceive, StartRetain, ReceiveFailed, PollFailed, Poll, ScanKnown,
       ScanNew, ScanFailed, ScanPanicked, ForwardAborted, ForwardFailed, NextShim, Sleep
  <2> QED BY <2>1, <2>2
<1> QED BY <1>1, <1>2, <1>3

\* Without faults, all that a poll has scanned is sent or nothing.
LEMMA ToldStep ==
  ASSUME [Next]_vars, ~Faults
  PROVE  \/ told' = told
         \/ Forward /\ pc = "scan" /\ told' = told \cup Redirects(Len(out))
BY DEF Next, ClientStep, LoopStep, vars, mainVars, ClientOpen, ClientData, ClientClose,
       Receive, OpenAccepted, OpenRefused, OpenFailed, Ignored, Relayed, RelayFailed, Exit,
       EndReceive, ResetReceive, StartRetain, ReceiveFailed, PollFailed, Poll, ScanKnown,
       ScanNew, ScanFailed, ScanPanicked, Forward, ForwardAborted, ForwardFailed, NextShim,
       RunCmd, Sleep

LEMMA RedirectsStep ==
  ASSUME TypeInv, LiveInv, ~Faults, [Next]_vars
  PROVE  RedirectsLive'
<1>1. Elems(shims) \cup Elems(cmds) \subseteq Elems(shims') \cup Elems(cmds')
  BY ListedStay
<1>2. CASE told' = told
  BY <1>1, <1>2 DEF LiveInv, RedirectsLive
<1>3. CASE Forward /\ pc = "scan" /\ told' = told \cup Redirects(Len(out))
  <2>1. out \in Seq(ShimType) /\ cmds \in Seq(ShimType) /\ fresh \in Seq(ShimType)
    BY DEF TypeInv, TypeOK, ShimType
  <2>2. Elems(cmds') = Elems(cmds) \cup Elems(fresh) /\ shims' = shims
    BY <1>3, <2>1, ElemsConcat DEF Forward
  <2>3. ASSUME NEW i \in 1..Len(out)
        PROVE  Shim(out[i].remote, out[i].port) \in Elems(shims') \cup Elems(cmds')
    <3>1. out[i] \in ShimType
      BY <2>1, ElementOfSeq
    <3>2. Shim(out[i].remote, out[i].port) = out[i]
      BY <3>1 DEF ShimType, Shim
    <3>3. out[i] \in Elems(out)
      BY DEF Elems
    <3> QED BY <1>3, <2>2, <3>2, <3>3 DEF LiveInv, OutLive
  <2>4. ASSUME NEW t \in Redirects(Len(out))
        PROVE  Shim(t[2], t[3]) \in Elems(shims') \cup Elems(cmds')
    BY <2>3 DEF Redirects
  <2> QED BY <1>1, <1>3, <2>4 DEF LiveInv, RedirectsLive
<1> QED BY <1>2, <1>3, ToldStep

LEMMA OutStep ==
  ASSUME TypeInv, AddrsSound, LiveInv, [Next]_vars
  PROVE  OutLive'
<1> SUFFICES ASSUME pc' = "scan"
             PROVE  Elems(out') \subseteq Elems(shims') \cup Elems(cmds') \cup Elems(fresh')
  BY DEF OutLive
<1>1. out \in Seq(ShimType) /\ fresh \in Seq(ShimType)
  BY DEF TypeInv, TypeOK, ShimType
<1>2. CASE \E c \in Clients : Poll(c)
  BY <1>2, ElemsEmpty DEF Poll
<1>3. CASE \E r \in Remotes : ScanKnown(r)
  <2>1. PICK r \in Remotes : ScanKnown(r)
    BY <1>3
  <2>2. Shim(r, addrs[r]) \in ShimType /\ Shim(r, addrs[r]) \in Elems(shims)
    BY <2>1 DEF TypeInv, TypeOK, ScanKnown, AddrsSound, Shim, ShimType
  <2>3. Elems(out') = Elems(out) \cup {Shim(r, addrs[r])}
    BY <1>1, <2>1, <2>2, ElemsAppend DEF ScanKnown
  <2> QED BY <2>1, <2>2, <2>3 DEF ScanKnown, LiveInv, OutLive, mainVars
<1>4. CASE \E r \in Remotes, p \in Ports : ScanNew(r, p)
  <2>1. PICK r \in Remotes, p \in Ports : ScanNew(r, p)
    BY <1>4
  <2>2. Shim(r, p) \in ShimType
    BY DEF Shim, ShimType
  <2>3. Elems(out') = Elems(out) \cup {Shim(r, p)}
    BY <1>1, <2>1, <2>2, ElemsAppend DEF ScanNew
  <2>4. Elems(fresh') = Elems(fresh) \cup {Shim(r, p)}
    BY <1>1, <2>1, <2>2, ElemsAppend DEF ScanNew
  <2> QED BY <2>1, <2>3, <2>4 DEF ScanNew, LiveInv, OutLive, mainVars
<1>5. CASE UNCHANGED <<pc, out, fresh, cmds, shims>>
  BY <1>5 DEF LiveInv, OutLive
<1>6. \/ \E c \in Clients : Poll(c)
      \/ \E r \in Remotes : ScanKnown(r)
      \/ \E r \in Remotes, p \in Ports : ScanNew(r, p)
      \/ UNCHANGED <<pc, out, fresh, cmds, shims>>
  BY DEF Next, ClientStep, LoopStep, vars, mainVars, loopVars, pollVars, ClientOpen,
       ClientData, ClientClose, Receive, OpenAccepted, OpenRefused, OpenFailed, Ignored,
       Relayed, RelayFailed, Exit, EndReceive, ResetReceive, StartRetain, ReceiveFailed,
       PollFailed, ScanFailed, ScanPanicked, Forward, ForwardAborted, ForwardFailed,
       BackToRetain, NextShim, RunCmd, Sleep
<1> QED BY <1>2, <1>3, <1>4, <1>5, <1>6

\* Without faults of the sockets every redirect that a client was told of names
\* a shim for that server which is listed or about to be: a poll that fails
\* takes its shims with it only when none of its packets was sent
\* (bridge.rs:71-73).  With faults this is refuted by the run shim_dead_port.
THEOREM RedirectsStayLive ==
  ASSUME ~Faults
  PROVE  Spec => []RedirectsLive
<1>1. Init => LiveInv
  BY DEF Init, LiveInv, RedirectsLive, OutLive
<1>2. TypeInv /\ AddrsSound /\ LiveInv /\ [Next]_vars => LiveInv'
  BY RedirectsStep, OutStep DEF LiveInv
<1>3. LiveInv => RedirectsLive
  BY DEF LiveInv
<1> QED BY <1>1, <1>2, <1>3, AddrsInvariant, PTL DEF Spec

-----------------------------------------------------------------------------
(* The datagrams of one client at one socket *)

Request(c) == [from |-> c, kind |-> "open"]
Goodbye(c) == [from |-> c, kind |-> "disconnect"]
Has(q, x)  == \E i \in 1..Len(q) : q[i] = x

\* What a queue q may hold of a client with the view v of its connection: one
\* request at most, while it waits for an answer, behind all its goodbyes; and
\* no goodbye while it takes the connection for open.
QueueOK(q, v, c) ==
  /\ Has(q, Request(c)) => v = "asked"
  /\ Has(q, Goodbye(c)) => v # "open"
  /\ \A i, j \in 1..Len(q) : q[i] = Request(c) /\ q[j] = Request(c) => i = j
  /\ \A i, j \in 1..Len(q) : q[i] = Request(c) /\ q[j] = Goodbye(c) => j < i

LEMMA QueueEmpty == \A v, c : QueueOK(<<>>, v, c)
BY DEF QueueOK, Has

\* A connection that is lost without a word, or asked for again.
LEMMA QueueView ==
  ASSUME NEW q, NEW v, NEW c, QueueOK(q, v, c)
  PROVE  /\ QueueOK(q, "asked", c)
         /\ v = "open" => QueueOK(q, "none", c)
BY DEF QueueOK

LEMMA HasAppend ==
  ASSUME NEW q \in Seq(Datagram), NEW x \in Datagram, NEW y
  PROVE  Has(Append(q, x), y) <=> Has(q, y) \/ x = y
<1>1. /\ Len(Append(q, x)) = Len(q) + 1 /\ Len(q) \in Nat
      /\ \A i \in 1..Len(q) : Append(q, x)[i] = q[i]
      /\ Append(q, x)[Len(q) + 1] = x
  BY AppendProperties
<1> QED BY <1>1 DEF Has

LEMMA HasTail ==
  ASSUME NEW q \in Seq(Datagram), q # <<>>, NEW y
  PROVE  Has(q, y) <=> Has(Tail(q), y) \/ Head(q) = y
<1>1. /\ Len(q) \in Nat \ {0} /\ Len(Tail(q)) = Len(q) - 1 /\ Head(q) = q[1]
      /\ \A i \in 1..Len(q) - 1 : Tail(q)[i] = q[i + 1]
  BY HeadTailProperties, EmptySeq
<1>2. ASSUME NEW i \in 1..Len(q), q[i] = y PROVE Has(Tail(q), y) \/ Head(q) = y
  <2>1. CASE i = 1
    BY <1>1, <1>2, <2>1
  <2>2. CASE i # 1
    <3>1. i - 1 \in 1..Len(Tail(q)) /\ Tail(q)[i - 1] = q[i]
      BY <1>1, <2>2
    <3> QED BY <1>2, <3>1 DEF Has
  <2> QED BY <2>1, <2>2
<1>3. ASSUME NEW i \in 1..Len(Tail(q)), Tail(q)[i] = y PROVE Has(q, y)
  <2>1. i + 1 \in 1..Len(q) /\ q[i + 1] = y
    BY <1>1, <1>3
  <2> QED BY <2>1 DEF Has
<1>4. ASSUME Head(q) = y PROVE Has(q, y)
  <2>1. 1 \in 1..Len(q) /\ q[1] = y
    BY <1>1, <1>4
  <2> QED BY <2>1 DEF Has
<1> QED BY <1>2, <1>3, <1>4 DEF Has

\* The head of the queue is taken.  Behind a request there is nothing left of
\* that client but data.
LEMMA QueueTail ==
  ASSUME NEW q \in Seq(Datagram), q # <<>>, NEW v, NEW c, QueueOK(q, v, c)
  PROVE  /\ QueueOK(Tail(q), v, c)
         /\ Head(q) = Request(c) => \A w : QueueOK(Tail(q), w, c)
<1>1. /\ Len(q) \in Nat \ {0} /\ Len(Tail(q)) = Len(q) - 1 /\ Head(q) = q[1]
      /\ \A i \in 1..Len(q) - 1 : Tail(q)[i] = q[i + 1]
  BY HeadTailProperties, EmptySeq
<1>2. \A y : Has(Tail(q), y) => Has(q, y)
  BY HasTail
<1>3. /\ \A i, j \in 1..Len(Tail(q)) :
            Tail(q)[i] = Request(c) /\ Tail(q)[j] = Request(c) => i = j
      /\ \A i, j \in 1..Len(Tail(q)) :
            Tail(q)[i] = Request(c) /\ Tail(q)[j] = Goodbye(c) => j < i
  BY <1>1 DEF QueueOK
<1>4. QueueOK(Tail(q), v, c)
  BY <1>2, <1>3 DEF QueueOK
<1>5. ASSUME Head(q) = Request(c) PROVE ~Has(Tail(q), Request(c)) /\ ~Has(Tail(q), Goodbye(c))
  BY <1>1, <1>5 DEF QueueOK, Has
<1> QED BY <1>3, <1>4, <1>5 DEF QueueOK

\* A datagram joins the queue.
LEMMA QueueAppend ==
  ASSUME NEW q \in Seq(Datagram), NEW x \in Datagram, NEW v, NEW c, QueueOK(q, v, c)
  PROVE  /\ x \notin {Request(c), Goodbye(c)} => QueueOK(Append(q, x), v, c)
         /\ x = Request(c) /\ ~Has(q, x) => QueueOK(Append(q, x), "asked", c)
         /\ x = Goodbye(c) /\ v = "open" => QueueOK(Append(q, x), "none", c)
<1>1. /\ Len(Append(q, x)) = Len(q) + 1 /\ Len(q) \in Nat
      /\ \A i \in 1..Len(q) : Append(q, x)[i] = q[i]
      /\ Append(q, x)[Len(q) + 1] = x
  BY AppendProperties
<1>2. \A y : Has(Append(q, x), y) <=> Has(q, y) \/ x = y
  BY HasAppend
<1>3. Request(c) # Goodbye(c)
  BY DEF Request, Goodbye
<1>4. CASE x \notin {Request(c), Goodbye(c)}
  BY <1>1, <1>2, <1>3, <1>4 DEF QueueOK
<1>5. CASE x = Request(c) /\ ~Has(q, x)
  BY <1>1, <1>2, <1>3, <1>5 DEF QueueOK, Has
<1>6. CASE x = Goodbye(c) /\ v = "open"
  BY <1>1, <1>2, <1>3, <1>6 DEF QueueOK, Has
<1> QED BY <1>3, <1>4, <1>5, <1>6

-----------------------------------------------------------------------------
(* Sockets and sessions *)

ShimPorts  == {sh.port : sh \in Elems(shims)}
FreshPorts == {sh.port : sh \in Elems(fresh)}

Queues == \A p \in Ports, c \in Clients : QueueOK(inbox[p], view[<<p, c>>], c)

\* A bridge's socket is open and is that of a listed shim; a shim that was just
\* made has a socket of its own.
Sockets ==
  /\ \A b \in bridges : b[1] \in ShimPorts
  /\ pc = "exited" => bridges = {}
  /\ ShimPorts \cap FreshPorts = {}
  /\ pc \notin {"scan", "exited"} => fresh = <<>>

SessionInv == Queues /\ Sockets /\ NoOrphan

LEMMA WaitingHas ==
  /\ \A p, c : Waiting(p, c, "open") <=> Has(inbox[p], Request(c))
  /\ \A p, c : Waiting(p, c, "disconnect") <=> Has(inbox[p], Goodbye(c))
BY DEF Waiting, Has, Request, Goodbye

LEMMA InboxType ==
  ASSUME TypeInv, NEW p \in Ports
  PROVE  inbox[p] \in Seq(Datagram)
BY DEF TypeInv, TypeOK, Datagram

\* A view that only changes from open to none leaves the queues in order.
LEMMA QueuesView ==
  ASSUME Queues, NEW p \in Ports, NEW c \in Clients,
         \/ view'[<<p, c>>] = view[<<p, c>>]
         \/ view[<<p, c>>] = "open" /\ view'[<<p, c>>] = "none"
  PROVE  QueueOK(inbox[p], view'[<<p, c>>], c)
BY QueueView DEF Queues

LEMMA DroppedView ==
  ASSUME NEW bs, Dropped(bs), NEW p \in Ports, NEW c \in Clients
  PROVE  \/ view'[<<p, c>>] = view[<<p, c>>]
         \/ view[<<p, c>>] = "open" /\ view'[<<p, c>>] = "none"
BY DEF Dropped

LEMMA ClientQueues ==
  ASSUME TypeInv, Queues, Patient, ClientStep
  PROVE  Queues'
<1> SUFFICES ASSUME NEW p \in Ports, NEW c \in Clients
             PROVE  QueueOK(inbox'[p], view'[<<p, c>>], c)
  BY DEF Queues
<1>1. PICK r \in Ports, e \in Clients : ClientOpen(r, e) \/ ClientData(r, e) \/ ClientClose(r, e)
  BY DEF ClientStep
<1>2. /\ inbox \in [Ports -> Seq(Datagram)]
      /\ view \in [Ports \X Clients -> {"none", "asked", "open"}]
      /\ inbox[p] \in Seq(Datagram) /\ QueueOK(inbox[p], view[<<p, c>>], c)
  BY DEF TypeInv, TypeOK, Datagram, Queues
<1>3. CASE ClientOpen(r, e)
  <2>1. inbox'[p] = inbox[p] \/ (p = r /\ inbox'[p] = Append(inbox[p], Request(e)))
    BY <1>2, <1>3 DEF ClientOpen, Arrives, Request
  <2>2. view'[<<p, c>>] = IF p = r /\ c = e THEN "asked" ELSE view[<<p, c>>]
    BY <1>2, <1>3 DEF ClientOpen
  <2>3. Request(e) \in Datagram /\ (c # e => Request(e) \notin {Request(c), Goodbye(c)})
    BY DEF Request, Goodbye, Datagram
  <2>4. ~Has(inbox[r], Request(e))
    BY <1>3, WaitingHas DEF ClientOpen
  <2>5. CASE inbox'[p] = inbox[p]
    BY <1>2, <2>2, <2>5, QueueView
  <2>6. CASE p = r /\ inbox'[p] = Append(inbox[p], Request(e))
    BY <1>2, <2>2, <2>3, <2>4, <2>6, QueueAppend
  <2> QED BY <2>1, <2>5, <2>6
<1>4. CASE ClientData(r, e)
  <2> DEFINE x == [from |-> e, kind |-> "data"]
  <2>1. inbox'[p] = inbox[p] \/ inbox'[p] = Append(inbox[p], x)
    BY <1>2, <1>4 DEF ClientData, Arrives
  <2>2. view' = view /\ x \in Datagram /\ x \notin {Request(c), Goodbye(c)}
    BY <1>4 DEF ClientData, Datagram, Request, Goodbye
  <2> HIDE DEF x
  <2>3. QueueOK(Append(inbox[p], x), view[<<p, c>>], c)
    BY <1>2, <2>2, QueueAppend
  <2> QED BY <1>2, <2>1, <2>2, <2>3
<1>5. CASE ClientClose(r, e)
  <2>1. inbox'[p] = inbox[p] \/ (p = r /\ inbox'[p] = Append(inbox[p], Goodbye(e)))
    BY <1>2, <1>5 DEF ClientClose, Arrives, Goodbye
  <2>2. /\ view'[<<p, c>>] = IF p = r /\ c = e THEN "none" ELSE view[<<p, c>>]
        /\ p = r /\ c = e => view[<<p, c>>] = "open"
    BY <1>2, <1>5 DEF ClientClose
  <2>3. Goodbye(e) \in Datagram /\ (c # e => Goodbye(e) \notin {Request(c), Goodbye(c)})
    BY DEF Request, Goodbye, Datagram
  <2>4. CASE inbox'[p] = inbox[p]
    BY <1>2, <2>2, <2>4, QueueView
  <2>5. CASE p = r /\ inbox'[p] = Append(inbox[p], Goodbye(e))
    BY <1>2, <2>2, <2>3, <2>5, QueueAppend
  <2> QED BY <2>1, <2>4, <2>5
<1> QED BY <1>1, <1>3, <1>4, <1>5

\* A datagram is read: only the answer to a request changes the client's view.
LEMMA ReceivedQueues ==
  ASSUME TypeInv, Queues, NEW d,
         OpenAccepted(d) \/ OpenRefused(d) \/ Ignored(d) \/ Relayed(d) \/ RelayFailed(d)
  PROVE  Queues'
<1> SUFFICES ASSUME NEW p \in Ports, NEW c \in Clients
             PROVE  QueueOK(inbox'[p], view'[<<p, c>>], c)
  BY DEF Queues
<1>1. Received(d)
  BY DEF OpenAccepted, OpenRefused, Ignored, Relayed, RelayFailed
<1>2. /\ inbox \in [Ports -> Seq(Datagram)]
      /\ view \in [Ports \X Clients -> {"none", "asked", "open"}]
      /\ inbox[p] \in Seq(Datagram) /\ QueueOK(inbox[p], view[<<p, c>>], c)
  BY DEF TypeInv, TypeOK, Datagram, Queues
<1>3. Port \in Ports /\ d \in Datagram
  BY <1>1, ReceivedType DEF TypeInv
<1>4. \/ p # Port /\ inbox'[p] = inbox[p]
      \/ p = Port /\ inbox[p] # <<>> /\ d = Head(inbox[p]) /\ inbox'[p] = Tail(inbox[p])
  BY <1>1, <1>2, <1>3 DEF Received
<1>5. \/ view'[<<p, c>>] = view[<<p, c>>]
      \/ view[<<p, c>>] = "open" /\ view'[<<p, c>>] = "none"
      \/ p = Port /\ d = Request(c)
  <2>1. CASE RelayFailed(d)
    BY <2>1, DroppedView DEF RelayFailed, RemoveBridge
  <2>2. CASE Ignored(d) \/ Relayed(d)
    BY <2>2 DEF Ignored, Relayed
  <2>3. CASE OpenAccepted(d) \/ OpenRefused(d)
    <3>1. d = Request(d.from)
      BY <1>3, <2>3 DEF OpenAccepted, OpenRefused, Datagram, Request
    <3>2. <<p, c>> = <<Port, d.from>> \/ view'[<<p, c>>] = view[<<p, c>>]
      <4>1. CASE OpenRefused(d)
        BY <4>1, NotCreatedView DEF OpenRefused, TypeInv
      <4> QED BY <1>2, <2>3, <4>1 DEF OpenAccepted
    <3> QED BY <3>1, <3>2
  <2> QED BY <2>1, <2>2, <2>3
<1>6. QueueOK(inbox[p], view'[<<p, c>>], c) \/ (p = Port /\ d = Request(c))
  BY <1>5, QueuesView
<1>7. CASE p # Port /\ inbox'[p] = inbox[p]
  BY <1>6, <1>7
<1>8. CASE p = Port /\ inbox[p] # <<>> /\ d = Head(inbox[p]) /\ inbox'[p] = Tail(inbox[p])
  BY <1>2, <1>6, <1>8, QueueTail
<1> QED BY <1>4, <1>7, <1>8

\* Everything else empties sockets, if anything, and drops connections.
LEMMA OtherQueues ==
  ASSUME Queues,
         \A p \in Ports : inbox'[p] = inbox[p] \/ inbox'[p] = <<>>,
         view' = view \/ \E bs : Dropped(bs)
  PROVE  Queues'
<1> SUFFICES ASSUME NEW p \in Ports, NEW c \in Clients
             PROVE  QueueOK(inbox'[p], view'[<<p, c>>], c)
  BY DEF Queues
<1>1. \/ view'[<<p, c>>] = view[<<p, c>>]
      \/ view[<<p, c>>] = "open" /\ view'[<<p, c>>] = "none"
  BY DroppedView
<1>2. QueueOK(inbox[p], view'[<<p, c>>], c)
  BY <1>1, QueuesView
<1> QED BY <1>2, QueueEmpty

LEMMA QuietStep ==
  ASSUME TypeInv, [Next]_vars, ~ClientStep, ~Receive
  PROVE  /\ \A p \in Ports : inbox'[p] = inbox[p] \/ inbox'[p] = <<>>
         /\ view' = view \/ \E bs : Dropped(bs)
<1>1. CASE ReceiveFailed \/ ScanPanicked
  BY <1>1 DEF ReceiveFailed, ScanPanicked, Exit
<1>2. CASE ScanFailed \/ ForwardAborted \/ \E n \in 0..MaxBatch : ForwardFailed(n)
  BY <1>2 DEF ScanFailed, ForwardAborted, ForwardFailed, RemoveBridge, DropFresh
<1>3. CASE \E c \in Clients : PollFailed(c)
  BY <1>3 DEF PollFailed, RemoveBridge
<1>4. CASE ~ReceiveFailed /\ ~ScanPanicked /\ ~ScanFailed /\ ~ForwardAborted
           /\ (~\E n \in 0..MaxBatch : ForwardFailed(n)) /\ (~\E c \in Clients : PollFailed(c))
  <2>1. inbox' = inbox /\ view' = view
    BY <1>4 DEF Next, LoopStep, vars, EndReceive, ResetReceive, StartRetain, Poll,
                ScanKnown, ScanNew, Forward, NextShim, RunCmd, Sleep
  <2> QED BY <2>1
<1> QED BY <1>1, <1>2, <1>3, <1>4

LEMMA QueuesStep ==
  ASSUME TypeInv, Queues, Patient, [Next]_vars
  PROVE  Queues'
<1>1. CASE ClientStep
  BY <1>1, ClientQueues
<1>2. CASE Receive
  <2>1. PICK d : \/ OpenAccepted(d) \/ OpenRefused(d) \/ OpenFailed(d)
                 \/ Ignored(d) \/ Relayed(d) \/ RelayFailed(d)
    BY <1>2 DEF Receive
  <2>2. CASE OpenFailed(d)
    <3>1. Dropped(bridges) /\ inbox' = [p \in Ports |-> <<>>]
      BY <2>2 DEF OpenFailed, Exit
    <3>2. \A p \in Ports : inbox'[p] = <<>>
      BY <3>1
    <3> QED BY <3>1, <3>2, OtherQueues
  <2> QED BY <2>1, <2>2, ReceivedQueues
<1>3. CASE ~ClientStep /\ ~Receive
  BY <1>3, QuietStep, OtherQueues
<1> QED BY <1>1, <1>2, <1>3

\* Where bridges come from: a request at the socket of a listed shim.
LEMMA BridgesStep ==
  ASSUME TypeInv, [Next]_vars
  PROVE  \/ bridges' \subseteq bridges
         \/ pc = "raknet" /\ pc' = "raknet" /\ \E c : bridges' = bridges \cup {<<Port, c>>}
BY DEF Next, ClientStep, LoopStep, vars, mainVars, loopVars, bridgeVars, ClientOpen,
       ClientData, ClientClose, Receive, OpenAccepted, OpenRefused, OpenFailed, Ignored,
       Relayed, RelayFailed, RemoveBridge, Exit, EndReceive, ResetReceive, StartRetain,
       ReceiveFailed, PollFailed, Poll, ScanKnown, ScanNew, ScanFailed, ScanPanicked,
       Forward, ForwardAborted, ForwardFailed, BackToRetain, NextShim, RunCmd, Sleep

\* Where main stands when the list of shims or that of the new ones changes.
LEMMA FreshStep ==
  ASSUME [Next]_vars
  PROVE  \/ RunCmd /\ pc = "cmds" /\ fresh' = fresh /\ pc' = pc
         \/ \E r \in Remotes, p \in Ports : ScanNew(r, p)
         \/ shims' = shims /\ fresh' = <<>>
         \/ shims' = shims /\ fresh' = fresh /\ (pc' = pc \/ pc \notin {"scan", "exited"})
         \/ shims' = shims /\ fresh' = fresh /\ pc' = "exited"
BY DEF Next, ClientStep, LoopStep, vars, mainVars, loopVars, pollVars, ClientOpen,
       ClientData, ClientClose, Receive, OpenAccepted, OpenRefused, OpenFailed, Ignored,
       Relayed, RelayFailed, Exit, EndReceive, ResetReceive, StartRetain, ReceiveFailed,
       PollFailed, Poll, ScanKnown, ScanFailed, ScanPanicked, Forward, ForwardAborted,
       ForwardFailed, DropFresh, BackToRetain, NextShim, RunCmd, Sleep

LEMMA ExitedStays ==
  ASSUME [Next]_vars, TypeInv
  PROVE  /\ pc = "exited" => pc' = "exited" /\ bridges' = bridges
         /\ pc' = "exited" => pc = "exited" \/ bridges' = {}
BY DEF Next, ClientStep, LoopStep, vars, mainVars, loopVars, bridgeVars, ClientOpen,
       ClientData, ClientClose, Receive, Received, OpenAccepted, OpenRefused, OpenFailed,
       Ignored, Relayed, RelayFailed, Exit, EndReceive, ResetReceive, StartRetain,
       ReceiveFailed, PollFailed, Poll, ScanKnown, ScanNew, ScanFailed, ScanPanicked,
       Forward, ForwardAborted, ForwardFailed, BackToRetain, NextShim, RunCmd, Sleep

LEMMA SocketsStep ==
  ASSUME TypeInv, Sockets, [Next]_vars
  PROVE  Sockets'
<1>1. ShimPorts \subseteq ShimPorts'
  <2>1. CASE RunCmd
    BY <2>1, RunCmdMoves DEF TypeInv, ShimPorts
  <2>2. CASE ~RunCmd
    BY <2>2, OnlyCommands DEF ShimPorts
  <2> QED BY <2>1, <2>2
<1>2. Port \in ShimPorts
  <2>1. cur \in 1..Len(shims)
    BY DEF TypeInv, TypeOK
  <2> QED BY <2>1 DEF Port, ShimPorts, Elems
<1>3. \A b \in bridges' : b[1] \in ShimPorts'
  BY <1>1, <1>2, BridgesStep DEF Sockets
<1>4. pc' = "exited" => bridges' = {}
  BY ExitedStays DEF Sockets
<1>5. /\ ShimPorts' \cap FreshPorts' = {}
      /\ pc' \notin {"scan", "exited"} => fresh' = <<>>
  <2>1. CASE RunCmd /\ pc = "cmds" /\ fresh' = fresh /\ pc' = pc
    BY <2>1, ElemsEmpty DEF Sockets, FreshPorts
  <2>2. CASE \E r \in Remotes, p \in Ports : ScanNew(r, p)
    <3>1. PICK r \in Remotes, p \in Ports : ScanNew(r, p)
      BY <2>2
    <3>2. fresh \in Seq(ShimType) /\ Shim(r, p) \in ShimType
      BY DEF TypeInv, TypeOK, ShimType, Shim
    <3>3. Elems(fresh') = Elems(fresh) \cup {Shim(r, p)}
      BY <3>1, <3>2, ElemsAppend DEF ScanNew
    <3>4. p \notin ShimPorts /\ shims' = shims /\ pc' = "scan"
      BY <3>1 DEF ScanNew, Bound, ShimPorts, mainVars
    <3>5. FreshPorts' = FreshPorts \cup {p}
      <4>1. Shim(r, p).port = p
        BY DEF Shim
      <4> QED BY <3>3, <4>1 DEF FreshPorts
    <3> QED BY <3>4, <3>5 DEF Sockets, ShimPorts
  <2>3. CASE shims' = shims /\ fresh' = <<>>
    BY <2>3, ElemsEmpty DEF FreshPorts
  <2>4. CASE shims' = shims /\ fresh' = fresh /\ (pc' = pc \/ pc \notin {"scan", "exited"})
    BY <2>4 DEF Sockets, ShimPorts, FreshPorts
  <2>5. CASE shims' = shims /\ fresh' = fresh /\ pc' = "exited"
    BY <2>5 DEF Sockets, ShimPorts, FreshPorts
  <2> QED BY <2>1, <2>2, <2>3, <2>4, <2>5, FreshStep
<1> QED BY <1>3, <1>4, <1>5 DEF Sockets

\* Goodbyes are read, or lost with sockets that have no bridges.
LEMMA NoOrphanStep ==
  ASSUME TypeInv, SessionInv, Patient, [Next]_vars
  PROVE  NoOrphan'
<1> SUFFICES ASSUME NEW p \in Ports, NEW c \in Clients, <<p, c>> \in bridges' \ closed'
             PROVE  view'[<<p, c>>] = "open" \/ Has(inbox'[p], Goodbye(c))
  BY WaitingHas DEF NoOrphan, Waiting, Has, Goodbye
<1> USE DEF SessionInv
<1>1. /\ inbox \in [Ports -> Seq(Datagram)] /\ inbox[p] \in Seq(Datagram)
      /\ view \in [Ports \X Clients -> {"none", "asked", "open"}]
      /\ closed \subseteq bridges
  BY DEF TypeInv, TypeOK, Datagram
<1>2. <<p, c>> \in bridges \ closed => view[<<p, c>>] = "open" \/ Has(inbox[p], Goodbye(c))
  BY WaitingHas DEF NoOrphan
<1>3. CASE ClientStep
  <2>1. PICK r \in Ports, e \in Clients :
             ClientOpen(r, e) \/ ClientData(r, e) \/ ClientClose(r, e)
    BY <1>3 DEF ClientStep
  <2>2. bridges' = bridges /\ closed' = closed
    BY <2>1 DEF ClientOpen, ClientData, ClientClose, bridgeVars
  <2>3. view[<<p, c>>] = "open" \/ Has(inbox[p], Goodbye(c))
    BY <1>2, <2>2
  <2>4. Has(inbox[p], Goodbye(c)) => Has(inbox'[p], Goodbye(c))
    <3>1. \E x \in Datagram : inbox' = inbox \/ inbox' = [inbox EXCEPT ![r] = Append(@, x)]
      BY <2>1 DEF ClientOpen, ClientData, ClientClose, Arrives, Datagram
    <3>2. PICK x \in Datagram : inbox'[p] = inbox[p] \/ inbox'[p] = Append(inbox[p], x)
      BY <1>1, <3>1
    <3>3. Has(inbox[p], Goodbye(c)) => Has(Append(inbox[p], x), Goodbye(c))
      BY <1>1, HasAppend
    <3> QED BY <3>2, <3>3
  <2>5. CASE view'[<<p, c>>] = view[<<p, c>>]
    BY <2>3, <2>4, <2>5
  <2>6. CASE view'[<<p, c>>] # view[<<p, c>>]
    <3>1. p = r /\ c = e /\ (ClientOpen(p, c) \/ ClientClose(p, c))
      BY <1>1, <2>1, <2>6 DEF ClientOpen, ClientData, ClientClose
    <3>2. CASE ClientOpen(p, c)
      BY <2>3, <2>4, <3>2 DEF ClientOpen
    <3>3. CASE ClientClose(p, c)
      <4>1. p \in Bound
        <5>1. p \in ShimPorts /\ pc # "exited"
          BY <2>2 DEF Sockets
        <5> QED BY <5>1 DEF ShimPorts, Bound
      <4>2. inbox'[p] = Append(inbox[p], Goodbye(c)) /\ Goodbye(c) \in Datagram
        BY <1>1, <3>3, <4>1 DEF ClientClose, Arrives, Goodbye, Datagram
      <4> QED BY <1>1, <4>2, HasAppend
    <3> QED BY <3>1, <3>2, <3>3
  <2> QED BY <2>5, <2>6
<1>4. CASE Receive
  <2>1. PICK d : \/ OpenAccepted(d) \/ OpenRefused(d) \/ OpenFailed(d)
                 \/ Ignored(d) \/ Relayed(d) \/ RelayFailed(d)
    BY <1>4 DEF Receive
  <2>2. ~OpenFailed(d)
    BY DEF OpenFailed, Exit
  <2>3. Received(d)
    BY <2>1, <2>2 DEF OpenAccepted, OpenRefused, Ignored, Relayed, RelayFailed
  <2>4. Port \in Ports /\ d \in Datagram /\ d.from \in Clients
    <3>1. Port \in Ports /\ d \in Datagram
      BY <2>3, ReceivedType DEF TypeInv
    <3> QED BY <3>1 DEF Datagram
  <2>5. \/ p # Port /\ inbox'[p] = inbox[p]
        \/ p = Port /\ inbox[p] # <<>> /\ d = Head(inbox[p]) /\ inbox'[p] = Tail(inbox[p])
    BY <1>1, <2>3, <2>4 DEF Received
  <2>6. Has(inbox[p], Goodbye(c)) => Has(inbox'[p], Goodbye(c)) \/ (p = Port /\ d = Goodbye(c))
    <3>1. CASE p # Port /\ inbox'[p] = inbox[p]
      BY <3>1
    <3>2. CASE p = Port /\ inbox[p] # <<>> /\ d = Head(inbox[p]) /\ inbox'[p] = Tail(inbox[p])
      <4>1. Has(inbox[p], Goodbye(c)) <=> Has(Tail(inbox[p]), Goodbye(c)) \/ Head(inbox[p]) = Goodbye(c)
        BY <1>1, <3>2, HasTail
      <4> QED BY <3>2, <4>1
    <3> QED BY <2>5, <3>1, <3>2
  <2>7. CASE OpenAccepted(d) /\ <<p, c>> = <<Port, d.from>>
    <3>1. d = Request(c) /\ Has(inbox[p], Request(c))
      <4>1. d = Request(d.from)
        BY <2>4, <2>7 DEF OpenAccepted, Datagram, Request
      <4> QED BY <1>1, <2>5, <2>7, <4>1, HasTail
    <3>2. view[<<p, c>>] = "asked"
      BY <3>1 DEF Queues, QueueOK
    <3> QED BY <1>1, <2>7, <3>2 DEF OpenAccepted
  <2>8. CASE ~(OpenAccepted(d) /\ <<p, c>> = <<Port, d.from>>)
    <3>1. <<p, c>> \in bridges \ closed
      BY <1>1, <2>1, <2>2, <2>8 DEF OpenAccepted, OpenRefused, Ignored, Relayed, RelayFailed,
         RemoveBridge, bridgeVars
    <3>2. ~(p = Port /\ d = Goodbye(c))
      <4> SUFFICES ASSUME p = Port, d = Goodbye(c) PROVE FALSE
        OBVIOUS
      <4>1. d.kind = "disconnect" /\ d.from = c
        BY DEF Goodbye
      <4> QED BY <2>1, <2>2, <3>1, <4>1 DEF OpenAccepted, OpenRefused, Ignored, Relayed,
                 RelayFailed
    <3>3. view'[<<p, c>>] = view[<<p, c>>]
      <4>1. CASE RelayFailed(d)
        <5>1. <<p, c>> # <<Port, d.from>>
          BY <4>1 DEF RelayFailed, RemoveBridge
        <5> QED BY <4>1, <5>1 DEF RelayFailed, RemoveBridge, Dropped
      <4>2. CASE OpenRefused(d)
        <5>1. <<p, c>> # <<Port, d.from>>
          BY <3>1, <4>2 DEF OpenRefused
        <5> QED BY <4>2, <5>1, NotCreatedView DEF OpenRefused, TypeInv
      <4>3. CASE ~RelayFailed(d) /\ ~OpenRefused(d)
        BY <1>1, <2>1, <2>2, <2>8, <3>1, <4>3 DEF OpenAccepted, Ignored, Relayed
      <4> QED BY <4>1, <4>2, <4>3
    <3> QED BY <1>2, <2>6, <3>1, <3>2, <3>3
  <2> QED BY <2>7, <2>8
<1>5. CASE ~ClientStep /\ ~Receive
  <2>1. <<p, c>> \in bridges \ closed /\ view'[<<p, c>>] = view[<<p, c>>]
    <3>1. CASE ReceiveFailed \/ ScanPanicked
      BY <3>1 DEF ReceiveFailed, ScanPanicked, Exit
    <3>2. CASE \E e : /\ bridges' = bridges \ {<<Port, e>>} /\ closed' = closed \ {<<Port, e>>}
                      /\ Dropped({<<Port, e>>})
      BY <3>2 DEF Dropped
    <3>3. CASE bridges' = bridges /\ closed' = closed /\ view' = view
      BY <3>3
    <3>4. \/ ReceiveFailed \/ ScanPanicked
          \/ \E e : /\ bridges' = bridges \ {<<Port, e>>} /\ closed' = closed \ {<<Port, e>>}
                    /\ Dropped({<<Port, e>>})
          \/ bridges' = bridges /\ closed' = closed /\ view' = view
      BY <1>5 DEF Next, LoopStep, vars, bridgeVars, EndReceive, ResetReceive, StartRetain,
         PollFailed, Poll, ScanKnown, ScanNew, ScanFailed, Forward, ForwardAborted,
         ForwardFailed, RemoveBridge, NextShim, RunCmd, Sleep
    <3> QED BY <3>1, <3>2, <3>3, <3>4
  <2>2. inbox'[p] = inbox[p]
    <3>1. p \in ShimPorts /\ p \notin FreshPorts
      BY <2>1 DEF Sockets
    <3>2. CASE DropFresh
      BY <3>1, <3>2 DEF DropFresh, FreshPorts
    <3>3. CASE Exit
      BY <3>3 DEF Exit
    <3>4. DropFresh \/ Exit \/ inbox' = inbox
      BY <1>5 DEF Next, LoopStep, vars, EndReceive, ResetReceive, StartRetain, ReceiveFailed,
         PollFailed, Poll, ScanKnown, ScanNew, ScanFailed, ScanPanicked, Forward,
         ForwardAborted, ForwardFailed, NextShim, RunCmd, Sleep
    <3> QED BY <3>2, <3>3, <3>4
  <2> QED BY <1>2, <2>1, <2>2
<1> QED BY <1>3, <1>4, <1>5

LEMMA SessionInvariant ==
  ASSUME Patient
  PROVE  Spec => [](TypeInv /\ SessionInv)
<1>1. Init => SessionInv
  <2> SUFFICES ASSUME Init PROVE SessionInv
    OBVIOUS
  <2>1. Queues
    BY QueueEmpty DEF Init, Queues
  <2>2. Sockets
    BY ElemsEmpty DEF Init, Sockets, FreshPorts
  <2> QED BY <2>1, <2>2 DEF Init, SessionInv, NoOrphan
<1>2. TypeInv /\ SessionInv /\ [Next]_vars => SessionInv'
  BY QueuesStep, SocketsStep, NoOrphanStep DEF SessionInv
<1> QED BY <1>1, <1>2, InitTypeInv, TypeStep, PTL DEF Spec

\* If clients wait for the answer to a request before they ask again, no
\* connection to a server is left without a client: a bridge that is not closed
\* belongs to a client that takes it for open, or whose disconnect waits at the
\* socket of a shim that is still stepped.  It holds with faults too.
THEOREM NoBridgeOrphaned ==
  ASSUME Patient
  PROVE  Spec => []NoOrphan
<1>1. SessionInv => NoOrphan
  BY DEF SessionInv
<1> QED BY <1>1, SessionInvariant, PTL

LEMMA SessionsStep ==
  ASSUME TypeInv, SessionInv, SessionsMatch, ~Faults, [Next]_vars
  PROVE  SessionsMatch'
<1> SUFFICES ASSUME NEW p \in Ports, NEW c \in Clients, view'[<<p, c>>] = "open"
             PROVE  <<p, c>> \in bridges' \ closed'
  BY DEF SessionsMatch
<1>1. /\ view \in [Ports \X Clients -> {"none", "asked", "open"}] /\ closed \subseteq bridges
      /\ inbox \in [Ports -> Seq(Datagram)] /\ inbox[p] \in Seq(Datagram)
  BY DEF TypeInv, TypeOK, Datagram
<1>2. view[<<p, c>>] = "open" => <<p, c>> \in bridges \ closed
  BY DEF SessionsMatch
<1>3. ~Exit
  BY DEF Exit
<1>4. CASE \E e : /\ bridges' = bridges \ {<<Port, e>>} /\ closed' = closed \ {<<Port, e>>}
                  /\ Dropped({<<Port, e>>})
  BY <1>2, <1>4 DEF Dropped
<1>5. CASE bridges' = bridges /\ closed' = closed
           /\ \A b \in Ports \X Clients : view'[b] = "open" => view[b] = "open"
  BY <1>2, <1>5
<1>6. CASE \E d : OpenAccepted(d)
  BY <1>1, <1>2, <1>6 DEF OpenAccepted
<1>7. CASE \E d : Relayed(d)
  <2>1. PICK d : Relayed(d)
    BY <1>7
  <2>2. Port \in Ports /\ d \in Datagram /\ d.from \in Clients
    <3>1. Port \in Ports /\ d \in Datagram
      BY <2>1, ReceivedType DEF TypeInv, Relayed
    <3> QED BY <3>1 DEF Datagram
  <2>3. view' = view /\ bridges' = bridges
    BY <2>1 DEF Relayed
  <2>4. ASSUME <<p, c>> = <<Port, d.from>>, d.kind = "disconnect" PROVE FALSE
    <3>1. d = Goodbye(c)
      BY <2>2, <2>4 DEF Datagram, Goodbye
    <3>2. Has(inbox[p], Goodbye(c))
      BY <1>1, <2>1, <2>4, <3>1, HasTail DEF Relayed, Received
    <3> QED BY <2>3, <3>2 DEF SessionInv, Queues, QueueOK
  <2> QED BY <1>2, <2>1, <2>3, <2>4 DEF Relayed
<1>8. \/ \E e : /\ bridges' = bridges \ {<<Port, e>>} /\ closed' = closed \ {<<Port, e>>}
                /\ Dropped({<<Port, e>>})
      \/ \E d : OpenAccepted(d) \/ Relayed(d)
      \/ ClientStep
      \/ bridges' = bridges /\ closed' = closed /\ view' = view
      \/ \E d : OpenRefused(d)
  BY <1>3 DEF Next, LoopStep, vars, bridgeVars, Receive, OpenFailed, Ignored, RelayFailed,
     EndReceive, ResetReceive, StartRetain, ReceiveFailed, PollFailed, Poll, ScanKnown,
     ScanNew, ScanFailed, ScanPanicked, Forward, ForwardAborted, ForwardFailed,
     RemoveBridge, NextShim, RunCmd, Sleep
<1>9. ASSUME ClientStep \/ \E d : OpenRefused(d)
      PROVE  bridges' = bridges /\ closed' = closed
             /\ \A b \in Ports \X Clients : view'[b] = "open" => view[b] = "open"
  <2>1. CASE ClientStep
    BY <1>1, <2>1 DEF ClientStep, ClientOpen, ClientData, ClientClose, bridgeVars
  <2>2. ASSUME NEW d, OpenRefused(d)
        PROVE  bridges' = bridges /\ closed' = closed
               /\ \A b \in Ports \X Clients : view'[b] = "open" => view[b] = "open"
    BY <2>2, NotCreatedView DEF OpenRefused, bridgeVars, TypeInv
  <2> QED BY <1>9, <2>1, <2>2
<1> QED BY <1>4, <1>5, <1>6, <1>7, <1>8, <1>9

\* Without faults, and with clients that wait for answers, a client that takes
\* its connection for open has an open bridge: none is removed or closed behind
\* its back, whichever of the loop's error paths removes it.
THEOREM SessionsAgree ==
  ASSUME Patient, ~Faults
  PROVE  Spec => []SessionsMatch
<1>1. Init => SessionsMatch
  BY DEF Init, SessionsMatch
<1>2. TypeInv /\ SessionInv /\ SessionsMatch /\ [Next]_vars => SessionsMatch'
  BY SessionsStep
<1> QED BY <1>1, <1>2, SessionInvariant, PTL DEF Spec
=============================================================================
