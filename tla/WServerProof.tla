---------------------------- MODULE WServerProof ----------------------------
(***************************************************************************)
(* Proofs about WServer for every number of clients, connections and       *)
(* seats.  IInv is the inductive invariant: Lobby, of GameLemmas, which    *)
(* LServer has too; what the packets on their way may contain, in the      *)
(* streams and in the completions queued at the port; and one receive per  *)
(* live connection.                                                        *)
(***************************************************************************)
EXTENDS WServer, GameLemmas

Completion ==
    (Fds \X (Packet \cup {Nothing})) \cup ({Udp} \X (Datagram \cup {Nothing}))

(* The connection of a client that is gone has been closed or refused.     *)
Away(c) ==
    /\ Gone(c)
    /\ \A f \in Fds : sock[f] # c
    /\ \A a \in 1 .. Len(backlog) : backlog[a] # c

(* What a packet of client c may still ask for.                            *)
Asks(c, pkt) ==
    /\ pkt.type = Login =>
            /\ pkt.username = c
            /\ Seatless(c)
            /\ phase[c] \in {"waiting", "gone"}
    /\ pkt.type # Login =>
            /\ Owns(c, pkt.player_id) \/ Away(c)
            /\ phase[c] \notin NoIdYet
    /\ pkt.type = Logout => phase[c] \in {"left", "gone"}

(* The stream of c: a Login comes first and alone, a Logout last.          *)
StreamOK(c) ==
    /\ phase[c] \in {"start", "connected"} => tcp[c] = <<>>
    /\ \A k \in 1 .. Len(tcp[c]) :
            /\ Asks(c, tcp[c][k])
            /\ tcp[c][k].type = Login => Len(tcp[c]) = 1
            /\ tcp[c][k].type = Logout => k = Len(tcp[c])

(* A completion of connection f: the packet before those in the stream.    *)
PortOK(f, data) ==
    /\ data = Nothing => Gone(sock[f])
    /\ data # Nothing =>
            /\ Asks(sock[f], data)
            /\ data.type \in {Login, Logout} => tcp[sock[f]] = <<>>

MoveOK(d) == my_id[d.src] = d.player_id

Queued ==
    \A k \in 1 .. Len(port) :
        /\ port[k][1] \in Fds => PortOK(port[k][1], port[k][2])
        /\ port[k][1] = Udp /\ port[k][2] # Nothing => MoveOK(port[k][2])

Flight ==
    /\ \A c \in Clients : StreamOK(c)
    /\ \A d \in udp : MoveOK(d)
    /\ Queued

IInv ==
    /\ TypeOK
    /\ port \in Seq(Completion)
    /\ Lobby
    /\ Flight
    /\ MoveAttribution
    /\ ReceiveOutstanding

-----------------------------------------------------------------------------
LEMMA InitIInv == Init => IInv
<1> SUFFICES ASSUME Init PROVE IInv
  OBVIOUS
<1> USE DEF Init, TableInit, ClientInit
<1>1. Lobby /\ MoveAttribution
  BY InitLobby
<1>2. TypeOK /\ port \in Seq(Completion)
  <2>1. <<>> \in Seq(Completion)
    BY EmptySeq
  <2>2. alive = TRUE
    OBVIOUS
  <2>3. 1 .. Len(port) = {} /\ posted \in SUBSET (Fds \cup {Udp})
    OBVIOUS
  <2>4. unreached \in BOOLEAN
    OBVIOUS
  <2> QED
    BY <1>1, <2>1, <2>2, <2>3, <2>4, Zenon DEF TypeOK, Lobby
<1>3. Flight
  BY DEF Flight, StreamOK, Queued
<1>4. ReceiveOutstanding
  BY TableAssumption DEF ReceiveOutstanding, Uses, Open
<1> QED
  BY <1>1, <1>2, <1>3, <1>4 DEF IInv

-----------------------------------------------------------------------------
(* The port, and the receives under way.                                   *)

LEMMA PortTypes ==
    ASSUME port \in Seq(Completion), NEW k \in 1 .. Len(port)
    PROVE  \/ port[k][1] \in Fds /\ port[k][2] \in Packet \cup {Nothing}
           \/ port[k][1] = Udp /\ port[k][2] \in Datagram \cup {Nothing}
<1>1. port[k] \in Completion
  BY ElementOfSeq
<1>2. CASE port[k] \in Fds \X (Packet \cup {Nothing})
  BY <1>2
<1>3. CASE port[k] \in {Udp} \X (Datagram \cup {Nothing})
  BY <1>3
<1> QED
  BY <1>1, <1>2, <1>3 DEF Completion



LEMMA TypePartsNext ==
    ASSUME Lobby', alive', port' \in Seq(Completion), unreached' \in BOOLEAN,
           posted' \in SUBSET (Fds \cup {Udp})
    PROVE  TypeOK'
<1>1. ASSUME NEW k \in 1 .. Len(port')
      PROVE  \/ port'[k][1] \in Fds /\ port'[k][2] \in Packet \cup {Nothing}
             \/ port'[k][1] = Udp /\ port'[k][2] \in Datagram \cup {Nothing}
  <2>1. port'[k] \in Completion
    BY ElementOfSeq
  <2> QED
    BY <2>1 DEF Completion
<1> QED
  BY <1>1 DEF TypeOK, Lobby

LEMMA PortTaken ==
    ASSUME port \in Seq(Completion), ReceiveOutstanding,
           NEW x \in Fds \cup {Udp}, Take(x)
    PROVE  /\ port' \in Seq(Completion)
           /\ 1 \in 1 .. Len(port) /\ port[1][1] = x /\ Data = port[1][2]
           /\ \A k \in 1 .. Len(port') : /\ k + 1 \in 1 .. Len(port)
                                         /\ port'[k] = port[k + 1]
                                         /\ port'[k][1] # x
           /\ x \in Open /\ x \notin posted /\ Uses(x)' = {}
           /\ \A y \in (Fds \cup {Udp}) \ {x} :
                /\ \A j, k \in Uses(y)' : j = k
                /\ Uses(y)' = {} <=> Uses(y) = {}
<1>1. /\ port # <<>> /\ Head(port) = port[1]
      /\ port' = Tail(port) /\ port' \in Seq(Completion)
      /\ Len(port) \in Nat /\ 1 \in 1 .. Len(port)
      /\ Len(port') = Len(port) - 1
      /\ \A k \in 1 .. Len(port') : /\ k + 1 \in 1 .. Len(port)
                                    /\ port'[k] = port[k + 1]
  <2>1. port # <<>> /\ port' = Tail(port)
    BY DEF Take
  <2> QED
    BY <2>1, Taken
<1>2. port[1][1] = x /\ Data = port[1][2]
  BY <1>1 DEF Take, Data
<1>3. 1 \in Uses(x)
  BY <1>1, <1>2 DEF Uses
<1>4. \A k \in Uses(x) : k = 1
  BY <1>3 DEF ReceiveOutstanding
<1>5. \A k \in 1 .. Len(port') : port'[k][1] # x
  <2>1. \A k \in 1 .. Len(port') : k + 1 # 1
    BY <1>1
  <2> QED
    BY <1>1, <1>4, <2>1 DEF Uses
<1>6. ASSUME NEW y \in (Fds \cup {Udp}) \ {x}
      PROVE  /\ \A j, k \in Uses(y)' : j = k
             /\ Uses(y)' = {} <=> Uses(y) = {}
  <2>1. \A j \in Uses(y)' : j \in 1 .. Len(port') /\ j + 1 \in Uses(y)
    BY <1>1 DEF Uses
  <2>2. \A j, k \in Uses(y)' : j = k
    <3>1. \A j, k \in Uses(y) : j = k
      BY DEF ReceiveOutstanding
    <3>2. \A j, k \in 1 .. Len(port') : j + 1 = k + 1 => j = k
      BY <1>1
    <3> QED
      BY <2>1, <3>1, <3>2
  <2>3. ASSUME NEW k \in Uses(y) PROVE k - 1 \in Uses(y)'
    <3>1. k \in 1 .. Len(port) /\ port[k][1] = y /\ k # 1
      BY <1>2 DEF Uses
    <3>2. k - 1 \in 1 .. Len(port') /\ (k - 1) + 1 = k
      BY <1>1, <3>1
    <3>3. port'[k - 1] = port[k]
      BY <1>1, <3>2
    <3> QED
      BY <3>1, <3>2, <3>3 DEF Uses
  <2> QED
    BY <2>1, <2>2, <2>3
<1>7. x \in Open /\ x \notin posted /\ Uses(x)' = {}
  BY <1>3, <1>5 DEF ReceiveOutstanding, Uses
<1> QED
  BY <1>1, <1>2, <1>5, <1>6, <1>7

LEMMA PortAdded ==
    ASSUME port \in Seq(Completion), ReceiveOutstanding,
           NEW x \in Fds \cup {Udp}, NEW data, <<x, data>> \in Completion,
           Complete(x, data), UNCHANGED sock
    PROVE  /\ port' \in Seq(Completion)
           /\ Len(port) \in Nat /\ Len(port') = Len(port) + 1
           /\ \A k \in 1 .. Len(port) : port'[k] = port[k] /\ port[k][1] # x
           /\ port'[Len(port) + 1][1] = x
           /\ port'[Len(port) + 1][2] = data
           /\ x \in Open /\ x \notin posted' /\ Uses(x)' = {Len(port) + 1}
           /\ \A y \in (Fds \cup {Udp}) \ {x} : Uses(y)' = Uses(y)
<1>1. PICK e \in Completion : e = <<x, data>>
  OBVIOUS
<1>2. /\ port' = Append(port, e) /\ x \in posted /\ x \notin posted'
  BY <1>1 DEF Complete
<1>3. /\ port' \in Seq(Completion)
      /\ Len(port) \in Nat /\ Len(port') = Len(port) + 1
      /\ \A k \in 1 .. Len(port) : port'[k] = port[k]
      /\ port'[Len(port) + 1] = e
  BY <1>2, Added
<1>4. e[1] = x /\ e[2] = data
  BY <1>1
<1>5. x \in Open /\ Uses(x) = {}
  BY <1>2 DEF ReceiveOutstanding
<1>6. PICK n \in Nat : n = Len(port)
  BY <1>3
<1>7. \A k : k \in 1 .. n + 1 <=> k \in 1 .. n \/ k = n + 1
  BY <1>6
<1>8. Uses(x)' = {n + 1}
  BY <1>3, <1>4, <1>5, <1>6, <1>7 DEF Uses
<1>9. \A y \in (Fds \cup {Udp}) \ {x} : Uses(y)' = Uses(y)
  BY <1>3, <1>4, <1>6, <1>7 DEF Uses
<1>10. \A k \in 1 .. Len(port) : port[k][1] # x
  BY <1>5 DEF Uses
<1> QED
  BY <1>2, <1>3, <1>4, <1>5, <1>6, <1>8, <1>9, <1>10

LEMMA ReceivesKept ==
    ASSUME ReceiveOutstanding, TableTypeOK,
           UNCHANGED <<sock, posted, port, unreached>>,
           \A c \in Clients : phase[c] = "gone" => phase'[c] = "gone"
    PROVE  ReceiveOutstanding'
BY DEF ReceiveOutstanding, Uses, Open, Gone, TableTypeOK

-----------------------------------------------------------------------------
(* Steps of the clients.  What one leaves in order everywhere but in its   *)
(* own stream.                                                             *)
LEMMA ClientFrame ==
    ASSUME IInv, NEW c \in Clients, NEW to, UNCHANGED serverVars,
           phase' = [phase EXCEPT ![c] = to], phase[c] # "gone",
           \/ phase[c] = "start" /\ to = "connected"
           \/ phase[c] = "connected" /\ to = "waiting"
           \/ phase[c] = "waiting" /\ to = "ready" /\ ~Seatless(c)
           \/ phase[c] \in Playing /\ to \in Playing \cup {"left"}
           \/ phase[c] # "start" /\ to = "gone",
           \/ backlog' = backlog
           \/ phase[c] = "start" /\ backlog' = Append(backlog, c),
           \A d \in Clients \ {c} : tcp'[d] = tcp[d] /\ my_id'[d] = my_id[d],
           tcp'[c] = tcp[c] \/ phase[c] \in Playing \cup {"connected"},
           my_id'[c] = my_id[c] \/ my_id[c] = NoId
    PROVE  /\ \A pkt : Asks(c, pkt) => Asks(c, pkt)'
           /\ \A d \in Clients \ {c} : StreamOK(d)'
           /\ tcp'[c] = tcp[c] => StreamOK(c)'
           /\ Queued'
           /\ \A d \in udp : MoveOK(d)'
           /\ ReceiveOutstanding'
<1>1. /\ phase \in [Clients -> Phases] /\ udp \in SUBSET Datagram
      /\ backlog \in Seq(Clients) /\ sock \in [Fds -> Clients \cup {NoClient}]
  BY DEF IInv, Lobby, ClientTypeOK, TableTypeOK
<1>2. /\ \A d, i : Owns(d, i)' <=> Owns(d, i)
      /\ \A d : Seatless(d)' <=> Seatless(d)
      /\ UNCHANGED <<players, sock, posted, port, unreached>>
  BY OwnerUnchanged DEF serverVars
<1>3. \A d \in Clients \ {c} : phase'[d] = phase[d]
  BY <1>1
<1>4. phase'[c] = to
  BY <1>1
<1>5. \A d \in Clients : Away(d) => d # c /\ Away(d)'
  <2> SUFFICES ASSUME NEW d \in Clients, Away(d) PROVE d # c /\ Away(d)'
    OBVIOUS
  <2>1. d # c
    BY DEF Away, Gone
  <2>2. \A a \in 1 .. Len(backlog') : backlog'[a] # d
    <3>1. CASE backlog' = backlog
      BY <3>1 DEF Away
    <3>2. CASE backlog' = Append(backlog, c)
      <4>1. /\ Len(backlog) \in Nat /\ Len(backlog') = Len(backlog) + 1
            /\ \A k \in 1 .. Len(backlog) : backlog'[k] = backlog[k]
            /\ backlog'[Len(backlog) + 1] = c
        BY <1>1, <3>2, Added
      <4> QED
        BY <2>1, <4>1 DEF Away
    <3> QED
      BY <3>1, <3>2
  <2> QED
    BY <1>2, <1>3, <2>1, <2>2 DEF Away, Gone
<1>6. ASSUME NEW pkt, Asks(c, pkt)
      PROVE  /\ Asks(c, pkt)'
             /\ phase[c] \notin {"start", "connected"}
             /\ phase[c] \in Playing => pkt.type \notin {Login, Logout}
  <2>1. phase[c] \notin {"start", "connected"}
    BY <1>6 DEF Asks, NoIdYet
  <2>2. phase[c] \in Playing => pkt.type \notin {Login, Logout}
    BY <1>6 DEF Asks, Playing
  <2>3. ~Away(c)
    BY <1>5
  <2>4. Asks(c, pkt)'
    <3>1. CASE phase[c] = "waiting" /\ to = "ready" /\ ~Seatless(c)
      BY <1>6, <3>1 DEF Asks, NoIdYet
    <3>2. CASE phase[c] \in Playing /\ to \in Playing \cup {"left"}
      BY <1>2, <1>4, <1>6, <2>2, <2>3, <3>2 DEF Asks, NoIdYet, Playing
    <3>3. CASE to = "gone"
      BY <1>2, <1>4, <1>6, <2>3, <3>3 DEF Asks, NoIdYet
    <3> QED
      BY <2>1, <3>1, <3>2, <3>3
  <2> QED
    BY <2>1, <2>2, <2>4
<1>7. ASSUME NEW d \in Clients \ {c}
      PROVE  StreamOK(d)' /\ \A pkt : Asks(d, pkt) => Asks(d, pkt)'
  <2>1. \A pkt : Asks(d, pkt) => Asks(d, pkt)'
    BY <1>2, <1>3, <1>5 DEF Asks
  <2>2. StreamOK(d) /\ tcp'[d] = tcp[d] /\ phase'[d] = phase[d]
    BY <1>3 DEF IInv, Flight
  <2> QED
    BY <2>1, <2>2 DEF StreamOK
<1>8. ASSUME tcp'[c] = tcp[c] PROVE StreamOK(c)'
  <2>1. StreamOK(c)
    BY DEF IInv, Flight
  <2>2. to \in {"start", "connected"} => phase[c] \in {"start", "connected"}
    BY DEF Playing
  <2> QED
    BY <1>4, <1>6, <1>8, <2>1, <2>2 DEF StreamOK
<1>9. ASSUME NEW f \in Fds, NEW data, PortOK(f, data), sock[f] \in Clients
      PROVE  PortOK(f, data)'
  <2>1. CASE sock[f] # c
    BY <1>2, <1>3, <1>7, <1>9, <2>1 DEF PortOK, Gone
  <2>2. CASE sock[f] = c
    <3>1. data # Nothing
      BY <1>9, <2>2 DEF PortOK, Gone
    <3>2. /\ Asks(c, data)
          /\ data.type \in {Login, Logout} => tcp[c] = <<>>
      BY <1>9, <2>2, <3>1 DEF PortOK
    <3>3. data.type \in {Login, Logout} => tcp'[c] = <<>>
      BY <1>6, <3>2
    <3> QED
      BY <1>2, <1>6, <2>2, <3>1, <3>2, <3>3 DEF PortOK
  <2> QED
    BY <2>1, <2>2
<1>10. ASSUME NEW d \in Datagram, MoveOK(d) PROVE MoveOK(d)'
  <2>1. my_id[d.src] \in Nat /\ d.src \in Clients
    BY <1>10 DEF Datagram, MoveOK
  <2>2. my_id'[d.src] = my_id[d.src]
    BY <2>1 DEF NoId
  <2> QED
    BY <1>10, <2>2 DEF MoveOK
<1>11. \A d \in udp : MoveOK(d)'
  BY <1>1, <1>10 DEF IInv, Flight
<1>12. ASSUME NEW k \in 1 .. Len(port)
       PROVE  /\ port'[k][1] \in Fds => PortOK(port[k][1], port[k][2])'
              /\ port'[k][1] = Udp /\ port'[k][2] # Nothing
                    => MoveOK(port[k][2])'
  <2>1. \/ port[k][1] \in Fds /\ port[k][2] \in Packet \cup {Nothing}
        \/ port[k][1] = Udp /\ port[k][2] \in Datagram \cup {Nothing}
    BY PortTypes DEF IInv
  <2>2. PICK x, data : /\ x = port[k][1] /\ data = port[k][2]
                       /\ x = port'[k][1] /\ data = port'[k][2]
    BY <1>2
  <2>3. CASE x \in Fds
    <3>1. x \in Open
      BY <2>2, <2>3 DEF IInv, ReceiveOutstanding, Uses
    <3>2. sock[x] \in Clients
      BY <1>1, <2>3, <3>1, TableAssumption DEF Open
    <3>3. PortOK(x, data)
      BY <2>2, <2>3 DEF IInv, Flight, Queued
    <3>4. x # Udp
      BY <2>3, TableAssumption
    <3>5. PortOK(x, data)'
      BY <1>9, <2>3, <3>2, <3>3
    <3> QED
      BY <2>2, <3>4, <3>5 DEF PortOK, Asks
  <2>4. CASE x = Udp
    <3>1. data # Nothing => data \in Datagram /\ MoveOK(data)
      BY <2>1, <2>2, <2>4, TableAssumption DEF IInv, Flight, Queued
    <3>2. data # Nothing => MoveOK(data)'
      BY <3>1, <1>10
    <3> QED
      BY <2>2, <2>4, <3>2, TableAssumption DEF MoveOK
  <2> QED
    BY <2>1, <2>2, <2>3, <2>4
<1>13. ReceiveOutstanding'
  BY <1>2, <1>3, ReceivesKept DEF IInv, Lobby
<1>14. Queued'
  BY <1>2, <1>12 DEF Queued
<1> QED
  BY <1>6, <1>7, <1>8, <1>11, <1>13, <1>14

(* The types of what only the server changes.                              *)
LEMMA ServerTypes ==
    ASSUME IInv, UNCHANGED serverVars, Lobby'
    PROVE  TypeOK' /\ port' \in Seq(Completion)
<1>1. /\ UNCHANGED <<alive, posted, port, unreached>>
      /\ port \in Seq(Completion)
  BY DEF IInv, serverVars
<1>2. ClientTypeOK' /\ TableTypeOK'
  BY DEF Lobby
<1> QED
  BY <1>1, <1>2, Zenon DEF IInv, TypeOK

LEMMA QuietClient ==
    ASSUME IInv, NEW c \in Clients, UNCHANGED serverVars,
           Connect(c) \/ CloseClient(c) \/ KillClient(c)
    PROVE  IInv'
<1> USE DEF Connect, CloseClient, KillClient, GoTo, channelVars
<1>1. phase \in [Clients -> Phases]
  BY DEF IInv, Lobby, ClientTypeOK
<1>2. UNCHANGED <<my_id, tcp, udp>> /\ UNCHANGED <<players, sock, alive>>
  BY DEF serverVars
<1>3. Lobby'
  <2>1. CASE Connect(c)
    BY <1>2, <2>1, ConnectLobby DEF IInv
  <2>2. CASE KillClient(c)
    BY <1>2, <2>2, KillLobby DEF IInv
  <2>3. CASE CloseClient(c)
    <3>1. /\ GoTo(c, "left", "gone") /\ "gone" \in Phases
          /\ UNCHANGED <<my_id, reply, backlog, players, sock, alive>>
      BY <1>2, <2>3 DEF Phases
    <3>2. tcp' \in [Clients -> Seq(Packet)] /\ udp' \in SUBSET Datagram
      BY <1>2 DEF IInv, Lobby, ClientTypeOK
    <3> HIDE DEF GoTo
    <3> QED
      BY <3>1, <3>2, PhaseLobby DEF IInv
  <2> QED
    BY <2>1, <2>2, <2>3
<1>4. /\ \A d \in Clients : StreamOK(d)'
      /\ Queued' /\ (\A d \in udp : MoveOK(d)') /\ ReceiveOutstanding'
  <2>1. PICK to : /\ phase' = [phase EXCEPT ![c] = to]
                  /\ \/ phase[c] = "start" /\ to = "connected"
                     \/ phase[c] \notin {"start", "gone"} /\ to = "gone"
                  /\ \/ backlog' = backlog
                     \/ phase[c] = "start" /\ backlog' = Append(backlog, c)
    OBVIOUS
  <2> HIDE DEF Connect, CloseClient, KillClient
  <2> QED
    BY <1>2, <2>1, ClientFrame
<1>5. Flight' /\ MoveAttribution'
  BY <1>2, <1>4 DEF IInv, Flight, MoveAttribution
<1> QED
  BY <1>3, <1>4, <1>5, ServerTypes DEF IInv

(* A client that takes a reply has nothing on its way to the server.       *)
LEMMA RecvIdStep ==
    ASSUME IInv, NEW c \in Clients, RecvId(c), UNCHANGED serverVars
    PROVE  IInv'
<1>1. /\ phase[c] = "waiting" /\ reply[c] # NoPacket
      /\ phase' = [phase EXCEPT ![c] = "ready"]
      /\ my_id \in [Clients -> Nat \cup {NoId}] /\ my_id[c] = NoId
      /\ my_id' = [my_id EXCEPT ![c] = reply[c].player_id]
      /\ UNCHANGED <<backlog, tcp, udp>>
      /\ players \in [Slots -> Player]
  BY DEF RecvId, GoTo, channelVars, IInv, Lobby, TableTypeOK, ClientTypeOK,
         Knowledge, NoIdYet
<1>2. Lobby'
  BY RecvIdLobby DEF IInv, serverVars
<1>3. ~Seatless(c)
  BY <1>1 DEF IInv, Lobby, Knowledge, Owns, Seatless
<1>4. \A d \in Clients \ {c} : tcp'[d] = tcp[d] /\ my_id'[d] = my_id[d]
  BY <1>1
<1>5. /\ \A d \in Clients : StreamOK(d)'
      /\ Queued' /\ (\A d \in udp : MoveOK(d)') /\ ReceiveOutstanding'
  BY <1>1, <1>3, <1>4, ClientFrame
<1>6. MoveAttribution'
  BY <1>1 DEF IInv, MoveAttribution, Player, Slots, NoId, serverVars
<1>7. Flight'
  BY <1>1, <1>5 DEF Flight
<1> QED
  BY <1>2, <1>5, <1>6, <1>7, ServerTypes DEF IInv

LEMMA MoveStep ==
    ASSUME IInv, NEW c \in Clients, SendMove(c), UNCHANGED serverVars
    PROVE  IInv'
<1>1. /\ phase[c] = "ready"
      /\ phase' = [phase EXCEPT ![c] = "moved"]
      /\ udp' = udp \cup {[player_id |-> my_id[c], src |-> c]}
      /\ my_id[c] \in Nat
      /\ UNCHANGED <<my_id, backlog, tcp>>
  BY DEF SendMove, GoTo, IInv, Lobby, Knowledge, Playing, Owns, Slots
<1>2. udp' \in SUBSET Datagram
  BY <1>1 DEF IInv, Lobby, ClientTypeOK, Datagram
<1>3. Lobby'
  BY <1>2, PhaseLobby
  DEF SendMove, serverVars, IInv, Phases, Playing, Lobby, ClientTypeOK
<1>4. /\ \A d \in Clients : StreamOK(d)'
      /\ Queued' /\ (\A d \in udp : MoveOK(d)') /\ ReceiveOutstanding'
  BY <1>1, ClientFrame DEF Playing
<1>5. MoveOK([player_id |-> my_id[c], src |-> c])'
  BY <1>1 DEF MoveOK
<1>6. Flight' /\ MoveAttribution'
  BY <1>1, <1>4, <1>5 DEF Flight, IInv, MoveAttribution, serverVars
<1> QED
  BY <1>3, <1>4, <1>6, ServerTypes DEF IInv

(* The packet a client sends asks for what it may ask; what it sent before *)
(* is neither a Login nor a Logout.                                        *)
LEMMA SendStep ==
    ASSUME IInv, NEW c \in Clients, NEW from, NEW to \in Phases,
           NEW type, NEW id, NEW name, GoTo(c, from, to),
           SendTcp(c, type, id, name), UNCHANGED serverVars,
           \/ /\ type = Login /\ id = 0 /\ name = c
              /\ from = "connected" /\ to = "waiting"
           \/ /\ type \in {Attack, Item, Logout}
              /\ id = my_id[c] /\ name = NoClient
              /\ from \in Playing
              /\ to \in Playing \/ to = "left"
              /\ type = Logout => to = "left"
    PROVE  IInv'
<1>1. /\ phase \in [Clients -> Phases] /\ phase[c] = from
      /\ phase' = [phase EXCEPT ![c] = to]
      /\ tcp \in [Clients -> Seq(Packet)]
      /\ UNCHANGED <<my_id, reply, backlog, udp>>
      /\ UNCHANGED <<players, sock, alive>>
  BY DEF IInv, Lobby, ClientTypeOK, GoTo, SendTcp, serverVars
<1>2. \/ /\ type = Login /\ name = c /\ to = "waiting"
         /\ Seatless(c) /\ tcp[c] = <<>> /\ id \in Nat
      \/ /\ type \in {Attack, Item, Logout} /\ type # Login
         /\ Owns(c, id) /\ id \in Nat /\ from \in Playing
         /\ to \notin NoIdYet /\ (type = Logout => to = "left")
  <2>1. CASE type = Login
    BY <1>1, <2>1 DEF IInv, Lobby, Knowledge, Flight, StreamOK,
       Attack, Item, Logout, Login
  <2>2. CASE type \in {Attack, Item, Logout}
    BY <1>1, <2>2 DEF IInv, Lobby, Knowledge, Owns, Slots, Playing, NoIdYet,
       Login, Attack, Item, Logout
  <2> QED
    BY <2>1, <2>2
<1>3. PICK pkt \in Packet : pkt = [type |-> type, player_id |-> id, username |-> name]
  <2>1. [type |-> type, player_id |-> id, username |-> name] \in Packet
    BY <1>2 DEF Packet
  <2> QED
    BY <2>1
<1>4. /\ pkt.type = type /\ pkt.player_id = id /\ pkt.username = name
      /\ tcp' = [tcp EXCEPT ![c] = Append(tcp[c], pkt)]
  BY <1>3 DEF SendTcp
<1>5. /\ tcp' \in [Clients -> Seq(Packet)]
      /\ Len(tcp[c]) \in Nat
      /\ Len(tcp'[c]) = Len(tcp[c]) + 1
      /\ \A k \in 1 .. Len(tcp[c]) : tcp'[c][k] = tcp[c][k]
      /\ tcp'[c][Len(tcp[c]) + 1] = pkt
      /\ \A d \in Clients \ {c} : tcp'[d] = tcp[d]
  BY <1>1, <1>4, StreamGrows
<1>6. Lobby'
  BY <1>1, <1>5, PhaseLobby DEF IInv, Lobby, ClientTypeOK
<1>7. /\ \A p : Asks(c, p) => Asks(c, p)'
      /\ \A d \in Clients \ {c} : StreamOK(d)'
      /\ Queued' /\ (\A d \in udp : MoveOK(d)') /\ ReceiveOutstanding'
  <2>1. from # "gone" /\ from \in Playing \cup {"connected"}
    BY DEF Playing
  <2> QED
    BY <1>1, <1>5, <2>1, ClientFrame
<1>8. StreamOK(c)'
  <2>1. PICK n \in Nat : n = Len(tcp[c])
    BY <1>5
  <2>2. tcp'[c][n + 1] = pkt /\ Len(tcp'[c]) = n + 1
    BY <1>5, <2>1
  <2>3. ASSUME NEW k \in 1 .. n
        PROVE  /\ Asks(c, tcp[c][k])' /\ tcp'[c][k].type \notin {Login, Logout}
    <3>1. from \in Playing
      <4>1. tcp[c] # <<>>
        BY <2>1
      <4> QED
        BY <1>1, <1>2, <2>1, <4>1
    <3>2. PICK p : p = tcp[c][k] /\ p = tcp'[c][k]
      BY <1>5, <2>1
    <3>3. Asks(c, p)
      BY <2>1, <3>2 DEF IInv, Flight, StreamOK
    <3>4. p.type \notin {Login, Logout}
      BY <1>1, <3>1, <3>3 DEF Asks, Playing
    <3>5. Asks(c, p)'
      BY <1>7, <3>3
    <3> QED
      BY <3>2, <3>4, <3>5 DEF Asks
  <2>4. /\ Asks(c, pkt)'
        /\ type = Login => n = 0
    <3>1. CASE type = Login
      <4>1. n = 0 /\ Login # Logout /\ Seatless(c)'
        BY <1>1, <1>2, <2>1, <3>1, OwnerUnchanged DEF Login, Attack, Item, Logout
      <4> QED
        BY <1>1, <1>2, <1>4, <3>1, <4>1 DEF Asks
    <3>2. CASE type # Login
      BY <1>1, <1>2, <1>4, <3>2, OwnerUnchanged DEF Asks
    <3> QED
      BY <3>1, <3>2
  <2>5. phase'[c] \notin {"start", "connected"}
    BY <1>1, <1>2 DEF NoIdYet
  <2>6. ASSUME NEW k \in 1 .. n + 1
        PROVE  /\ Asks(c, tcp[c][k])'
               /\ tcp'[c][k].type = Login => n + 1 = 1
               /\ tcp'[c][k].type = Logout => k = n + 1
    <3>1. CASE k = n + 1
      BY <1>4, <2>2, <2>4, <3>1 DEF Asks
    <3>2. CASE k \in 1 .. n
      BY <2>3, <3>2
    <3>3. k \in 1 .. n \/ k = n + 1
      OBVIOUS
    <3> QED
      BY <3>1, <3>2, <3>3
  <2> QED
    BY <2>2, <2>5, <2>6 DEF StreamOK
<1>9. Flight' /\ MoveAttribution'
  BY <1>1, <1>7, <1>8 DEF Flight, IInv, MoveAttribution
<1> QED
  BY <1>6, <1>7, <1>9, ServerTypes DEF IInv

LEMMA ClientSends ==
    ASSUME IInv, NEW c \in Clients, UNCHANGED serverVars,
           \/ SendLogin(c) \/ SendAttack(c) \/ SendItem(c) \/ SendLogout(c)
    PROVE  IInv'
<1> USE DEF Phases, Playing
<1>1. CASE SendLogin(c)
  BY <1>1, SendStep DEF SendLogin
<1>2. CASE SendAttack(c)
  BY <1>2, SendStep DEF SendAttack, Attack, Logout
<1>3. CASE SendItem(c)
  BY <1>3, SendStep DEF SendItem, Item, Logout
<1>4. CASE SendLogout(c)
  BY <1>4, SendStep DEF SendLogout
<1> QED
  BY <1>1, <1>2, <1>3, <1>4

-----------------------------------------------------------------------------
(* What is queued stays in order when a completion is added or taken.      *)
LEMMA QueuedAdded ==
    ASSUME IInv, NEW x \in Fds \cup {Udp}, NEW data, <<x, data>> \in Completion,
           Complete(x, data), UNCHANGED sock,
           x \in Fds => PortOK(x, data)',
           x = Udp /\ data # Nothing => MoveOK(data)',
           \A g \in Open \cap Fds : \A d : g # x /\ PortOK(g, d) => PortOK(g, d)',
           \A d : MoveOK(d) => MoveOK(d)'
    PROVE  Queued'
<1>1. /\ Len(port) \in Nat /\ Len(port') = Len(port) + 1
      /\ \A k \in 1 .. Len(port) : port'[k] = port[k] /\ port[k][1] # x
      /\ port'[Len(port) + 1][1] = x
      /\ port'[Len(port) + 1][2] = data
  BY PortAdded DEF IInv
<1>2. ASSUME NEW k \in 1 .. Len(port')
      PROVE  /\ port'[k][1] \in Fds => PortOK(port[k][1], port[k][2])'
             /\ port'[k][1] = Udp /\ port'[k][2] # Nothing
                    => MoveOK(port[k][2])'
  <2>1. PICK y, d : y = port'[k][1] /\ d = port'[k][2]
    OBVIOUS
  <2>2. /\ y \in Fds => PortOK(y, d)'
        /\ y = Udp /\ d # Nothing => MoveOK(d)'
    <3>1. CASE k = Len(port) + 1
      BY <1>1, <2>1, <3>1
    <3>2. CASE k \in 1 .. Len(port)
      <4>1. /\ y = port[k][1] /\ d = port[k][2] /\ y # x
        BY <1>1, <2>1, <3>2
      <4>2. y \in Fds => y \in Open /\ PortOK(y, d)
        BY <3>2, <4>1 DEF IInv, Flight, Queued, ReceiveOutstanding, Uses
      <4>3. y = Udp /\ d # Nothing => MoveOK(d)
        BY <3>2, <4>1 DEF IInv, Flight, Queued
      <4> QED
        BY <4>1, <4>2, <4>3
    <3>3. k \in 1 .. Len(port) \/ k = Len(port) + 1
      BY <1>1
    <3> QED
      BY <3>1, <3>2, <3>3
  <2>3. /\ y \in Fds => PortOK(port[k][1], port[k][2])'
        /\ y = Udp /\ d # Nothing => MoveOK(port[k][2])'
    BY <2>1, <2>2
  <2> QED
    BY <2>1, <2>3
<1> QED
  BY <1>2 DEF Queued

LEMMA QueuedTaken ==
    ASSUME IInv, NEW x \in Fds \cup {Udp}, Take(x),
           \A g \in Open \cap Fds : \A d : g # x /\ PortOK(g, d) => PortOK(g, d)',
           \A d : MoveOK(d) => MoveOK(d)'
    PROVE  Queued'
<1>1. \A k \in 1 .. Len(port') : /\ k + 1 \in 1 .. Len(port)
                                 /\ port'[k] = port[k + 1]
                                 /\ port'[k][1] # x
  BY PortTaken DEF IInv
<1>2. ASSUME NEW k \in 1 .. Len(port')
      PROVE  /\ port'[k][1] \in Fds => PortOK(port[k][1], port[k][2])'
             /\ port'[k][1] = Udp /\ port'[k][2] # Nothing
                    => MoveOK(port[k][2])'
  <2>1. PICK y, d : y = port'[k][1] /\ d = port'[k][2]
    OBVIOUS
  <2>2. y = port[k + 1][1] /\ d = port[k + 1][2] /\ y # x
    BY <1>1, <2>1
  <2>3. y \in Fds => y \in Open /\ PortOK(y, d)
    BY <1>1, <2>2 DEF IInv, Flight, Queued, ReceiveOutstanding, Uses
  <2>4. y = Udp /\ d # Nothing => MoveOK(d)
    BY <1>1, <2>2 DEF IInv, Flight, Queued
  <2>5. /\ y \in Fds => PortOK(y, d)'
        /\ y = Udp /\ d # Nothing => MoveOK(d)'
    BY <2>2, <2>3, <2>4
  <2>6. /\ y \in Fds => PortOK(port[k][1], port[k][2])'
        /\ y = Udp /\ d # Nothing => MoveOK(port[k][2])'
    BY <2>1, <2>5
  <2> QED
    BY <2>1, <2>6
<1> QED
  BY <1>2 DEF Queued

(* Where nothing moves that Asks and Lobby speak of.                       *)
LEMMA AsksKept ==
    ASSUME UNCHANGED <<phase, players, sock, backlog>>
    PROVE  \A c, pkt : Asks(c, pkt)' <=> Asks(c, pkt)
BY OwnerUnchanged DEF Asks, Away, Gone

-----------------------------------------------------------------------------
(* The kernel completes receives.                                          *)
LEMMA CompleteReceives ==
    ASSUME IInv, NEW x \in Fds \cup {Udp}, NEW data, <<x, data>> \in Completion,
           Complete(x, data), UNCHANGED <<sock, phase>>,
           x = Udp \/ unreached' = unreached
    PROVE  ReceiveOutstanding'
<1>1. /\ x \in Open /\ x \notin posted' /\ posted' = posted \ {x}
      /\ Uses(x)' = {Len(port) + 1}
      /\ \A y \in (Fds \cup {Udp}) \ {x} : Uses(y)' = Uses(y)
  BY PortAdded DEF IInv, Complete
<1>2. Open' = Open
  BY DEF Open
<1> QED
  BY <1>1, <1>2 DEF IInv, ReceiveOutstanding, Gone

LEMMA CompleteTcpStep ==
    ASSUME IInv, NEW f \in Fds, CompleteTcp(f)
    PROVE  IInv' /\ UNCHANGED <<phase, players, sock, alive>>
<1>1. /\ f \in posted /\ Udp \notin Fds
      /\ UNCHANGED <<phase, my_id, reply, backlog, udp, players, sock,
                     unreached, alive>>
  BY TableAssumption DEF CompleteTcp
<1>2. PICK c \in Clients : c = sock[f]
  <2>1. f \in Open
    BY <1>1 DEF IInv, ReceiveOutstanding
  <2> QED
    BY <1>1, <2>1 DEF Open, IInv, Lobby, TableTypeOK
<1>3. \A g \in Fds \ {f} : sock[g] # c
  BY <1>2, ClientAssumption DEF IInv, Lobby, Connections
<1>4. \A d, pkt : Asks(d, pkt)' <=> Asks(d, pkt)
  BY <1>1, AsksKept
<1>5. ASSUME NEW data, data \in Packet \cup {Nothing}, Complete(f, data),
             tcp' \in [Clients -> Seq(Packet)],
             \A d \in Clients \ {c} : tcp'[d] = tcp[d],
             PortOK(f, data)', StreamOK(c)'
      PROVE  IInv'
  <2>1. <<f, data>> \in Completion
    BY <1>5 DEF Completion
  <2>2. port' \in Seq(Completion) /\ posted' \in SUBSET (Fds \cup {Udp})
    BY <1>1, <1>5, <2>1, PortAdded DEF IInv, TypeOK, Complete
  <2>3. Lobby'
    <3>1. Handling
      BY <1>1, <1>5 DEF Handling, IInv, Lobby, ClientTypeOK
    <3> QED
      BY <1>1, <3>1, QuietLobby DEF IInv
  <2>4. \A g \in Open \cap Fds : \A d : g # f /\ PortOK(g, d) => PortOK(g, d)'
    <3> SUFFICES ASSUME NEW g \in Open \cap Fds, NEW d, g # f, PortOK(g, d)
                 PROVE  PortOK(g, d)'
      OBVIOUS
    <3>1. sock[g] \in Clients \ {c}
      BY <1>1, <1>3 DEF Open, IInv, Lobby, TableTypeOK
    <3>2. tcp'[sock[g]] = tcp[sock[g]] /\ sock'[g] = sock[g]
      BY <1>1, <1>5, <3>1
    <3> QED
      BY <1>1, <1>4, <3>2 DEF PortOK, Gone
  <2>5. \A d : MoveOK(d) <=> MoveOK(d)'
    BY <1>1 DEF MoveOK
  <2>6. Queued'
    BY <1>1, <1>5, <2>1, <2>4, <2>5, QueuedAdded
  <2>7. \A d \in Clients \ {c} : StreamOK(d)'
    BY <1>1, <1>4, <1>5 DEF IInv, Flight, StreamOK
  <2>8. Flight'
    BY <1>1, <1>5, <2>5, <2>6, <2>7 DEF IInv, Flight
  <2>9. ReceiveOutstanding'
    BY <1>1, <1>5, <2>1, CompleteReceives
  <2>10. MoveAttribution'
    BY <1>1 DEF IInv, MoveAttribution
  <2>11. TypeOK'
    <3>1. alive' /\ unreached' \in BOOLEAN
      BY <1>1 DEF IInv, TypeOK
    <3> QED
      BY <2>2, <2>3, <3>1, TypePartsNext
  <2> QED
    BY <2>2, <2>3, <2>8, <2>9, <2>10, <2>11 DEF IInv
<1>6. CASE tcp' = tcp /\ Gone(c) /\ Complete(f, Nothing)
  <2>1. StreamOK(c)'
    BY <1>1, <1>4, <1>6 DEF IInv, Flight, StreamOK
  <2>2. PortOK(f, Nothing)'
    BY <1>1, <1>2, <1>6 DEF PortOK, Gone
  <2> QED
    BY <1>1, <1>5, <1>6, <2>1, <2>2 DEF IInv, Lobby, ClientTypeOK
<1>7. ASSUME tcp[c] # <<>>, Complete(f, Head(tcp[c])),
             tcp' = [tcp EXCEPT ![c] = Tail(@)]
      PROVE  IInv'
  <2>1. /\ tcp' \in [Clients -> Seq(Packet)]
        /\ Head(tcp[c]) = tcp[c][1] /\ Head(tcp[c]) \in Packet
        /\ 1 \in 1 .. Len(tcp[c])
        /\ Len(tcp[c]) \in Nat /\ Len(tcp'[c]) = Len(tcp[c]) - 1
        /\ \A k \in 1 .. Len(tcp'[c]) : /\ k + 1 \in 1 .. Len(tcp[c])
                                        /\ tcp'[c][k] = tcp[c][k + 1]
        /\ \A d \in Clients \ {c} : tcp'[d] = tcp[d]
    BY <1>7, StreamShrinks DEF IInv, Lobby, ClientTypeOK
  <2>2. PICK pkt \in Packet : pkt = Head(tcp[c]) /\ pkt = tcp[c][1]
    BY <2>1
  <2>3. /\ Asks(c, pkt)
        /\ pkt.type \in {Login, Logout} => Len(tcp[c]) = 1
    BY <2>1, <2>2 DEF IInv, Flight, StreamOK
  <2>4. PortOK(f, pkt)'
    <3>1. pkt # Nothing
      BY ClientAssumption DEF Nothing
    <3>2. pkt.type \in {Login, Logout} => tcp'[c] = <<>>
      BY <2>1, <2>3, EmptySeq
    <3> QED
      BY <1>1, <1>2, <1>4, <2>3, <3>1, <3>2 DEF PortOK
  <2>5. StreamOK(c)'
    <3>1. phase[c] \notin {"start", "connected"}
      BY <1>7 DEF IInv, Flight, StreamOK
    <3>2. ASSUME NEW k \in 1 .. Len(tcp'[c])
          PROVE  /\ Asks(c, tcp[c][k])'
                 /\ tcp'[c][k].type # Login
                 /\ tcp'[c][k].type = Logout => k = Len(tcp'[c])
      <4>1. PICK p : p = tcp'[c][k] /\ p = tcp[c][k + 1]
        BY <2>1
      <4>2. /\ Asks(c, p) /\ (p.type = Login => Len(tcp[c]) = 1)
            /\ p.type = Logout => k + 1 = Len(tcp[c])
        BY <2>1, <4>1 DEF IInv, Flight, StreamOK
      <4>3. Len(tcp[c]) # 1 /\ (k + 1 = Len(tcp[c]) => k = Len(tcp'[c]))
        BY <2>1
      <4>4. Asks(c, p)'
        BY <1>4, <4>2
      <4> QED
        BY <4>1, <4>2, <4>3, <4>4
    <3> QED
      BY <1>1, <3>1, <3>2 DEF StreamOK
  <2> QED
    BY <1>5, <1>7, <2>1, <2>2, <2>4, <2>5
<1>8. IInv'
  BY <1>2, <1>6, <1>7 DEF CompleteTcp
<1> QED
  BY <1>1, <1>8

LEMMA CompleteUdpStep ==
    ASSUME IInv, CompleteUdp
    PROVE  IInv' /\ UNCHANGED <<phase, players, sock, alive>>
<1>1. UNCHANGED <<phase, my_id, reply, backlog, tcp, players, sock, alive>>
  BY DEF CompleteUdp
<1>2. PICK data \in Datagram \cup {Nothing} :
        /\ Complete(Udp, data)
        /\ udp' \in SUBSET udp /\ unreached' \in BOOLEAN
        /\ data # Nothing => MoveOK(data)
  BY DEF CompleteUdp, IInv, Flight, TypeOK, ClientTypeOK
<1>3. <<Udp, data>> \in Completion
  BY DEF Completion
<1>4. port' \in Seq(Completion) /\ posted' \in SUBSET (Fds \cup {Udp})
  BY <1>1, <1>2, <1>3, PortAdded DEF IInv, TypeOK, Complete
<1>5. \A d, pkt : Asks(d, pkt)' <=> Asks(d, pkt)
  BY <1>1, AsksKept
<1>6. \A d : MoveOK(d) <=> MoveOK(d)'
  BY <1>1 DEF MoveOK
<1>7. Lobby'
  <2>1. Handling
    BY <1>1, <1>2 DEF Handling, IInv, Lobby, ClientTypeOK
  <2> QED
    BY <1>1, <2>1, QuietLobby DEF IInv
<1>8. Queued'
  <2>1. \A g, d : PortOK(g, d) => PortOK(g, d)'
    BY <1>1, <1>5 DEF PortOK, Gone
  <2> QED
    BY <1>1, <1>2, <1>3, <1>6, <2>1, TableAssumption, QueuedAdded
<1>9. Flight'
  BY <1>1, <1>2, <1>5, <1>6, <1>8 DEF IInv, Flight, StreamOK
<1>10. ReceiveOutstanding'
  BY <1>1, <1>2, <1>3, CompleteReceives
<1>11. MoveAttribution'
  BY <1>1 DEF IInv, MoveAttribution
<1>12. TypeOK'
  <2>1. alive'
    BY <1>1 DEF IInv, TypeOK
  <2> QED
    BY <1>2, <1>4, <1>7, <2>1, TypePartsNext
<1> QED
  BY <1>1, <1>4, <1>7, <1>9, <1>10, <1>11, <1>12 DEF IInv

-----------------------------------------------------------------------------
(* Accept: the connection is given a context with a receive, or refused.   *)
LEMMA AcceptStep ==
    ASSUME IInv, Accept
    PROVE  IInv' /\ \A i \in Slots : Owner(i)' = Owner(i)
<1>1. /\ backlog # <<>> /\ backlog' = Tail(backlog)
      /\ UNCHANGED <<phase, my_id, reply, tcp, udp, players, port, unreached,
                     alive>>
  BY DEF Accept
<1>2. PICK c \in Clients :
        /\ c = Head(backlog) /\ c = backlog[1] /\ 1 \in 1 .. Len(backlog)
        /\ backlog' \in Seq(Clients)
        /\ \A a \in 1 .. Len(backlog') : /\ a + 1 \in 1 .. Len(backlog)
                                         /\ backlog'[a] = backlog[a + 1]
  BY <1>1, Taken DEF IInv, Lobby, ClientTypeOK
<1> DEFINE Rest ==
        /\ sock' \in [Fds -> Clients \cup {NoClient}]
        /\ \A f \in Fds : sock[f] # NoClient => sock'[f] = sock[f]
        /\ \A f \in Fds : sock'[f] # sock[f] => sock'[f] = c
        /\ \A i \in Slots : Owner(i)' = Owner(i)
        /\ posted' \in SUBSET (Fds \cup {Udp})
<1>3. ASSUME Lobby', Rest, ReceiveOutstanding' PROVE IInv'
  <2>1. \A d \in Clients : Away(d) => Away(d)'
    <3> SUFFICES ASSUME NEW d \in Clients, Away(d) PROVE Away(d)'
      OBVIOUS
    <3>1. d # c
      BY <1>2 DEF Away
    <3> QED
      BY <1>1, <1>2, <1>3, <3>1 DEF Away, Gone
  <2>2. \A d \in Clients : \A i : Owns(d, i)' <=> Owns(d, i)
    BY <1>3 DEF Owns
  <2>3. \A d \in Clients : Seatless(d)' <=> Seatless(d)
    BY <1>3 DEF Seatless
  <2>4. \A d \in Clients : \A pkt : Asks(d, pkt) => Asks(d, pkt)'
    BY <1>1, <2>1, <2>2, <2>3 DEF Asks
  <2>5. \A d \in Clients : StreamOK(d)'
    BY <1>1, <2>4 DEF IInv, Flight, StreamOK
  <2>6. ASSUME NEW g \in Open \cap Fds, NEW d, PortOK(g, d)
        PROVE  PortOK(g, d)'
    <3>1. sock[g] \in Clients /\ sock'[g] = sock[g]
      BY <1>3, TableAssumption DEF Open, IInv, Lobby, TableTypeOK
    <3> QED
      BY <1>1, <2>4, <2>6, <3>1 DEF PortOK, Gone
  <2>7. Queued'
    <3>1. ASSUME NEW k \in 1 .. Len(port)
          PROVE  /\ port'[k][1] \in Fds => PortOK(port[k][1], port[k][2])'
                 /\ port'[k][1] = Udp /\ port'[k][2] # Nothing
                        => MoveOK(port[k][2])'
      <4>1. PICK y, d : /\ y = port[k][1] /\ d = port[k][2]
                        /\ y = port'[k][1] /\ d = port'[k][2]
        BY <1>1
      <4>2. y \in Fds => y \in Open /\ PortOK(y, d)
        <5>1. y \in Fds => PortOK(y, d)
          BY <4>1 DEF IInv, Flight, Queued
        <5>2. k \in Uses(y)
          BY <4>1 DEF Uses
        <5> QED
          BY <5>1, <5>2 DEF IInv, ReceiveOutstanding
      <4>3. y \in Fds => PortOK(y, d)'
        BY <2>6, <4>2
      <4>4. y = Udp /\ d # Nothing => MoveOK(d)'
        BY <1>1, <4>1 DEF IInv, Flight, Queued, MoveOK
      <4> QED
        BY <4>1, <4>3, <4>4
    <3> QED
      BY <1>1, <3>1 DEF Queued
  <2>8. \A d \in udp : MoveOK(d)'
    BY <1>1 DEF IInv, Flight, MoveOK
  <2>9. Flight' /\ MoveAttribution'
    BY <1>1, <2>5, <2>7, <2>8 DEF Flight, IInv, MoveAttribution
  <2>10. TypeOK' /\ port' \in Seq(Completion)
    <3>1. alive' /\ unreached' \in BOOLEAN /\ port' \in Seq(Completion)
      BY <1>1 DEF IInv, TypeOK
    <3> QED
      BY <1>3, <3>1, TypePartsNext
  <2> QED
    BY <1>3, <2>9, <2>10 DEF IInv
<1>4. ASSUME NEW f \in Fds, sock[f] = NoClient,
             sock' = [sock EXCEPT ![f] = c], PostTcp(f, c)
      PROVE  IInv' /\ \A i \in Slots : Owner(i)' = Owner(i)
  <2>1. Lobby' /\ \A i \in Slots : Owner(i)' = Owner(i)
    BY <1>1, <1>2, <1>4, AcceptLobby DEF IInv
  <2>2. /\ posted \in SUBSET (Fds \cup {Udp})
        /\ sock \in [Fds -> Clients \cup {NoClient}]
    BY DEF IInv, TypeOK, TableTypeOK
  <2>3. f \notin Open /\ f \notin posted /\ Uses(f) = {}
    BY <1>4, TableAssumption DEF Open, IInv, ReceiveOutstanding
  <2>4. Rest
    BY <1>4, <2>1, <2>2 DEF PostTcp
  <2>5. ReceiveOutstanding'
    <3>1. Open' = Open \cup {f}
      BY <1>4, <2>2, ClientAssumption DEF Open
    <3>2. \A x : Uses(x)' = Uses(x)
      BY <1>1 DEF Uses
    <3>3. \A g \in Fds \ {f} : sock'[g] = sock[g]
      BY <1>4, <2>2
    <3>4. sock'[f] = c /\ f # Udp
      BY <1>4, <2>2, TableAssumption
    <3>5. \A x \in (Fds \cup {Udp}) \ {f} : x \in posted' <=> x \in posted
      BY <1>4 DEF PostTcp
    <3>6. f \in posted' \/ Gone(c)'
      BY <1>1, <1>4 DEF PostTcp, Gone
    <3> QED
      BY <1>1, <2>3, <3>1, <3>2, <3>3, <3>4, <3>5, <3>6
      DEF IInv, ReceiveOutstanding, Gone
  <2> QED
    BY <1>3, <2>1, <2>4, <2>5
<1>5. CASE Gone(c) /\ UNCHANGED <<sock, posted>>
  <2>1. Connections'
    <3>1. \A f \in Fds : \A a \in 1 .. Len(backlog') : sock[f] # backlog'[a]
      BY <1>2 DEF IInv, Lobby, Connections
    <3>2. \A a, b \in 1 .. Len(backlog') : backlog'[a] = backlog'[b] => a = b
      BY <1>2 DEF IInv, Lobby, Connections
    <3>3. \A d \in Clients : phase[d] = "start" =>
            \A a \in 1 .. Len(backlog') : backlog'[a] # d
      <4>1. \A d \in Clients : phase[d] = "start" =>
                \A a \in 1 .. Len(backlog) : backlog[a] # d
        BY DEF IInv, Lobby, Connections
      <4> QED
        BY <1>2, <4>1
    <3> QED
      BY <1>1, <1>5, <3>1, <3>2, <3>3 DEF IInv, Lobby, Connections
  <2>2. ClientTypeOK' /\ TableTypeOK'
    BY <1>1, <1>2, <1>5 DEF IInv, Lobby, ClientTypeOK, TableTypeOK
  <2>3. /\ SeatsMatchConnections' /\ \A d \in Clients : Knowledge(d)'
        /\ \A i \in Slots : Owner(i)' = Owner(i)
    BY <1>1, <1>5, OwnerUnchanged DEF IInv, Lobby, Knowledge
  <2>4. Rest
    BY <1>5, <2>3 DEF IInv, TypeOK, TableTypeOK
  <2>5. ReceiveOutstanding'
    BY <1>1, <1>5, ReceivesKept DEF IInv, TypeOK
  <2> QED
    BY <1>3, <2>1, <2>2, <2>3, <2>4, <2>5 DEF Lobby
<1> QED
  BY <1>2, <1>4, <1>5 DEF Accept

-----------------------------------------------------------------------------
(* worker_thread(): one completion after the other.                        *)

(* Taking one completion, then posting again or hearing nothing more.      *)
LEMMA TakeReceives ==
    ASSUME IInv, NEW x \in Fds \cup {Udp}, Take(x),
           UNCHANGED <<sock, phase>>,
           \/ posted' = posted \cup {x}
           \/ posted' = posted /\ (IF x = Udp THEN unreached' ELSE Gone(sock[x])),
           x = Udp \/ unreached' = unreached,
           unreached => unreached'
    PROVE  ReceiveOutstanding'
<1>1. /\ x \in Open /\ x \notin posted /\ Uses(x)' = {}
      /\ \A y \in (Fds \cup {Udp}) \ {x} :
                /\ \A j, k \in Uses(y)' : j = k
                /\ Uses(y)' = {} <=> Uses(y) = {}
  BY PortTaken DEF IInv
<1>2. Open' = Open
  BY DEF Open
<1>3. \A y \in (Fds \cup {Udp}) \ {x} : y \in posted' <=> y \in posted
  OBVIOUS
<1>4. x \notin posted' => IF x = Udp THEN unreached' ELSE Gone(sock[x])'
  BY DEF Gone
<1> QED
  BY <1>1, <1>2, <1>3, <1>4 DEF IInv, ReceiveOutstanding, Gone

(* What the handler of a packet finds, and what it leaves in order         *)
(* whatever on_tcp() does.                                                 *)
LEMMA PacketFrame ==
    ASSUME IInv, NEW f \in Fds, HandlePacket(f)
    PROVE  /\ Handling /\ alive' /\ UNCHANGED <<tcp, udp, unreached>>
           /\ ReceiveOutstanding'
           /\ port' \in Seq(Completion) /\ posted' \in SUBSET (Fds \cup {Udp})
           /\ \E c \in Clients, pkt \in Packet :
                /\ c = sock[f] /\ OnTcp(f, pkt) /\ pkt = Data
                /\ Asks(c, pkt) /\ ~Away(c)
                /\ pkt.type \in {Login, Logout} => tcp[c] = <<>>
<1>1. /\ Take(f) /\ Data # Nothing /\ OnTcp(f, Data) /\ alive'
      /\ PostTcp(f, sock[f])
      /\ UNCHANGED <<phase, my_id, backlog, tcp, udp, sock, unreached>>
  BY DEF HandlePacket, OnPacket
<1>2. /\ port' \in Seq(Completion) /\ f \in Open /\ f # Udp
      /\ 1 \in 1 .. Len(port) /\ port[1][1] = f /\ Data = port[1][2]
  BY <1>1, PortTaken, TableAssumption DEF IInv
<1>3. PICK c \in Clients : c = sock[f]
  BY <1>2 DEF Open, IInv, Lobby, TableTypeOK
<1>4. PICK pkt \in Packet : pkt = Data
  BY <1>1, <1>2, PortTypes DEF IInv
<1>5. PortOK(f, pkt)
  BY <1>2, <1>4 DEF IInv, Flight, Queued
<1>6. /\ Asks(c, pkt) /\ ~Away(c)
      /\ pkt.type \in {Login, Logout} => tcp[c] = <<>>
  BY <1>1, <1>3, <1>4, <1>5 DEF PortOK, Away
<1>7. ReceiveOutstanding'
  BY <1>1, <1>2, TakeReceives DEF PostTcp
<1>8. posted' \in SUBSET (Fds \cup {Udp})
  BY <1>1 DEF PostTcp, IInv, TypeOK
<1>9. Handling
  BY <1>1 DEF Handling, IInv, Lobby, ClientTypeOK
<1> QED
  BY <1>1, <1>2, <1>3, <1>4, <1>6, <1>7, <1>8, <1>9

LEMMA HandlePacketStep ==
    ASSUME IInv, NEW f \in Fds, HandlePacket(f)
    PROVE  IInv'
<1>1. PICK c \in Clients, pkt \in Packet :
        /\ c = sock[f] /\ OnTcp(f, pkt)
        /\ Asks(c, pkt) /\ ~Away(c)
        /\ pkt.type \in {Login, Logout} => tcp[c] = <<>>
  BY PacketFrame
<1>2. /\ Handling /\ alive' /\ UNCHANGED <<tcp, udp, unreached>>
      /\ UNCHANGED <<phase, my_id, sock, backlog>>
      /\ ReceiveOutstanding'
      /\ port' \in Seq(Completion) /\ posted' \in SUBSET (Fds \cup {Udp})
  BY PacketFrame DEF Handling
<1>3. ASSUME Lobby', MoveAttribution',
             \A d \in Clients \ {c} : \A i : Owns(d, i)' <=> Owns(d, i),
             \A d \in Clients \ {c} : Seatless(d) => Seatless(d)',
             StreamOK(c)'
      PROVE  IInv'
  <2>1. \A d \in Clients \ {c} : \A p : Asks(d, p) => Asks(d, p)'
    BY <1>2, <1>3 DEF Asks, Away, Gone
  <2>2. \A d \in Clients : StreamOK(d)'
    BY <1>2, <1>3, <2>1 DEF IInv, Flight, StreamOK
  <2>3. ASSUME NEW g \in Open \cap Fds, NEW d, g # f, PortOK(g, d)
        PROVE  PortOK(g, d)'
    <3>1. sock[g] \in Clients \ {c} /\ sock'[g] = sock[g]
      BY <1>1, <1>2, <2>3, TableAssumption
      DEF Open, IInv, Lobby, TableTypeOK, Connections
    <3> QED
      BY <1>2, <2>1, <2>3, <3>1 DEF PortOK, Gone
  <2>4. \A d : MoveOK(d) => MoveOK(d)'
    BY <1>2 DEF MoveOK
  <2>5. Queued'
    BY <2>3, <2>4, QueuedTaken DEF HandlePacket, OnPacket
  <2>6. Flight'
    BY <1>2, <2>2, <2>4, <2>5 DEF IInv, Flight
  <2>7. TypeOK'
    <3>1. unreached' \in BOOLEAN
      BY <1>2 DEF IInv, TypeOK
    <3> QED
      BY <1>2, <1>3, <3>1, TypePartsNext
  <2> QED
    BY <1>2, <1>3, <2>6, <2>7 DEF IInv
<1>4. CASE /\ UNCHANGED players
           /\ \/ UNCHANGED <<reply, alive>>
              \/ \E p \in Packet : Send(BroadcastFds(players), p)
  <2>1. Lobby'
    BY <1>2, <1>4, QuietLobby DEF IInv
  <2>2. MoveAttribution'
    BY <1>2, <1>4 DEF IInv, MoveAttribution
  <2>3. \A d, p : Asks(d, p)' <=> Asks(d, p)
    BY <1>2, <1>4, AsksKept
  <2>4. StreamOK(c)'
    BY <1>2, <2>3 DEF IInv, Flight, StreamOK
  <2> QED
    BY <1>2, <1>3, <1>4, <2>1, <2>2, <2>4, OwnerUnchanged
<1>5. ASSUME pkt.type \in {Login, Logout} PROVE StreamOK(c)'
  <2>1. tcp'[c] = <<>>
    BY <1>1, <1>2, <1>5
  <2> QED
    BY <2>1 DEF StreamOK
<1>6. CASE pkt.type = Login /\ OnLogin(f, pkt)
  <2>1. CASE FreeSlots = {} /\ UNCHANGED <<players, reply, alive>>
    BY <2>1, <1>4
  <2>2. ASSUME NEW i \in FreeSlots,
               players' = Allocated(i, f, pkt.username),
               Send({f} \cup BroadcastFds(players'), [pkt EXCEPT !.player_id = i])
        PROVE  IInv'
    <3>1. pkt.username = c /\ Seatless(c) /\ phase[c] \in {"waiting", "gone"}
      BY <1>1, <1>6 DEF Asks
    <3>2. /\ Lobby' /\ MoveAttribution'
          /\ \A d \in Clients \ {c} : \A j : Owns(d, j)' <=> Owns(d, j)
          /\ \A d \in Clients \ {c} : Seatless(d)' <=> Seatless(d)
      BY <1>1, <1>2, <2>2, <3>1, LoginLobby DEF IInv
    <3> QED
      BY <1>3, <1>5, <1>6, <3>2
  <2> QED
    BY <1>6, <2>1, <2>2 DEF OnLogin
<1>7. CASE pkt.type = Logout /\ OnLogout(pkt)
  <2>1. Owns(c, pkt.player_id) /\ phase[c] \in {"left", "gone"}
    BY <1>1, <1>7 DEF Asks, Login, Logout
  <2>2. /\ Lobby' /\ MoveAttribution'
        /\ \A d \in Clients \ {c} : \A i : Owns(d, i)' <=> Owns(d, i)
        /\ \A d \in Clients : Seatless(d) => Seatless(d)'
    BY <1>2, <1>7, <2>1, LogoutLobby DEF IInv
  <2> QED
    BY <1>3, <1>5, <1>7, <2>2
<1>8. CASE OnRelay(pkt)
  BY <1>4, <1>8 DEF OnRelay
<1> QED
  BY <1>1, <1>6, <1>7, <1>8 DEF OnTcp

(* Zero bytes on a connection: its client is gone, and now it is Away.     *)
LEMMA HandleCloseStep ==
    ASSUME IInv, NEW f \in Fds, HandleClose(f)
    PROVE  IInv' /\ sock[f] \in Clients /\ phase[sock[f]] = "gone"
<1>1. /\ Take(f) /\ Data = Nothing /\ FreePlayer(f)
      /\ sock' = [sock EXCEPT ![f] = NoClient]
      /\ UNCHANGED <<clientVars, posted, unreached, alive>>
      /\ UNCHANGED <<phase, my_id, backlog, tcp, udp>>
  BY DEF HandleClose, clientVars
<1>2. /\ port' \in Seq(Completion) /\ f \in Open /\ f # Udp /\ f \notin posted
      /\ 1 \in 1 .. Len(port) /\ port[1][1] = f /\ Data = port[1][2]
      /\ Uses(f)' = {}
      /\ \A y \in (Fds \cup {Udp}) \ {f} :
            /\ \A j, k \in Uses(y)' : j = k
            /\ Uses(y)' = {} <=> Uses(y) = {}
  BY <1>1, PortTaken, TableAssumption DEF IInv
<1>3. PICK c \in Clients : c = sock[f]
  BY <1>2 DEF Open, IInv, Lobby, TableTypeOK
<1>4. phase[c] = "gone"
  <2>1. PortOK(f, Nothing)
    BY <1>1, <1>2 DEF IInv, Flight, Queued
  <2> QED
    BY <1>3, <2>1 DEF PortOK, Gone
<1>5. /\ Lobby' /\ MoveAttribution'
      /\ \A i \in Slots : Owner(i)' = IF Owner(i) = c THEN NoClient ELSE Owner(i)
      /\ \A g \in Fds : sock'[g] # c
      /\ \A a \in 1 .. Len(backlog) : backlog[a] # c
  BY <1>1, <1>3, <1>4, FreeLobby DEF IInv
<1>6. \A g \in Fds : sock'[g] = IF g = f THEN NoClient ELSE sock[g]
  BY <1>1 DEF IInv, Lobby, TableTypeOK
<1>7. Away(c)' /\ \A d \in Clients : Away(d) => Away(d)'
  BY <1>1, <1>4, <1>5, <1>6, ClientAssumption DEF Away, Gone
<1>8. \A d \in Clients \ {c} : \A i : Owns(d, i)' <=> Owns(d, i)
  BY <1>5, ClientAssumption DEF Owns
<1>9. \A d \in Clients : Seatless(d) => Seatless(d)'
  BY <1>5, ClientAssumption DEF Seatless
<1>10. \A d \in Clients : \A p : Asks(d, p) => Asks(d, p)'
  BY <1>1, <1>7, <1>8, <1>9 DEF Asks
<1>11. \A d \in Clients : StreamOK(d)'
  BY <1>1, <1>10 DEF IInv, Flight, StreamOK
<1>12. ASSUME NEW g \in Open \cap Fds, NEW d, g # f, PortOK(g, d)
       PROVE  PortOK(g, d)'
  <2>1. sock[g] \in Clients /\ sock'[g] = sock[g]
    BY <1>6, <1>12, TableAssumption DEF Open, IInv, Lobby, TableTypeOK
  <2> QED
    BY <1>1, <1>10, <1>12, <2>1 DEF PortOK, Gone
<1>13. \A d : MoveOK(d) <=> MoveOK(d)'
  BY <1>1 DEF MoveOK
<1>14. Queued'
  BY <1>1, <1>12, <1>13, QueuedTaken
<1>15. Flight'
  BY <1>1, <1>11, <1>13, <1>14 DEF IInv, Flight
<1>16. ReceiveOutstanding'
  <2>1. f \notin Open' /\ \A y \in (Fds \cup {Udp}) \ {f} : y \in Open' <=> y \in Open
    BY <1>2, <1>6 DEF Open
  <2>2. \A y \in Fds \ {f} : Gone(sock[y])' <=> Gone(sock[y])
    BY <1>1, <1>6 DEF Gone
  <2> QED
    BY <1>1, <1>2, <2>1, <2>2 DEF IInv, ReceiveOutstanding
<1>17. TypeOK'
  <2>1. alive' /\ unreached' \in BOOLEAN /\ posted' \in SUBSET (Fds \cup {Udp})
    BY <1>1 DEF IInv, TypeOK
  <2> QED
    BY <1>2, <1>5, <2>1, TypePartsNext
<1> QED
  BY <1>2, <1>3, <1>4, <1>5, <1>15, <1>16, <1>17 DEF IInv

LEMMA HandleUdpStep ==
    ASSUME IInv, HandleUdp
    PROVE  IInv' /\ \A i \in Slots : Owner(i)' = Owner(i)
<1>1. /\ Take(Udp) /\ PostUdp /\ UNCHANGED <<clientVars, sock, alive>>
      /\ UNCHANGED <<phase, my_id, backlog, tcp, udp, reply>>
  BY DEF HandleUdp, clientVars
<1>2. /\ port' \in Seq(Completion)
      /\ 1 \in 1 .. Len(port) /\ port[1][1] = Udp /\ Data = port[1][2]
  BY <1>1, PortTaken DEF IInv
<1>3. /\ players' \in [Slots -> Player]
      /\ \A i \in Slots :
            /\ players'[i].is_active = players[i].is_active
            /\ players'[i].tcp_fd = players[i].tcp_fd
            /\ players'[i].username = players[i].username
      /\ MoveAttribution'
  <2>1. CASE UNCHANGED players
    BY <1>1, <2>1 DEF IInv, Lobby, TableTypeOK, MoveAttribution
  <2>2. CASE Data # Nothing /\ OnUdp(Data)
    <3>1. PICK d \in Datagram : d = Data /\ MoveOK(d)
      BY <1>2, <2>2, PortTypes, TableAssumption DEF IInv, Flight, Queued
    <3>2. /\ players' \in [Slots -> Player]
          /\ \A i \in Slots :
               /\ players'[i].is_active = players[i].is_active
               /\ players'[i].tcp_fd = players[i].tcp_fd
               /\ players'[i].username = players[i].username
               /\ \/ players'[i].udp_addr = players[i].udp_addr
                  \/ i = d.player_id /\ players'[i].udp_addr = d.src
      BY <2>2, <3>1, UdpTable DEF IInv, Lobby, TableTypeOK
    <3> QED
      BY <1>1, <3>1, <3>2 DEF IInv, MoveAttribution, MoveOK
  <2> QED
    BY <2>1, <2>2 DEF HandleUdp
<1>4. unreached' \in BOOLEAN /\ (unreached => unreached')
  <2>1. unreached' = unreached \/ unreached' = TRUE
    BY DEF HandleUdp, BroadcastUdp
  <2>2. unreached \in BOOLEAN
    BY DEF IInv, TypeOK
  <2>3. CASE unreached' = unreached
    BY <2>2, <2>3
  <2>4. CASE unreached' = TRUE
    BY <2>4
  <2> QED
    BY <2>1, <2>3, <2>4
<1>5. /\ Lobby' /\ \A i \in Slots : Owner(i)' = Owner(i)
      /\ \A c \in Clients : \A i : Owns(c, i)' <=> Owns(c, i)
      /\ \A c \in Clients : Seatless(c)' <=> Seatless(c)
  <2>1. Handling /\ UNCHANGED reply /\ alive' \in BOOLEAN
    BY <1>1 DEF Handling, IInv, Lobby, ClientTypeOK, TableTypeOK
  <2> QED
    BY <1>3, <2>1, SeatsKept DEF IInv
<1>6. \A c \in Clients : \A p : Asks(c, p) <=> Asks(c, p)'
  BY <1>1, <1>5 DEF Asks, Away, Gone
<1>7. \A c \in Clients : StreamOK(c)'
  BY <1>1, <1>6 DEF IInv, Flight, StreamOK
<1>8. ASSUME NEW g \in Open \cap Fds, NEW d, PortOK(g, d) PROVE PortOK(g, d)'
  <2>1. sock[g] \in Clients
    BY TableAssumption DEF Open, IInv, Lobby, TableTypeOK
  <2> QED
    BY <1>1, <1>6, <1>8, <2>1 DEF PortOK, Gone
<1>9. \A d : MoveOK(d) <=> MoveOK(d)'
  BY <1>1 DEF MoveOK
<1>10. Queued'
  BY <1>1, <1>8, <1>9, QueuedTaken
<1>11. Flight'
  BY <1>1, <1>7, <1>9, <1>10 DEF IInv, Flight
<1>12. ReceiveOutstanding'
  BY <1>1, <1>4, TakeReceives DEF PostUdp
<1>13. TypeOK'
  <2>1. alive' /\ posted' \in SUBSET (Fds \cup {Udp})
    BY <1>1 DEF IInv, TypeOK, PostUdp
  <2> QED
    BY <1>2, <1>4, <1>5, <2>1, TypePartsNext
<1> QED
  BY <1>2, <1>3, <1>5, <1>11, <1>12, <1>13 DEF IInv

-----------------------------------------------------------------------------
LEMMA NextIInv == IInv /\ [Next]_vars => IInv'
<1> SUFFICES ASSUME IInv, [Next]_vars PROVE IInv'
  OBVIOUS
<1>1. CASE Accept \/ Worker \/ Kernel
  BY <1>1, AcceptStep, HandleUdpStep, HandlePacketStep, HandleCloseStep,
     CompleteTcpStep, CompleteUdpStep
  DEF Worker, Kernel
<1>2. ASSUME NEW c \in Clients, Environment(c) PROVE IInv'
  BY <1>2, QuietClient, ClientSends, RecvIdStep, MoveStep
  DEF Environment, ClientStep
<1>3. CASE UNCHANGED vars
  <2>1. /\ UNCHANGED <<phase, my_id, reply, backlog, tcp, udp>>
        /\ UNCHANGED <<players, sock, posted, port, unreached, alive>>
    BY <1>3 DEF vars, clientVars, serverVars
  <2>2. Lobby'
    <3>1. Handling
      BY <2>1 DEF Handling, IInv, Lobby, ClientTypeOK
    <3> QED
      BY <2>1, <3>1, QuietLobby DEF IInv
  <2>3. \A d, p : Asks(d, p)' <=> Asks(d, p)
    BY <2>1, AsksKept
  <2>4. Flight'
    BY <2>1, <2>3 DEF IInv, Flight, StreamOK, Queued, PortOK, MoveOK, Gone
  <2>5. ReceiveOutstanding' /\ MoveAttribution'
    BY <2>1, ReceivesKept DEF IInv, TypeOK, MoveAttribution
  <2>6. TypeOK' /\ port' \in Seq(Completion)
    BY <2>1, <2>2, ServerTypes DEF serverVars
  <2> QED
    BY <2>2, <2>4, <2>5, <2>6 DEF IInv
<1> QED
  BY <1>1, <1>2, <1>3 DEF Next

(* The inductive invariant holds in every state of the server.             *)
THEOREM Invariance == SafeSpec => []IInv
<1>1. Init => IInv
  BY InitIInv
<1>2. IInv /\ [Next]_vars => IInv'
  BY NextIInv
<1> QED
  BY <1>1, <1>2, PTL DEF SafeSpec

(* Every variable keeps its type, and no send() ends the server.           *)
THEOREM TypeCorrect == SafeSpec => []TypeOK
<1>1. IInv => TypeOK
  BY DEF IInv
<1> QED
  BY <1>1, Invariance, PTL

(* A context is posted or queued at most once and never after free(ctx),   *)
(* and a live connection always has its one receive under way.             *)
THEOREM OneReceive == SafeSpec => []ReceiveOutstanding
<1>1. IInv => ReceiveOutstanding
  BY DEF IInv
<1> QED
  BY <1>1, Invariance, PTL

(* The player table and the open connections agree in every history.       *)
THEOREM TableCorrect == SafeSpec => []SeatsMatchConnections
<1>1. IInv => SeatsMatchConnections
  BY DEF IInv, Lobby
<1> QED
  BY <1>1, Invariance, PTL

(* The id a client plays under is that of a seat kept for it, and its      *)
(* login response is its own, however late the port delivers packets.      *)
THEOREM IdsAgree == SafeSpec => []IdAgreement
<1>1. IInv => IdAgreement
  BY DEF IInv, Lobby, IdAgreement, Knowledge
<1> QED
  BY <1>1, Invariance, PTL

(* wserver.c:183: though a Move waits in flight, at the port, or both, it  *)
(* overwrites at worst the position at the seat its sender has left, never *)
(* that of another while the sender still plays.                           *)
THEOREM MovesKeptApart == SafeSpec => []PositionsKeptApart
<1>1. IInv => PositionsKeptApart
  BY KeptApart DEF IInv
<1> QED
  BY <1>1, Invariance, PTL

-----------------------------------------------------------------------------
(* WServer implements PlayerRegistry, too.                                 *)
LEMMA PacketRefines ==
    ASSUME IInv, NEW f \in Fds, HandlePacket(f)
    PROVE  Registry!Next \/ UNCHANGED Registry!registryVars
<1>1. PICK c \in Clients, pkt \in Packet :
        c = sock[f] /\ OnTcp(f, pkt) /\ Asks(c, pkt) /\ ~Away(c)
  BY PacketFrame
<1>2. Handling /\ Lobby /\ alive
  BY PacketFrame DEF IInv, TypeOK
<1>3. CASE /\ UNCHANGED players
           /\ \/ UNCHANGED <<reply, alive>>
              \/ \E p \in Packet : Send(BroadcastFds(players), p)
  BY <1>2, <1>3, QuietRefines DEF Registry!Next
<1>4. CASE pkt.type = Login /\ OnLogin(f, pkt)
  <2>1. pkt.username = c /\ Seatless(c) /\ phase[c] \in {"waiting", "gone"}
    BY <1>1, <1>4 DEF Asks
  <2>2. ASSUME NEW i \in FreeSlots,
               players' = Allocated(i, f, pkt.username),
               Send({f} \cup BroadcastFds(players'), [pkt EXCEPT !.player_id = i])
        PROVE  Registry!Next
    BY <1>1, <1>2, <2>1, <2>2, LoginJoins DEF Registry!Next, FreeSlots
  <2> QED
    BY <1>3, <1>4, <2>2 DEF OnLogin
<1>5. CASE pkt.type = Logout /\ OnLogout(pkt)
  <2>1. Owns(c, pkt.player_id) /\ phase[c] \in {"left", "gone"}
    BY <1>1, <1>5 DEF Asks, Login, Logout
  <2> QED
    BY <1>2, <1>5, <2>1, LogoutLeaves DEF Registry!Next
<1>6. CASE OnRelay(pkt)
  BY <1>3, <1>6 DEF OnRelay
<1> QED
  BY <1>1, <1>4, <1>5, <1>6 DEF OnTcp

(* Whatever clients, kernel and port do, seats are given, kept and taken   *)
(* back as the registry promises.                                          *)
THEOREM Implements == SafeSpec => RegistrySafety
<1>1. Init => Registry!Init
  BY InitRegistry DEF Init
<1>2. IInv /\ [Next]_vars => [Registry!Next]_Registry!registryVars
  <2> SUFFICES ASSUME IInv, [Next]_vars
               PROVE  Registry!Next \/ UNCHANGED Registry!registryVars
    OBVIOUS
  <2>1. Lobby /\ alive
    BY DEF IInv, TypeOK
  <2>2. CASE Accept \/ HandleUdp
    <3>1. (\A i \in Slots : Owner(i)' = Owner(i)) /\ UNCHANGED <<phase, alive>>
      BY <2>2, AcceptStep, HandleUdpStep DEF Accept, HandleUdp, clientVars
    <3> QED
      BY <3>1 DEF Registry!registryVars
  <2>3. CASE Kernel
    <3>1. UNCHANGED <<phase, players, sock, alive>>
      BY <2>3, CompleteTcpStep, CompleteUdpStep DEF Kernel
    <3> QED
      BY <3>1, OwnerUnchanged DEF Registry!registryVars
  <2>4. ASSUME NEW f \in Fds, HandleClose(f)
        PROVE  Registry!Next \/ UNCHANGED Registry!registryVars
    <3>1. sock[f] \in Clients /\ phase[sock[f]] = "gone"
      BY <2>4, HandleCloseStep
    <3> QED
      BY <2>1, <2>4, <3>1, FreeLeaves DEF HandleClose, Registry!Next
  <2>5. ASSUME NEW c \in Clients, Environment(c)
        PROVE  Registry!Next \/ UNCHANGED Registry!registryVars
    BY <2>1, <2>5, ClientRequests DEF Environment, serverVars
  <2>6. CASE UNCHANGED vars
    BY <2>6, OwnerUnchanged
    DEF vars, clientVars, serverVars, Registry!registryVars
  <2> QED
    BY <2>2, <2>3, <2>4, <2>5, <2>6, PacketRefines DEF Next, Worker
<1> QED
  BY <1>1, <1>2, Invariance, PTL DEF SafeSpec, RegistrySafety, Registry!Spec
=============================================================================
