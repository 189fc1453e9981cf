---------------------------- MODULE LServerProof ----------------------------
(***************************************************************************)
(* Proofs about LServer for every number of clients, descriptors and       *)
(* seats.  IInv is the inductive invariant: besides Lobby, of GameLemmas,  *)
(* and the properties of LServer it says what the packets still on their   *)
(* way may contain.                                                        *)
(***************************************************************************)
EXTENDS LServer, GameLemmas

(* What a packet on its way to the server may still ask for.               *)
PacketOK(c, k) ==
    LET pkt == tcp[c][k]
    IN  /\ pkt.type = Login =>
                /\ Len(tcp[c]) = 1
                /\ pkt.username = c
                /\ Seatless(c)
                /\ phase[c] \in {"waiting", "gone"}
        /\ pkt.type # Login =>
                /\ Owns(c, pkt.player_id)
                /\ phase[c] \notin NoIdYet
        /\ pkt.type = Logout =>
                /\ k = Len(tcp[c])
                /\ phase[c] \in {"left", "gone"}

Streams ==
    \A c \in Clients :
        /\ phase[c] \in {"start", "connected"} => tcp[c] = <<>>
        /\ \A k \in 1 .. Len(tcp[c]) : PacketOK(c, k)

(* The Move of a player is on its way or was recorded at its seat.         *)
Heard(c) ==
    phase[c] \in {"moved", "attacked", "used"} =>
        \/ \E d \in udp : d.src = c
        \/ players[my_id[c]].udp_addr # NoClient

Moves ==
    /\ \A d \in udp : my_id[d.src] = d.player_id
    /\ MoveAttribution
    /\ \A c \in Clients : Heard(c)

IInv ==
    /\ TypeOK
    /\ Lobby
    /\ Streams
    /\ Moves
    /\ EventsStayReady

-----------------------------------------------------------------------------
LEMMA InitIInv == Init => IInv
<1> SUFFICES ASSUME Init PROVE IInv
  OBVIOUS
<1> USE DEF Init, TableInit, ClientInit
<1>1. Lobby /\ MoveAttribution
  BY InitLobby
<1>2. TypeOK
  BY <1>1 DEF TypeOK, Lobby
<1>3. Streams /\ Moves /\ EventsStayReady
  BY <1>1 DEF Streams, Moves, Heard, EventsStayReady
<1> QED
  BY <1>1, <1>2, <1>3 DEF IInv

-----------------------------------------------------------------------------
(* Steps of the clients.  None makes a descriptor unreadable.              *)
LEMMA EventsKept ==
    ASSUME IInv, UNCHANGED serverVars, udp \subseteq udp',
           backlog # <<>> => backlog' # <<>>,
           \A d \in Clients : /\ tcp[d] # <<>> => tcp'[d] # <<>>
                              /\ phase[d] = "gone" => phase'[d] = "gone"
    PROVE  EventsStayReady'
BY DEF IInv, TypeOK, TableTypeOK, EventsStayReady, Readable, Gone, serverVars

LEMMA ConnectStep ==
    ASSUME IInv, NEW c \in Clients, Connect(c), UNCHANGED serverVars
    PROVE  IInv'
<1> USE DEF Connect, GoTo, serverVars
<1>1. Lobby'
  BY ConnectLobby DEF IInv
<1>2. /\ phase \in [Clients -> Phases] /\ phase[c] = "start"
      /\ phase' = [phase EXCEPT ![c] = "connected"]
      /\ backlog \in Seq(Clients) /\ backlog' = Append(backlog, c)
  BY DEF IInv, Lobby, ClientTypeOK
<1>3. backlog' # <<>>
  BY <1>2, Added
<1>4. Streams'
  BY <1>2, OwnerUnchanged DEF IInv, Streams, PacketOK, NoIdYet
<1>5. Moves' /\ TypeOK'
  BY <1>1, <1>2 DEF IInv, Moves, Heard, MoveAttribution, TypeOK, Lobby
<1>6. EventsStayReady'
  BY <1>2, <1>3, EventsKept
<1> QED
  BY <1>1, <1>4, <1>5, <1>6 DEF IInv

LEMMA CloseStep ==
    ASSUME IInv, NEW c \in Clients, CloseClient(c), UNCHANGED serverVars
    PROVE  IInv'
<1> USE DEF CloseClient, channelVars, GoTo, serverVars
<1>1. /\ phase \in [Clients -> Phases] /\ phase[c] = "left"
      /\ phase' = [phase EXCEPT ![c] = "gone"]
  BY DEF IInv, Lobby, ClientTypeOK
<1>2. Lobby'
  BY PhaseLobby DEF IInv, Phases, Lobby, ClientTypeOK
<1>3. Streams'
  BY <1>1, OwnerUnchanged DEF IInv, Streams, PacketOK, NoIdYet
<1>4. Moves' /\ TypeOK'
  BY <1>1, <1>2 DEF IInv, Moves, Heard, MoveAttribution, TypeOK, Lobby
<1>5. EventsStayReady'
  BY <1>1, EventsKept
<1> QED
  BY <1>2, <1>3, <1>4, <1>5 DEF IInv

LEMMA KillStep ==
    ASSUME IInv, NEW c \in Clients, KillClient(c), UNCHANGED serverVars
    PROVE  IInv'
<1> USE DEF KillClient, channelVars, serverVars
<1>1. /\ phase \in [Clients -> Phases] /\ phase[c] \notin {"start", "gone"}
      /\ phase' = [phase EXCEPT ![c] = "gone"]
  BY DEF IInv, Lobby, ClientTypeOK
<1>2. Lobby'
  BY KillLobby DEF IInv
<1>3. Streams'
  BY <1>1, OwnerUnchanged DEF IInv, Streams, PacketOK, NoIdYet
<1>4. Moves' /\ TypeOK'
  BY <1>1, <1>2 DEF IInv, Moves, Heard, MoveAttribution, TypeOK, Lobby
<1>5. EventsStayReady'
  BY <1>1, EventsKept
<1> QED
  BY <1>2, <1>3, <1>4, <1>5 DEF IInv

(* A client that takes a reply has nothing on its way to the server.       *)
LEMMA RecvIdStep ==
    ASSUME IInv, NEW c \in Clients, RecvId(c), UNCHANGED serverVars
    PROVE  IInv'
<1> USE DEF RecvId, channelVars, GoTo, serverVars
<1>1. /\ phase \in [Clients -> Phases] /\ phase[c] = "waiting"
      /\ phase' = [phase EXCEPT ![c] = "ready"]
      /\ reply[c] # NoPacket
      /\ my_id \in [Clients -> Nat \cup {NoId}] /\ my_id[c] = NoId
      /\ my_id' = [my_id EXCEPT ![c] = reply[c].player_id]
      /\ players \in [Slots -> Player]
      /\ udp \in SUBSET Datagram
  BY DEF IInv, Lobby, TableTypeOK, ClientTypeOK, Knowledge, NoIdYet
<1>2. Lobby'
  BY RecvIdLobby DEF IInv
<1>3. \A k \in 1 .. Len(tcp[c]) : FALSE
  BY <1>1 DEF IInv, Streams, PacketOK, NoIdYet, Lobby, Knowledge, Owns, Seatless
<1>4. Streams'
  BY <1>1, <1>3, OwnerUnchanged DEF IInv, Streams, PacketOK, NoIdYet
<1>5. Moves'
  BY <1>1 DEF IInv, Moves, Heard, MoveAttribution, Player, Datagram, Slots, NoId
<1>6. TypeOK'
  BY <1>2 DEF IInv, TypeOK, Lobby
<1>7. EventsStayReady'
  BY <1>1, EventsKept
<1> QED
  BY <1>2, <1>4, <1>5, <1>6, <1>7 DEF IInv

LEMMA MoveStep ==
    ASSUME IInv, NEW c \in Clients, SendMove(c), UNCHANGED serverVars
    PROVE  IInv'
<1> USE DEF SendMove, GoTo, serverVars
<1>1. /\ phase \in [Clients -> Phases] /\ phase[c] = "ready"
      /\ phase' = [phase EXCEPT ![c] = "moved"]
      /\ udp' = udp \cup {[player_id |-> my_id[c], src |-> c]}
      /\ my_id[c] \in Nat
  BY DEF IInv, Lobby, TableTypeOK, ClientTypeOK, Knowledge, Playing, Owns, Slots
<1>2. udp' \in SUBSET Datagram
  BY <1>1 DEF IInv, Lobby, ClientTypeOK, Datagram
<1>3. Lobby'
  BY <1>2, PhaseLobby DEF IInv, Phases, Playing, Lobby, ClientTypeOK
<1>4. Streams'
  BY <1>1, OwnerUnchanged DEF IInv, Streams, PacketOK, NoIdYet
<1>5. Moves'
  <2>1. PICK m \in udp' : m.src = c
    <3>1. PICK m : m = [player_id |-> my_id[c], src |-> c]
      OBVIOUS
    <3>2. m.src = c /\ m \in udp'
      BY <1>1, <3>1
    <3> QED
      BY <3>2
  <2>2. \A d \in Clients \ {c} : Heard(d)'
    BY <1>1 DEF IInv, Moves, Heard
  <2>3. Heard(c)'
    BY <2>1 DEF Heard
  <2> QED
    BY <1>1, <2>2, <2>3 DEF IInv, Moves, MoveAttribution
<1>6. TypeOK'
  BY <1>3 DEF IInv, TypeOK, Lobby
<1>7. EventsStayReady'
  BY <1>1, EventsKept
<1> QED
  BY <1>3, <1>4, <1>5, <1>6, <1>7 DEF IInv

(* The packet a client sends asks for what it may ask, and with it what it *)
(* sent before: a Login comes first and alone, a Logout last.              *)
LEMMA SendStep ==
    ASSUME IInv, NEW c \in Clients, NEW from, NEW to \in Phases,
           NEW type, NEW id, NEW name, GoTo(c, from, to),
           SendTcp(c, type, id, name), UNCHANGED serverVars, from # "ready",
           \/ /\ type = Login /\ id = 0 /\ name = c
              /\ from = "connected" /\ to = "waiting"
           \/ /\ type \in {Attack, Item, Logout}
              /\ id = my_id[c] /\ name = NoClient
              /\ from \in Playing
              /\ to \in Playing \/ to = "left"
              /\ type = Logout => to = "left"
    PROVE  IInv'
<1> USE DEF serverVars
<1>1. /\ phase \in [Clients -> Phases] /\ phase[c] = from
      /\ phase' = [phase EXCEPT ![c] = to]
      /\ tcp \in [Clients -> Seq(Packet)]
      /\ UNCHANGED <<my_id, reply, backlog, udp>>
  BY DEF IInv, Lobby, ClientTypeOK, GoTo, SendTcp
<1>2. \/ /\ type = Login /\ name = c /\ to = "waiting"
         /\ Seatless(c) /\ tcp[c] = <<>> /\ id \in Nat
      \/ /\ type \in {Attack, Item, Logout} /\ type # Login
         /\ Owns(c, id) /\ id \in Nat /\ from \in Playing
         /\ to \notin NoIdYet /\ (type = Logout => to = "left")
  <2>1. CASE type = Login
    BY <1>1, <2>1 DEF IInv, Lobby, Knowledge, Streams, Attack, Item, Logout, Login
  <2>2. CASE type \in {Attack, Item, Logout}
    BY <1>1, <2>2 DEF IInv, Lobby, Knowledge, Owns, Slots, Playing, NoIdYet,
       Login, Attack, Item, Logout
  <2> QED
    BY <2>1, <2>2
<1>3. PICK pkt \in Packet : pkt = [type |-> type, player_id |-> id, username |-> name]
  <2>1. [type |-> type, player_id |-> id, username |-> name] \in Packet
    BY <1>2 DEF Packet
  <2> QED
    BY <2>1
<1>4. /\ pkt.type = type /\ pkt.player_id = id /\ pkt.username = name
      /\ tcp' = [tcp EXCEPT ![c] = Append(tcp[c], pkt)]
  BY <1>3 DEF SendTcp
<1>5. /\ tcp' \in [Clients -> Seq(Packet)]
      /\ \A d \in Clients : tcp[d] # <<>> => tcp'[d] # <<>>
      /\ Len(tcp[c]) \in Nat
      /\ Len(tcp'[c]) = Len(tcp[c]) + 1
      /\ \A k \in 1 .. Len(tcp[c]) : tcp'[c][k] = tcp[c][k]
      /\ tcp'[c][Len(tcp[c]) + 1] = pkt
      /\ \A d \in Clients \ {c} : tcp'[d] = tcp[d]
  BY <1>1, <1>4, StreamGrows
<1>6. Lobby'
  BY <1>1, <1>5, PhaseLobby DEF IInv, Lobby, ClientTypeOK
<1>7. Streams'
  <2>1. \A d \in Clients \ {c} : /\ \A k \in 1 .. Len(tcp'[d]) : PacketOK(d, k)'
                                 /\ phase'[d] \in {"start", "connected"} => tcp'[d] = <<>>
    BY <1>1, <1>5, OwnerUnchanged DEF IInv, Streams, PacketOK
  <2>2. PICK n \in Nat : n = Len(tcp[c])
    BY <1>5
  <2>3. ASSUME NEW k \in 1 .. n PROVE PacketOK(c, k)'
    <3>1. PacketOK(c, k) /\ from \in Playing
      <4>1. tcp[c] # <<>>
        BY <2>2
      <4> QED
        BY <1>2, <2>2, <4>1 DEF IInv, Streams
    <3>2. tcp'[c][k] = tcp[c][k] /\ tcp[c][k].type # Login /\ tcp[c][k].type # Logout
      BY <1>1, <1>5, <2>2, <3>1 DEF PacketOK, Playing
    <3>3. to \notin NoIdYet
      BY <1>2, <3>1 DEF IInv, Streams, Login, Attack, Item, Logout, Playing, NoIdYet
    <3> QED
      BY <1>1, <3>1, <3>2, <3>3, OwnerUnchanged DEF PacketOK
  <2>4. PacketOK(c, n + 1)'
    <3>1. tcp'[c][n + 1] = pkt /\ Len(tcp'[c]) = n + 1
      BY <1>5, <2>2
    <3>2. CASE type = Login
      <4>1. n = 0 /\ Login # Logout /\ Seatless(c)
        BY <1>2, <2>2, <3>2 DEF Login, Attack, Item, Logout
      <4> QED
        BY <1>1, <1>2, <1>4, <3>1, <3>2, <4>1, OwnerUnchanged DEF PacketOK
    <3>3. CASE type # Login
      BY <1>1, <1>2, <1>4, <3>1, <3>3, OwnerUnchanged DEF PacketOK
    <3> QED
      BY <3>2, <3>3
  <2>5. \A k \in 1 .. Len(tcp'[c]) : PacketOK(c, k)'
    <3>1. \A k \in 1 .. n + 1 : k \in 1 .. n \/ k = n + 1
      OBVIOUS
    <3>2. Len(tcp'[c]) = n + 1
      BY <1>5, <2>2
    <3> QED
      BY <2>3, <2>4, <3>1, <3>2
  <2>6. phase'[c] \notin {"start", "connected"}
    BY <1>1, <1>2 DEF NoIdYet
  <2> QED
    BY <2>1, <2>5, <2>6 DEF Streams
<1>8. Moves' /\ TypeOK'
  <2>1. phase[c] \in {"moved", "attacked", "used"} \/ to \notin {"moved", "attacked", "used"}
    BY <1>1, <1>2 DEF NoIdYet, Playing
  <2>2. \A d \in Clients : Heard(d)'
    BY <1>1, <2>1 DEF IInv, Moves, Heard
  <2> QED
    BY <1>1, <1>6, <2>2 DEF IInv, Moves, MoveAttribution, TypeOK, Lobby
<1>9. EventsStayReady'
  <2>1. from # "gone"
    BY DEF Playing
  <2> QED
    BY <1>1, <1>5, <2>1, EventsKept
<1> QED
  BY <1>6, <1>7, <1>8, <1>9 DEF IInv

LEMMA ClientSends ==
    ASSUME IInv, NEW c \in Clients, UNCHANGED serverVars,
           \/ SendLogin(c) \/ SendAttack(c) \/ SendItem(c) \/ SendLogout(c)
    PROVE  IInv'
<1> USE DEF Phases, Playing
<1>1. CASE SendLogin(c)
  BY <1>1, SendStep DEF SendLogin
<1>2. CASE SendAttack(c)
  BY <1>2, SendStep DEF SendAttack, Attack, Logout
<1>3. CASE SendItem(c)
  BY <1>3, SendStep DEF SendItem, Item, Logout
<1>4. CASE SendLogout(c)
  BY <1>4, SendStep DEF SendLogout
<1> QED
  BY <1>1, <1>2, <1>3, <1>4

-----------------------------------------------------------------------------
(* Steps of the server.                                                    *)
LEMMA EpollWaitStep ==
    ASSUME IInv, EpollWait
    PROVE  IInv' /\ \A i \in Slots : Owner(i)' = Owner(i)
<1> USE DEF EpollWait, clientVars
<1>1. Lobby' /\ \A i \in Slots : Owner(i)' = Owner(i)
  <2>1. Handling /\ UNCHANGED <<players, reply, alive>>
    BY DEF Handling, IInv, Lobby, ClientTypeOK
  <2> QED
    BY <2>1, QuietLobby, OwnerUnchanged DEF IInv, Handling
<1>2. TypeOK' /\ Moves'
  BY <1>1 DEF IInv, TypeOK, Lobby, Moves, Heard, MoveAttribution
<1>3. EventsStayReady'
  BY TableAssumption, ServerAssumption DEF EventsStayReady, Readable, Gone
<1>4. Streams'
  BY OwnerUnchanged DEF IInv, Streams, PacketOK
<1> QED
  BY <1>1, <1>2, <1>3, <1>4 DEF IInv

LEMMA RecvUdpStep ==
    ASSUME IInv, RecvUdp
    PROVE  IInv' /\ \A i \in Slots : Owner(i)' = Owner(i)
<1> USE DEF RecvUdp
<1>1. PICK d \in udp : udp' = udp \ {d} /\ OnUdp(d)
  OBVIOUS
<1>2. /\ d \in Datagram /\ players \in [Slots -> Player] /\ udp' \in SUBSET Datagram
      /\ Handling /\ UNCHANGED <<reply, alive>> /\ alive \in BOOLEAN
  BY <1>1 DEF Handling, IInv, Lobby, TableTypeOK, ClientTypeOK
<1>3. /\ players' \in [Slots -> Player]
      /\ \A i \in Slots :
            /\ players'[i].is_active = players[i].is_active
            /\ players'[i].tcp_fd = players[i].tcp_fd
            /\ players'[i].username = players[i].username
            /\ \/ players'[i].udp_addr = players[i].udp_addr
               \/ i = d.player_id /\ players'[i].udp_addr = d.src
  BY <1>1, <1>2, UdpTable
<1>4. /\ Lobby' /\ \A i \in Slots : Owner(i)' = Owner(i)
      /\ \A c \in Clients : \A i : Owns(c, i)' <=> Owns(c, i)
      /\ \A c \in Clients : Seatless(c)' <=> Seatless(c)
  BY <1>2, <1>3, SeatsKept DEF IInv
<1>5. TypeOK'
  BY <1>4 DEF IInv, TypeOK, Lobby
<1>6. EventsStayReady'
  BY TableAssumption, ServerAssumption DEF IInv, EventsStayReady, Readable, Gone
<1>7. Moves'
  <2>1. \A e \in udp' : my_id'[e.src] = e.player_id
    BY <1>1 DEF IInv, Moves
  <2>2. MoveAttribution'
    BY <1>1, <1>3 DEF IInv, Moves, MoveAttribution
  <2>3. ASSUME NEW c \in Clients PROVE Heard(c)'
    <3>1. SUFFICES ASSUME phase[c] \in {"moved", "attacked", "used"}
                   PROVE  \/ \E e \in udp' : e.src = c
                          \/ players'[my_id[c]].udp_addr # NoClient
      BY DEF Heard
    <3>2. PICK i \in Slots : i = my_id[c] /\ players[i].is_active
      BY <3>1, ClientAssumption DEF IInv, Lobby, Knowledge, Playing, Owns, Owner
    <3>3. CASE d.src = c
      <4>1. d.player_id = i
        BY <1>1, <3>2, <3>3 DEF IInv, Moves
      <4>2. players' = [players EXCEPT ![i].udp_addr = d.src]
        BY <1>1, <3>2, <4>1 DEF OnUdp
      <4> QED
        BY <1>2, <3>2, <3>3, <4>2, ClientAssumption DEF Player
    <3>4. CASE d.src # c
      BY <1>1, <1>2, <1>3, <3>1, <3>2, <3>4, ClientAssumption
      DEF IInv, Moves, Heard, Datagram
    <3> QED
      BY <3>3, <3>4
  <2> QED
    BY <2>1, <2>2, <2>3 DEF Moves
<1>8. Streams'
  BY <1>4 DEF IInv, Streams, PacketOK
<1> QED
  BY <1>4, <1>5, <1>6, <1>7, <1>8 DEF IInv

LEMMA AcceptStep ==
    ASSUME IInv, Accept
    PROVE  IInv' /\ \A i \in Slots : Owner(i)' = Owner(i)
<1> USE DEF Accept
<1>1. CASE UNCHANGED <<sock, backlog>>
  <2>1. Handling /\ UNCHANGED <<players, reply, alive>>
    BY <1>1 DEF Handling, IInv, Lobby, ClientTypeOK
  <2>2. Lobby' /\ \A i \in Slots : Owner(i)' = Owner(i)
    BY <2>1, QuietLobby, OwnerUnchanged DEF IInv, Handling
  <2>3. TypeOK' /\ EventsStayReady' /\ Moves'
    BY <1>1, <2>2, TableAssumption, ServerAssumption
    DEF IInv, TypeOK, Lobby, EventsStayReady, Readable, Gone, Moves, Heard,
        MoveAttribution
  <2>4. Streams'
    BY <1>1, OwnerUnchanged DEF IInv, Streams, PacketOK
  <2> QED
    BY <2>2, <2>3, <2>4 DEF IInv
<1>2. ASSUME NEW f \in Fds,
             sock[f] = NoClient,
             sock' = [sock EXCEPT ![f] = Head(backlog)],
             backlog' = Tail(backlog)
      PROVE  IInv' /\ \A i \in Slots : Owner(i)' = Owner(i)
  <2>1. backlog # <<>> /\ sock \in [Fds -> Clients \cup {NoClient}]
    BY DEF IInv, Lobby, TableTypeOK, EventsStayReady
  <2>2. Lobby' /\ \A i \in Slots : Owner(i)' = Owner(i)
    BY <1>2, <2>1, AcceptLobby DEF IInv
  <2>3. \A c \in Clients : \A i : Owns(c, i)' <=> Owns(c, i)
    BY <2>2 DEF Owns
  <2>4. \A c \in Clients : Seatless(c)' <=> Seatless(c)
    BY <2>2 DEF Seatless
  <2>5. Streams'
    BY <2>3, <2>4 DEF IInv, Streams, PacketOK
  <2>6. TypeOK' /\ Moves'
    BY <2>2 DEF IInv, TypeOK, Lobby, Moves, Heard, MoveAttribution
  <2>7. EventsStayReady'
    BY <1>2, <2>1, TableAssumption, ServerAssumption
    DEF IInv, EventsStayReady, Readable, Gone
  <2> QED
    BY <2>2, <2>5, <2>6, <2>7 DEF IInv
<1> QED
  BY <1>1, <1>2

(* A handler that moves nobody's address leaves what was heard.            *)
LEMMA HeardKept ==
    ASSUME IInv, UNCHANGED <<phase, my_id, udp>>,
           \A i \in Slots : players'[i].udp_addr = players[i].udp_addr
    PROVE  \A c \in Clients : Heard(c)'
<1> SUFFICES ASSUME NEW c \in Clients,
                    phase[c] \in {"moved", "attacked", "used"}
             PROVE  Heard(c)'
  BY DEF Heard
<1>1. my_id[c] \in Slots
  BY DEF IInv, Lobby, Knowledge, Playing, Owns
<1> QED
  BY <1>1 DEF IInv, Moves, Heard

LEMMA HangUpStep ==
    ASSUME IInv, NEW fd \in Fds, HangUp(fd)
    PROVE  IInv' /\ sock[fd] \in Clients /\ phase[sock[fd]] = "gone"
<1> USE DEF HangUp, clientVars
<1>1. PICK c \in Clients : c = sock[fd] /\ tcp[c] = <<>> /\ phase[c] = "gone"
  BY DEF IInv, Lobby, TableTypeOK, Gone
<1>2. /\ sock \in [Fds -> Clients \cup {NoClient}]
      /\ sock' = [sock EXCEPT ![fd] = NoClient]
  BY DEF IInv, Lobby, TableTypeOK
<1>3. /\ Lobby'
      /\ \A i \in Slots : Owner(i)' = IF Owner(i) = c THEN NoClient ELSE Owner(i)
      /\ MoveAttribution'
      /\ \A i \in Slots : players'[i].udp_addr = players[i].udp_addr
  BY <1>1, FreeLobby DEF IInv, Moves
<1>4. \A d \in Clients \ {c} : \A i : Owns(d, i)' <=> Owns(d, i)
  BY <1>3, ClientAssumption DEF Owns
<1>5. \A d \in Clients : Seatless(d) => Seatless(d)'
  BY <1>3, ClientAssumption DEF Seatless
<1>6. Streams'
  <2>1. 1 .. Len(tcp[c]) = {}
    BY <1>1
  <2>2. \A d \in Clients \ {c} : \A k \in 1 .. Len(tcp[d]) : PacketOK(d, k)'
    BY <1>4, <1>5 DEF IInv, Streams, PacketOK
  <2> QED
    BY <2>1, <2>2, <1>1 DEF IInv, Streams
<1>7. Moves' /\ TypeOK'
  BY <1>3, HeardKept DEF IInv, Moves, TypeOK, Lobby
<1>8. EventsStayReady'
  BY <1>2, TableAssumption, ServerAssumption
  DEF IInv, EventsStayReady, Readable, Gone
<1> QED
  BY <1>1, <1>3, <1>6, <1>7, <1>8 DEF IInv

(* What the handler of one connection finds, and what it leaves in order   *)
(* whatever on_tcp() does with the packet.                                 *)
LEMMA RecvTcpFrame ==
    ASSUME IInv, NEW fd \in Fds, RecvTcp(fd)
    PROVE  /\ Handling /\ EventsStayReady' /\ batch' \in SUBSET (Fds \cup {Listen, Udp})
           /\ udp' = udp
           /\ \E c \in Clients, pkt \in Packet :
                /\ c = sock[fd] /\ OnTcp(fd, pkt)
                /\ PacketOK(c, 1) /\ pkt = tcp[c][1]
                /\ phase[c] \notin {"start", "connected"}
                /\ Len(tcp[c]) \in Nat /\ Len(tcp'[c]) = Len(tcp[c]) - 1
                /\ \A k \in 1 .. Len(tcp'[c]) : /\ k + 1 \in 1 .. Len(tcp[c])
                                                /\ tcp'[c][k] = tcp[c][k + 1]
                /\ \A d \in Clients \ {c} : tcp'[d] = tcp[d]
<1>1. PICK c \in Clients : c = sock[fd]
  BY DEF RecvTcp, IInv, Lobby, TableTypeOK
<1>2. /\ tcp \in [Clients -> Seq(Packet)] /\ tcp[c] # <<>>
      /\ tcp' = [tcp EXCEPT ![c] = Tail(@)]
      /\ OnTcp(fd, Head(tcp[c]))
  BY <1>1 DEF RecvTcp, IInv, Lobby, ClientTypeOK
<1>3. /\ tcp' \in [Clients -> Seq(Packet)]
      /\ Head(tcp[c]) = tcp[c][1] /\ Head(tcp[c]) \in Packet
      /\ 1 \in 1 .. Len(tcp[c])
      /\ Len(tcp[c]) \in Nat /\ Len(tcp'[c]) = Len(tcp[c]) - 1
      /\ \A k \in 1 .. Len(tcp'[c]) : /\ k + 1 \in 1 .. Len(tcp[c])
                                      /\ tcp'[c][k] = tcp[c][k + 1]
      /\ \A d \in Clients \ {c} : tcp'[d] = tcp[d]
  BY <1>2, StreamShrinks
<1>4. \A g \in Fds \ {fd} : sock[g] # NoClient => tcp'[sock[g]] = tcp[sock[g]]
  BY <1>1, <1>3 DEF IInv, Lobby, TableTypeOK, Connections
<1>5. EventsStayReady'
  BY <1>4, TableAssumption, ServerAssumption
  DEF RecvTcp, IInv, EventsStayReady, Readable, Gone
<1>6. PacketOK(c, 1) /\ phase[c] \notin {"start", "connected"}
  BY <1>2, <1>3 DEF IInv, Streams
<1>7. /\ Handling /\ udp' = udp
      /\ batch' \in SUBSET (Fds \cup {Listen, Udp})
  BY <1>3 DEF Handling, RecvTcp, IInv, TypeOK, Lobby, ClientTypeOK
<1> QED
  BY <1>1, <1>2, <1>3, <1>5, <1>6, <1>7

(* One packet, whatever it is: what is left of the stream stays in order.  *)
LEMMA RecvTcpStep ==
    ASSUME IInv, NEW fd \in Fds, RecvTcp(fd)
    PROVE  IInv'
<1>1. PICK c \in Clients, pkt \in Packet :
        /\ c = sock[fd] /\ OnTcp(fd, pkt)
        /\ PacketOK(c, 1) /\ pkt = tcp[c][1]
        /\ phase[c] \notin {"start", "connected"}
        /\ Len(tcp[c]) \in Nat /\ Len(tcp'[c]) = Len(tcp[c]) - 1
        /\ \A k \in 1 .. Len(tcp'[c]) : /\ k + 1 \in 1 .. Len(tcp[c])
                                        /\ tcp'[c][k] = tcp[c][k + 1]
        /\ \A d \in Clients \ {c} : tcp'[d] = tcp[d]
  BY RecvTcpFrame
<1>2. /\ Handling /\ EventsStayReady'
      /\ batch' \in SUBSET (Fds \cup {Listen, Udp})
      /\ UNCHANGED <<phase, my_id, udp, sock>>
  BY RecvTcpFrame DEF Handling
<1> DEFINE Rest == \A k \in 1 .. Len(tcp'[c]) : PacketOK(c, k)'
<1>3. ASSUME Lobby', MoveAttribution', Rest,
             \A i \in Slots : players'[i].udp_addr = players[i].udp_addr,
             \A d \in Clients \ {c} : \A i : Owns(d, i)' <=> Owns(d, i),
             \A d \in Clients \ {c} : Seatless(d) => Seatless(d)'
      PROVE  IInv'
  <2>1. \A d \in Clients \ {c} :
            /\ phase'[d] \in {"start", "connected"} => tcp'[d] = <<>>
            /\ \A k \in 1 .. Len(tcp'[d]) : PacketOK(d, k)'
    BY <1>1, <1>2, <1>3 DEF IInv, Streams, PacketOK
  <2>2. Streams'
    BY <1>1, <1>2, <1>3, <2>1 DEF Streams
  <2>3. TypeOK' /\ Moves'
    BY <1>2, <1>3, HeardKept DEF IInv, TypeOK, Lobby, Moves
  <2> QED
    BY <1>2, <1>3, <2>2, <2>3 DEF IInv
<1>4. CASE /\ UNCHANGED players
           /\ \/ UNCHANGED <<reply, alive>>
              \/ \E p \in Packet : Send(BroadcastFds(players), p)
  <2>1. Lobby'
    BY <1>2, <1>4, QuietLobby DEF IInv
  <2>2. MoveAttribution'
    BY <1>2, <1>4 DEF IInv, Moves, MoveAttribution
  <2>3. Rest
    <3> SUFFICES ASSUME NEW k \in 1 .. Len(tcp'[c]) PROVE PacketOK(c, k)'
      OBVIOUS
    <3>1. PacketOK(c, k + 1)
      BY <1>1 DEF IInv, Streams
    <3>2. /\ k + 1 = Len(tcp[c]) => k = Len(tcp'[c])
          /\ Len(tcp[c]) # 1
      BY <1>1
    <3>3. tcp'[c][k] = tcp[c][k + 1]
      BY <1>1
    <3> QED
      BY <3>1, <3>2, <3>3, <1>2, <1>4, OwnerUnchanged DEF PacketOK
  <2> QED
    BY <1>2, <1>3, <1>4, <2>1, <2>2, <2>3, OwnerUnchanged
<1>5. ASSUME pkt.type = Logout \/ pkt.type = Login PROVE Rest
  <2>1. Len(tcp[c]) = 1
    BY <1>1, <1>5 DEF PacketOK
  <2> QED
    BY <1>1, <2>1
<1>6. CASE pkt.type = Login /\ OnLogin(fd, pkt)
  <2>1. CASE FreeSlots = {} /\ UNCHANGED <<players, reply, alive>>
    BY <2>1, <1>4
  <2>2. ASSUME NEW i \in FreeSlots,
               players' = Allocated(i, fd, pkt.username),
               Send({fd} \cup BroadcastFds(players'), [pkt EXCEPT !.player_id = i])
        PROVE  IInv'
    <3>1. pkt.username = c /\ Seatless(c) /\ phase[c] \in {"waiting", "gone"}
      BY <1>1, <1>6 DEF PacketOK
    <3>2. /\ Lobby' /\ MoveAttribution'
          /\ \A j \in Slots : players'[j].udp_addr = players[j].udp_addr
          /\ \A d \in Clients \ {c} : \A j : Owns(d, j)' <=> Owns(d, j)
          /\ \A d \in Clients \ {c} : Seatless(d)' <=> Seatless(d)
      BY <1>1, <1>2, <2>2, <3>1, LoginLobby DEF IInv, Moves
    <3> QED
      BY <1>3, <1>5, <1>6, <3>2
  <2> QED
    BY <1>6, <2>1, <2>2 DEF OnLogin
<1>7. CASE pkt.type = Logout /\ OnLogout(pkt)
  <2>1. Owns(c, pkt.player_id) /\ phase[c] \in {"left", "gone"}
    BY <1>1, <1>7 DEF PacketOK, Login, Logout
  <2>2. /\ Lobby' /\ MoveAttribution'
        /\ \A j \in Slots : players'[j].udp_addr = players[j].udp_addr
        /\ \A d \in Clients \ {c} : \A i : Owns(d, i)' <=> Owns(d, i)
        /\ \A d \in Clients : Seatless(d) => Seatless(d)'
    BY <1>2, <1>7, <2>1, LogoutLobby DEF IInv, Moves
  <2> QED
    BY <1>3, <1>5, <1>7, <2>2
<1>8. CASE OnRelay(pkt)
  BY <1>4, <1>8 DEF OnRelay
<1> QED
  BY <1>1, <1>6, <1>7, <1>8 DEF OnTcp

-----------------------------------------------------------------------------
LEMMA NextIInv == IInv /\ [Next]_vars => IInv'
<1> SUFFICES ASSUME IInv, [Next]_vars PROVE IInv'
  OBVIOUS
<1>1. CASE Server
  BY <1>1, EpollWaitStep, AcceptStep, RecvUdpStep, RecvTcpStep, HangUpStep
  DEF Server
<1>2. ASSUME NEW c \in Clients, Environment(c) PROVE IInv'
  BY <1>2, ConnectStep, ClientSends, RecvIdStep, MoveStep, CloseStep
  DEF Environment, ClientStep
<1>3. ASSUME NEW c \in Clients, Kill(c) PROVE IInv'
  BY <1>3, KillStep DEF Kill
<1>4. CASE UNCHANGED vars
  <2>1. UNCHANGED <<players, sock>>
    BY <1>4 DEF vars, serverVars
  <2>2. TypeOK' /\ Lobby' /\ Moves' /\ EventsStayReady'
    BY <1>4, <2>1, OwnerUnchanged
    DEF vars, clientVars, serverVars, IInv, TypeOK, TableTypeOK, ClientTypeOK,
        Lobby, Connections, Knowledge, Moves, Heard, MoveAttribution,
        EventsStayReady, Readable, Gone
  <2>3. Streams'
    BY <1>4, <2>1, OwnerUnchanged DEF vars, clientVars, IInv, Streams, PacketOK
  <2> QED
    BY <2>2, <2>3 DEF IInv
<1> QED
  BY <1>1, <1>2, <1>3, <1>4 DEF Next

(* The inductive invariant holds in every state of the server.             *)
THEOREM Invariance == SafeSpec => []IInv
<1>1. Init => IInv
  BY InitIInv
<1>2. IInv /\ [Next]_vars => IInv'
  BY NextIInv
<1> QED
  BY <1>1, <1>2, PTL DEF SafeSpec

(* Every variable keeps its type, for all constants.                       *)
THEOREM TypeCorrect == SafeSpec => []TypeOK
<1>1. IInv => TypeOK
  BY DEF IInv
<1> QED
  BY <1>1, Invariance, PTL

(* The player table and the open descriptors agree in every history.       *)
THEOREM TableCorrect == SafeSpec => []SeatsMatchConnections
<1>1. IInv => SeatsMatchConnections
  BY DEF IInv, Lobby
<1> QED
  BY <1>1, Invariance, PTL

(* The id a client plays under is that of a seat kept for it, and its      *)
(* login response is its own, whatever is broadcast meanwhile.             *)
THEOREM IdsAgree == SafeSpec => []IdAgreement
<1>1. IInv => IdAgreement
  BY DEF IInv, Lobby, IdAgreement, Knowledge
<1> QED
  BY <1>1, Invariance, PTL

(* No event of a batch is stale when it is handled: the loop never blocks  *)
(* outside epoll_wait on a descriptor with nothing to read.                *)
THEOREM EventsReady == SafeSpec => []EventsStayReady
<1>1. IInv => EventsStayReady
  BY DEF IInv
<1> QED
  BY <1>1, Invariance, PTL

(* A late Move can overwrite only the position at the seat its sender has  *)
(* left, never that of another while the sender still plays; and the Move  *)
(* of a player that has arrived was recorded.                              *)
THEOREM MovesAreKept == SafeSpec => []MovesKept
<1>1. IInv => MovesKept
  BY KeptApart DEF IInv, Moves, Heard, MovesKept
<1> QED
  BY <1>1, Invariance, PTL

-----------------------------------------------------------------------------
(* LServer implements PlayerRegistry.                                      *)
LEMMA PacketRefines ==
    ASSUME IInv, alive, NEW fd \in Fds, RecvTcp(fd)
    PROVE  Registry!Next \/ UNCHANGED Registry!registryVars
<1>1. PICK c \in Clients, pkt \in Packet :
        c = sock[fd] /\ OnTcp(fd, pkt) /\ PacketOK(c, 1) /\ pkt = tcp[c][1]
  BY RecvTcpFrame
<1>2. Handling /\ Lobby
  BY RecvTcpFrame DEF IInv
<1>3. CASE /\ UNCHANGED players
           /\ \/ UNCHANGED <<reply, alive>>
              \/ \E p \in Packet : Send(BroadcastFds(players), p)
  BY <1>2, <1>3, QuietRefines DEF Registry!Next
<1>4. CASE pkt.type = Login /\ OnLogin(fd, pkt)
  <2>1. pkt.username = c /\ Seatless(c) /\ phase[c] \in {"waiting", "gone"}
    BY <1>1, <1>4 DEF PacketOK
  <2>2. ASSUME NEW i \in FreeSlots,
               players' = Allocated(i, fd, pkt.username),
               Send({fd} \cup BroadcastFds(players'), [pkt EXCEPT !.player_id = i])
        PROVE  Registry!Next
    BY <1>1, <1>2, <2>1, <2>2, LoginJoins DEF Registry!Next, FreeSlots
  <2> QED
    BY <1>3, <1>4, <2>2 DEF OnLogin
<1>5. CASE pkt.type = Logout /\ OnLogout(pkt)
  <2>1. Owns(c, pkt.player_id) /\ phase[c] \in {"left", "gone"}
    BY <1>1, <1>5 DEF PacketOK, Login, Logout
  <2> QED
    BY <1>2, <1>5, <2>1, LogoutLeaves DEF Registry!Next
<1>6. CASE OnRelay(pkt)
  BY <1>3, <1>6 DEF OnRelay
<1> QED
  BY <1>1, <1>4, <1>5, <1>6 DEF OnTcp

LEMMA ServerRefines ==
    ASSUME IInv, Server
    PROVE  Registry!Next \/ UNCHANGED Registry!registryVars
<1>1. alive
  BY DEF Server
<1>2. CASE EpollWait \/ Accept \/ RecvUdp
  <2>1. \A i \in Slots : Owner(i)' = Owner(i)
    BY <1>2, EpollWaitStep, AcceptStep, RecvUdpStep
  <2> QED
    BY <1>2, <2>1 DEF EpollWait, clientVars, Accept, RecvUdp, Registry!registryVars
<1>3. ASSUME NEW fd \in Fds, HangUp(fd)
      PROVE  Registry!Next \/ UNCHANGED Registry!registryVars
  <2>1. sock[fd] \in Clients /\ phase[sock[fd]] = "gone"
    BY <1>3, HangUpStep
  <2> QED
    BY <1>1, <1>3, <2>1, FreeLeaves DEF IInv, HangUp, Registry!Next
<1> QED
  BY <1>1, <1>2, <1>3, PacketRefines DEF Server

(* Whatever clients and kernel do, seats are given, kept and taken back as *)
(* the registry promises.                                                  *)
THEOREM Implements == SafeSpec => RegistrySafety
<1>1. Init => Registry!Init
  BY InitRegistry DEF Init
<1>2. IInv /\ [Next]_vars => [Registry!Next]_Registry!registryVars
  <2> SUFFICES ASSUME IInv, [Next]_vars
               PROVE  Registry!Next \/ UNCHANGED Registry!registryVars
    OBVIOUS
  <2>1. CASE Next
    BY <2>1, ServerRefines, ClientRequests
    DEF Next, Environment, Kill, serverVars, IInv
  <2>2. CASE UNCHANGED vars
    BY <2>2, OwnerUnchanged
    DEF vars, clientVars, serverVars, Registry!registryVars
  <2> QED
    BY <2>1, <2>2
<1> QED
  BY <1>1, <1>2, Invariance, PTL DEF SafeSpec, RegistrySafety, Registry!Spec
=============================================================================
