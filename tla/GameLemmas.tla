----------------------------- MODULE GameLemmas -----------------------------
(***************************************************************************)
(* What the proofs about LServer and WServer share.  Lobby is the part of  *)
(* their inductive invariants that speaks of clients, connections and the  *)
(* player table only; a lemma per client step and per packet handler shows *)
(* that it is kept.  How packets reach the handlers is left to the proofs  *)
(* of the two servers.                                                     *)
(***************************************************************************)
EXTENDS GameTable, SequenceTheorems, TLAPS

(* The first entry of a sequence and the rest.                              *)
LEMMA Taken ==
    ASSUME NEW S, NEW s \in Seq(S), s # <<>>
    PROVE  /\ Head(s) = s[1] /\ Head(s) \in S
           /\ Tail(s) \in Seq(S)
           /\ Len(s) \in Nat /\ 1 \in 1 .. Len(s)
           /\ Len(Tail(s)) = Len(s) - 1
           /\ \A k \in 1 .. Len(Tail(s)) : /\ k + 1 \in 1 .. Len(s)
                                           /\ Tail(s)[k] = s[k + 1]
BY HeadTailProperties, EmptySeq, LenProperties

(* An entry at the end of a sequence.                                       *)
LEMMA Added ==
    ASSUME NEW S, NEW s \in Seq(S), NEW e \in S
    PROVE  /\ Append(s, e) \in Seq(S) /\ Append(s, e) # <<>>
           /\ Len(s) \in Nat
           /\ Len(Append(s, e)) = Len(s) + 1
           /\ \A k \in 1 .. Len(s) : Append(s, e)[k] = s[k]
           /\ Append(s, e)[Len(s) + 1] = e
BY AppendProperties, LenProperties

-----------------------------------------------------------------------------
(* A client has one connection, accepted or queued, once it connected.     *)
Connections ==
    /\ \A f, g \in Fds : sock[f] # NoClient /\ sock[f] = sock[g] => f = g
    /\ \A a, b \in 1 .. Len(backlog) : backlog[a] = backlog[b] => a = b
    /\ \A f \in Fds : \A a \in 1 .. Len(backlog) : sock[f] # backlog[a]
    /\ \A c \in Clients : phase[c] = "start" =>
            /\ \A f \in Fds : sock[f] # c
            /\ \A a \in 1 .. Len(backlog) : backlog[a] # c

Seatless(c) == \A i \in Slots : Owner(i) # c

NoIdYet == {"start", "connected", "waiting"}

(* What a client knows and what the server holds for it.                   *)
Knowledge(c) ==
    /\ phase[c] \in NoIdYet => my_id[c] = NoId
    /\ phase[c] \in {"start", "connected"} => Seatless(c)
    /\ phase[c] # "waiting" => reply[c] = NoPacket
    /\ phase[c] = "waiting" /\ reply[c] = NoPacket => Seatless(c)
    /\ phase[c] = "waiting" /\ reply[c] # NoPacket =>
            reply[c].username = c /\ Owns(c, reply[c].player_id)
    /\ phase[c] \in Playing => Owns(c, my_id[c])

(* A Move is recorded only at a seat that was given to its sender.         *)
MoveAttribution ==
    \A i \in Slots : players[i].udp_addr # NoClient =>
                          my_id[players[i].udp_addr] = i

Lobby ==
    /\ ClientTypeOK /\ TableTypeOK
    /\ Connections
    /\ SeatsMatchConnections
    /\ \A c \in Clients : Knowledge(c)

-----------------------------------------------------------------------------
(* A seat that holds the address of one who plays is the seat of that one. *)
LEMMA KeptApart ==
    ASSUME Lobby, MoveAttribution
    PROVE  PositionsKeptApart
<1> SUFFICES ASSUME NEW i \in Slots, NEW d, d = players[i].udp_addr,
                    Owner(i) # NoClient, d \notin {NoClient, Owner(i)}
             PROVE  phase[d] \in {"left", "gone"}
  BY DEF PositionsKeptApart
<1>1. d \in Clients /\ my_id[d] = i
  BY DEF Lobby, TableTypeOK, Player, MoveAttribution
<1>2. phase[d] \in Phases /\ Knowledge(d)
  BY <1>1 DEF Lobby, ClientTypeOK
<1>3. phase[d] \notin Playing \cup NoIdYet
  BY <1>1, <1>2 DEF Knowledge, Owns, Slots, NoId
<1> QED
  BY <1>1, <1>2, <1>3 DEF Phases, Playing, NoIdYet

LEMMA InitLobby ==
    ASSUME ClientInit, TableInit
    PROVE  Lobby /\ MoveAttribution /\ \A c \in Clients : Seatless(c)
<1> USE DEF TableInit, ClientInit
<1>1. ClientTypeOK /\ TableTypeOK
  BY ClientAssumption, TableAssumption
  DEF TableTypeOK, ClientTypeOK, Phases, Player, NoId
<1>2. \A i \in Slots : Owner(i) = NoClient
  BY DEF Owner
<1>3. \A c \in Clients : Seatless(c)
  BY <1>2, ClientAssumption DEF Seatless
<1>4. Connections
  BY ClientAssumption DEF Connections
<1>5. SeatsMatchConnections /\ MoveAttribution
  BY DEF SeatsMatchConnections, MoveAttribution
<1>6. \A c \in Clients : Knowledge(c)
  BY <1>3 DEF Knowledge, NoIdYet, Playing
<1> QED
  BY <1>1, <1>3, <1>4, <1>5, <1>6 DEF Lobby

LEMMA OwnerUnchanged ==
    ASSUME UNCHANGED <<players, sock>>
    PROVE  /\ \A i : Owner(i)' = Owner(i)
           /\ \A c, i : Owns(c, i)' <=> Owns(c, i)
           /\ \A c : Seatless(c)' <=> Seatless(c)
           /\ SeatsMatchConnections' <=> SeatsMatchConnections
BY DEF Owner, Owns, Seatless, SeatsMatchConnections

-----------------------------------------------------------------------------
(* Steps of the clients: the server's tables stand still.                  *)

LEMMA ConnectLobby ==
    ASSUME Lobby, NEW c \in Clients, Connect(c), UNCHANGED <<players, sock, alive>>
    PROVE  Lobby'
<1> USE DEF Connect, GoTo
<1>1. /\ phase \in [Clients -> Phases] /\ backlog \in Seq(Clients)
      /\ phase' = [phase EXCEPT ![c] = "connected"] /\ phase[c] = "start"
      /\ backlog' = Append(backlog, c)
  BY DEF Lobby, ClientTypeOK
<1>2. ClientTypeOK' /\ TableTypeOK'
  BY <1>1 DEF Lobby, TableTypeOK, ClientTypeOK, Phases
<1>3. /\ Len(backlog') = Len(backlog) + 1
      /\ \A a \in 1 .. Len(backlog) : backlog'[a] = backlog[a]
      /\ backlog'[Len(backlog) + 1] = c
      /\ Len(backlog) \in Nat
  BY <1>1, Added
<1>4. Connections'
  BY <1>1, <1>3 DEF Lobby, Connections
<1>5. SeatsMatchConnections'
  BY OwnerUnchanged DEF Lobby
<1>6. \A d \in Clients : Knowledge(d)'
  BY <1>1, OwnerUnchanged DEF Lobby, Knowledge, NoIdYet, Playing
<1> QED
  BY <1>2, <1>4, <1>5, <1>6 DEF Lobby

(* A step that goes from one phase to a later one and leaves ids, replies  *)
(* and the queue of connections alone.                                     *)
LEMMA PhaseLobby ==
    ASSUME Lobby, NEW c \in Clients, NEW from, NEW to \in Phases,
           GoTo(c, from, to),
           \/ from = "connected" /\ to = "waiting"
           \/ from \in Playing /\ to \in Playing \cup {"left"}
           \/ from = "left" /\ to = "gone",
           UNCHANGED <<my_id, reply, backlog, players, sock, alive>>,
           tcp' \in [Clients -> Seq(Packet)], udp' \in SUBSET Datagram
    PROVE  Lobby'
<1>1. /\ phase \in [Clients -> Phases] /\ phase[c] = from
      /\ phase' = [phase EXCEPT ![c] = to]
  BY DEF Lobby, ClientTypeOK, GoTo
<1>2. ClientTypeOK' /\ TableTypeOK'
  BY <1>1 DEF Lobby, TableTypeOK, ClientTypeOK
<1>3. Connections'
  BY <1>1 DEF Lobby, Connections, Playing
<1>4. SeatsMatchConnections'
  BY OwnerUnchanged DEF Lobby
<1>5. \A d \in Clients \ {c} : Knowledge(d)'
  BY <1>1, OwnerUnchanged DEF Lobby, Knowledge
<1>6. Knowledge(c)'
  BY <1>1, OwnerUnchanged DEF Lobby, Knowledge, NoIdYet, Playing
<1> QED
  BY <1>2, <1>3, <1>4, <1>5, <1>6 DEF Lobby

LEMMA RecvIdLobby ==
    ASSUME Lobby, NEW c \in Clients, RecvId(c), UNCHANGED <<players, sock, alive>>
    PROVE  Lobby' /\ Owns(c, my_id'[c]) /\ my_id'[c] \in Nat
<1> USE DEF RecvId, channelVars, GoTo
<1>1. /\ phase \in [Clients -> Phases] /\ phase[c] = "waiting"
      /\ phase' = [phase EXCEPT ![c] = "ready"]
      /\ reply \in [Clients -> Packet \cup {NoPacket}]
      /\ reply[c] # NoPacket /\ reply[c].player_id \in Nat
      /\ reply' = [reply EXCEPT ![c] = NoPacket]
      /\ my_id \in [Clients -> Nat \cup {NoId}]
      /\ my_id' = [my_id EXCEPT ![c] = reply[c].player_id]
  BY DEF Lobby, ClientTypeOK, Packet
<1>2. ClientTypeOK' /\ TableTypeOK'
  BY <1>1 DEF Lobby, TableTypeOK, ClientTypeOK, Phases
<1>3. Connections'
  BY <1>1 DEF Lobby, Connections
<1>4. SeatsMatchConnections'
  BY OwnerUnchanged DEF Lobby
<1>5. \A d \in Clients : Knowledge(d)'
  BY <1>1, OwnerUnchanged DEF Lobby, Knowledge, NoIdYet, Playing
<1>6. Owns(c, my_id'[c]) /\ my_id'[c] \in Nat
  BY <1>1 DEF Lobby, Knowledge
<1> QED
  BY <1>2, <1>3, <1>4, <1>5, <1>6 DEF Lobby

LEMMA KillLobby ==
    ASSUME Lobby, NEW c \in Clients, KillClient(c),
           UNCHANGED <<players, sock, alive>>
    PROVE  Lobby'
<1> USE DEF KillClient, channelVars, GoTo
<1>1. /\ phase \in [Clients -> Phases] /\ phase[c] \notin {"start", "gone"}
      /\ phase' = [phase EXCEPT ![c] = "gone"]
      /\ reply \in [Clients -> Packet \cup {NoPacket}]
      /\ reply' = [reply EXCEPT ![c] = NoPacket]
  BY DEF Lobby, ClientTypeOK
<1>2. ClientTypeOK' /\ TableTypeOK'
  BY <1>1 DEF Lobby, TableTypeOK, ClientTypeOK, Phases
<1>3. Connections'
  BY <1>1 DEF Lobby, Connections
<1>4. SeatsMatchConnections'
  BY OwnerUnchanged DEF Lobby
<1>5. \A d \in Clients : Knowledge(d)'
  BY <1>1, OwnerUnchanged DEF Lobby, Knowledge, NoIdYet, Playing
<1> QED
  BY <1>2, <1>3, <1>4, <1>5 DEF Lobby

(* send_tcp() of a well-formed packet.                                     *)
LEMMA StreamGrows ==
    ASSUME NEW c \in Clients, NEW pkt \in Packet,
           tcp \in [Clients -> Seq(Packet)],
           tcp' = [tcp EXCEPT ![c] = Append(tcp[c], pkt)]
    PROVE  /\ tcp' \in [Clients -> Seq(Packet)]
           /\ \A d \in Clients : tcp[d] # <<>> => tcp'[d] # <<>>
           /\ Len(tcp[c]) \in Nat
           /\ Len(tcp'[c]) = Len(tcp[c]) + 1
           /\ \A k \in 1 .. Len(tcp[c]) : tcp'[c][k] = tcp[c][k]
           /\ tcp'[c][Len(tcp[c]) + 1] = pkt
           /\ \A d \in Clients \ {c} : tcp'[d] = tcp[d]
<1>1. PICK s \in Seq(Packet) : s = tcp[c]
  OBVIOUS
<1>2. /\ Append(s, pkt) \in Seq(Packet) /\ Append(s, pkt) # <<>>
      /\ Len(s) \in Nat
      /\ Len(Append(s, pkt)) = Len(s) + 1
      /\ \A k \in 1 .. Len(s) : Append(s, pkt)[k] = s[k]
      /\ Append(s, pkt)[Len(s) + 1] = pkt
  BY Added
<1>3. tcp'[c] = Append(s, pkt) /\ \A d \in Clients \ {c} : tcp'[d] = tcp[d]
  BY <1>1
<1>4. tcp' \in [Clients -> Seq(Packet)]
  BY <1>1, <1>2
<1> QED
  BY <1>1, <1>2, <1>3, <1>4

(* recv() of one packet from the stream of client c.                       *)
LEMMA StreamShrinks ==
    ASSUME tcp \in [Clients -> Seq(Packet)], NEW c \in Clients,
           tcp[c] # <<>>, tcp' = [tcp EXCEPT ![c] = Tail(@)]
    PROVE  /\ tcp' \in [Clients -> Seq(Packet)]
           /\ Head(tcp[c]) = tcp[c][1] /\ Head(tcp[c]) \in Packet
           /\ 1 \in 1 .. Len(tcp[c])
           /\ Len(tcp[c]) \in Nat /\ Len(tcp'[c]) = Len(tcp[c]) - 1
           /\ \A k \in 1 .. Len(tcp'[c]) : /\ k + 1 \in 1 .. Len(tcp[c])
                                           /\ tcp'[c][k] = tcp[c][k + 1]
           /\ \A d \in Clients \ {c} : tcp'[d] = tcp[d]
<1>1. PICK s \in Seq(Packet) : s = tcp[c] /\ s # <<>>
  OBVIOUS
<1>2. /\ Head(s) = s[1] /\ Head(s) \in Packet
      /\ Tail(s) \in Seq(Packet)
      /\ Len(s) \in Nat /\ 1 \in 1 .. Len(s)
      /\ Len(Tail(s)) = Len(s) - 1
      /\ \A k \in 1 .. Len(Tail(s)) : /\ k + 1 \in 1 .. Len(s)
                                      /\ Tail(s)[k] = s[k + 1]
  BY <1>1, Taken
<1>3. /\ tcp'[c] = Tail(s) /\ tcp' \in [Clients -> Seq(Packet)]
      /\ \A d \in Clients \ {c} : tcp'[d] = tcp[d]
  BY <1>1, <1>2
<1> QED
  BY <1>1, <1>2, <1>3

-----------------------------------------------------------------------------
(* What free_player(), Logout and alloc_player() do to the table.          *)
LEMMA ClearSlot ==
    ASSUME players \in [Slots -> Player], NEW i \in Slots,
           players' = Cleared(i)
    PROVE  /\ players' \in [Slots -> Player]
           /\ \A j \in Slots \ {i} : players'[j] = players[j]
           /\ players'[i].udp_addr = players[i].udp_addr
           /\ players'[i].username = players[i].username
           /\ ~players'[i].is_active /\ players'[i].tcp_fd = NoFd
<1> DEFINE p == [players[i] EXCEPT !.is_active = FALSE, !.tcp_fd = NoFd]
<1>1. /\ p \in Player
      /\ p.udp_addr = players[i].udp_addr /\ p.username = players[i].username
      /\ ~p.is_active /\ p.tcp_fd = NoFd
  BY DEF Player
<1>2. players' = [players EXCEPT ![i] = p]
  BY DEF Cleared
<1> HIDE DEF p
<1> QED
  BY <1>1, <1>2

LEMMA AllocSlot ==
    ASSUME players \in [Slots -> Player], NEW i \in Slots, NEW fd \in Fds,
           NEW name \in Clients,
           players' = Allocated(i, fd, name)
    PROVE  /\ players' \in [Slots -> Player]
           /\ \A j \in Slots \ {i} : players'[j] = players[j]
           /\ players'[i].udp_addr = players[i].udp_addr
           /\ players'[i].username = name
           /\ players'[i].is_active /\ players'[i].tcp_fd = fd
<1> DEFINE p == [players[i] EXCEPT !.is_active = TRUE, !.tcp_fd = fd,
                                   !.username = name]
<1>1. /\ p \in Player
      /\ p.udp_addr = players[i].udp_addr /\ p.username = name
      /\ p.is_active /\ p.tcp_fd = fd
  BY DEF Player
<1>2. players' = [players EXCEPT ![i] = p]
  BY DEF Allocated
<1> HIDE DEF p
<1> QED
  BY <1>1, <1>2

(* accept() gives a connection to a descriptor that was not in use.        *)
LEMMA AcceptLobby ==
    ASSUME Lobby, backlog # <<>>, NEW f \in Fds, sock[f] = NoClient,
           sock' = [sock EXCEPT ![f] = Head(backlog)],
           backlog' = Tail(backlog),
           UNCHANGED <<phase, my_id, reply, tcp, udp, players, alive>>
    PROVE  /\ Lobby' /\ Head(backlog) \in Clients
           /\ \A i \in Slots : Owner(i)' = Owner(i)
           /\ \E a \in 1 .. Len(backlog) : backlog[a] = Head(backlog)
           /\ \A a \in 1 .. Len(backlog') :
                \E b \in 1 .. Len(backlog) : backlog'[a] = backlog[b]
<1>1. /\ backlog \in Seq(Clients)
      /\ sock \in [Fds -> Clients \cup {NoClient}]
  BY DEF Lobby, TableTypeOK, ClientTypeOK
<1>2. /\ Head(backlog) = backlog[1] /\ Head(backlog) \in Clients
      /\ Tail(backlog) \in Seq(Clients)
      /\ Len(backlog) \in Nat /\ 1 \in 1 .. Len(backlog)
      /\ Len(backlog') = Len(backlog) - 1
      /\ \A a \in 1 .. Len(backlog') : /\ a + 1 \in 1 .. Len(backlog)
                                       /\ backlog'[a] = backlog[a + 1]
  BY <1>1, Taken
<1>3. ClientTypeOK' /\ TableTypeOK'
  BY <1>1, <1>2 DEF Lobby, TableTypeOK, ClientTypeOK
<1>4. \A g \in Fds : sock'[g] = IF g = f THEN backlog[1] ELSE sock[g]
  BY <1>1, <1>2
<1>5. Connections'
  <2>1. \A g, h \in Fds : sock'[g] # NoClient /\ sock'[g] = sock'[h] => g = h
    BY <1>2, <1>4 DEF Lobby, Connections
  <2>2. \A g \in Fds : \A a \in 1 .. Len(backlog') : sock'[g] # backlog'[a]
    BY <1>2, <1>4 DEF Lobby, Connections
  <2>3. \A a, b \in 1 .. Len(backlog') : backlog'[a] = backlog'[b] => a = b
    BY <1>2 DEF Lobby, Connections
  <2>4. \A c \in Clients : phase[c] = "start" =>
            /\ \A g \in Fds : sock'[g] # c
            /\ \A a \in 1 .. Len(backlog') : backlog'[a] # c
    BY <1>2, <1>4 DEF Lobby, Connections
  <2> QED
    BY <2>1, <2>2, <2>3, <2>4 DEF Connections
<1>6. \A i \in Slots : Owner(i)' = Owner(i)
  <2> SUFFICES ASSUME NEW i \in Slots PROVE Owner(i)' = Owner(i)
    OBVIOUS
  <2>1. players[i].is_active => players[i].tcp_fd # f
    BY ClientAssumption DEF Lobby, SeatsMatchConnections, Owner
  <2> QED
    BY <2>1, <1>1 DEF Owner
<1>7. SeatsMatchConnections'
  BY <1>6 DEF Lobby, SeatsMatchConnections
<1>8. \A c \in Clients : \A i : Owns(c, i)' <=> Owns(c, i)
  BY <1>6 DEF Owns
<1>9. \A c \in Clients : Seatless(c)' <=> Seatless(c)
  BY <1>6 DEF Seatless
<1>10. \A c \in Clients : Knowledge(c)'
  BY <1>8, <1>9 DEF Lobby, Knowledge
<1> QED
  BY <1>2, <1>3, <1>5, <1>6, <1>7, <1>10 DEF Lobby

(* free_player() and close() of the descriptor of a client that is gone.   *)
LEMMA FreeLobby ==
    ASSUME Lobby, NEW fd \in Fds, NEW c \in Clients,
           sock[fd] = c, phase[c] = "gone",
           FreePlayer(fd), sock' = [sock EXCEPT ![fd] = NoClient],
           UNCHANGED <<clientVars, alive>>
    PROVE  /\ Lobby'
           /\ \A i \in Slots :
                Owner(i)' = IF Owner(i) = c THEN NoClient ELSE Owner(i)
           /\ MoveAttribution => MoveAttribution'
           /\ \A i \in Slots : players'[i].udp_addr = players[i].udp_addr
           /\ \A f \in Fds : sock'[f] # c
           /\ \A a \in 1 .. Len(backlog) : backlog[a] # c
<1> USE DEF clientVars
<1>1. /\ players \in [Slots -> Player]
      /\ sock \in [Fds -> Clients \cup {NoClient}]
  BY DEF Lobby, TableTypeOK
<1> DEFINE Freed ==
        /\ players' \in [Slots -> Player]
        /\ \A i \in Slots :
            /\ players'[i].udp_addr = players[i].udp_addr
            /\ players'[i].username = players[i].username
            /\ players[i].tcp_fd # fd => players'[i] = players[i]
            /\ players[i].tcp_fd = fd =>
                  ~players'[i].is_active /\ players'[i].tcp_fd = NoFd
<1>2. Freed
  <2>1. \A i, j \in Slots : players[i].tcp_fd = fd /\ players[j].tcp_fd = fd
                            => i = j
    BY TableAssumption DEF Lobby, SeatsMatchConnections
  <2>2. CASE UNCHANGED players /\ \A i \in Slots : players[i].tcp_fd # fd
    BY <2>2, <1>1
  <2>3. ASSUME NEW i \in Slots, players[i].tcp_fd = fd, players' = Cleared(i)
        PROVE  Freed
    <3>1. /\ players' \in [Slots -> Player]
          /\ \A j \in Slots \ {i} : players'[j] = players[j]
          /\ players'[i].udp_addr = players[i].udp_addr
          /\ players'[i].username = players[i].username
          /\ ~players'[i].is_active /\ players'[i].tcp_fd = NoFd
      BY <2>3, <1>1, ClearSlot
    <3> QED
      BY <3>1, <2>1, <2>3
  <2> QED
    BY <2>2, <2>3 DEF FreePlayer
<1>3. \A i \in Slots : Owner(i)' = IF Owner(i) = c THEN NoClient ELSE Owner(i)
  <2> SUFFICES ASSUME NEW i \in Slots
               PROVE  Owner(i)' = IF Owner(i) = c THEN NoClient ELSE Owner(i)
    OBVIOUS
  <2>1. CASE players[i].tcp_fd = fd
    BY <2>1, <1>1, <1>2, TableAssumption
    DEF Owner, Lobby, SeatsMatchConnections
  <2>2. CASE players[i].tcp_fd # fd
    BY <2>2, <1>1, <1>2, TableAssumption, ClientAssumption
    DEF Owner, Lobby, Connections
  <2> QED
    BY <2>1, <2>2
<1>4. ClientTypeOK' /\ TableTypeOK'
  BY <1>1, <1>2 DEF Lobby, TableTypeOK, ClientTypeOK
<1>5. /\ \A f \in Fds : sock'[f] # c
      /\ \A a \in 1 .. Len(backlog) : backlog[a] # c
  BY <1>1, ClientAssumption DEF Lobby, Connections
<1>6. Connections'
  <2>1. \A a \in 1 .. Len(backlog) : backlog[a] \in Clients
    BY ElementOfSeq DEF Lobby, ClientTypeOK
  <2> QED
    BY <1>1, <2>1, ClientAssumption DEF Lobby, Connections
<1>7. SeatsMatchConnections'
  BY <1>1, <1>2, <1>3, TableAssumption
  DEF Lobby, SeatsMatchConnections, Owner
<1>8. \A d \in Clients \ {c} : \A i : Owns(d, i)' <=> Owns(d, i)
  BY <1>3, ClientAssumption DEF Owns
<1>9. \A d \in Clients : Seatless(d) => Seatless(d)'
  BY <1>3, ClientAssumption DEF Seatless
<1>10. \A d \in Clients : Knowledge(d)'
  BY <1>8, <1>9 DEF Lobby, Knowledge, NoIdYet, Playing
<1>11. MoveAttribution => MoveAttribution'
  BY <1>2 DEF MoveAttribution
<1> QED
  BY <1>2, <1>3, <1>4, <1>5, <1>6, <1>7, <1>10, <1>11 DEF Lobby

(* send() to the peers of fds: only a client that waits can take pkt.      *)
LEMMA Sending ==
    ASSUME ClientTypeOK, NEW fds, NEW pkt \in Packet, Send(fds, pkt)
    PROVE  /\ reply' \in [Clients -> Packet \cup {NoPacket}]
           /\ alive' \in BOOLEAN
           /\ \A c \in Clients :
                 reply'[c] = IF /\ \E f \in fds : sock[f] = c
                                /\ phase[c] = "waiting" /\ reply[c] = NoPacket
                             THEN pkt ELSE reply[c]
<1>1. reply \in [Clients -> Packet \cup {NoPacket}]
  BY DEF ClientTypeOK
<1>2. \A c \in Clients : c \in {sock[f] : f \in fds} \ {NoClient}
                            <=> \E f \in fds : sock[f] = c
  BY ClientAssumption
<1>3. alive' \in BOOLEAN
  BY DEF Send
<1> QED
  BY <1>1, <1>2, <1>3 DEF Send, Received

(* A broadcast to the players seated now is nobody's login response.       *)
LEMMA BroadcastKeepsReplies ==
    ASSUME Lobby, NEW fds \in SUBSET BroadcastFds(players),
           NEW pkt \in Packet, Send(fds, pkt)
    PROVE  reply' = reply /\ alive' \in BOOLEAN
<1>1. ASSUME NEW c \in Clients, NEW f \in fds, sock[f] = c
      PROVE  ~Seatless(c)
  BY <1>1 DEF BroadcastFds, Seatless, Owner
<1>2. \A c \in Clients : reply'[c] = reply[c]
  BY <1>1, Sending DEF Lobby, Knowledge
<1> QED
  BY <1>2, Sending DEF Lobby, ClientTypeOK

-----------------------------------------------------------------------------
(* The handlers.  Handling says what all of them leave alone.              *)
Handling ==
    /\ UNCHANGED <<phase, my_id, backlog, sock>>
    /\ tcp' \in [Clients -> Seq(Packet)]
    /\ udp' \in SUBSET Datagram

(* A Move, or a packet that reaches nobody: seats keep their owners.       *)
LEMMA SeatsKept ==
    ASSUME Lobby, Handling, UNCHANGED reply, alive' \in BOOLEAN,
           players' \in [Slots -> Player],
           \A i \in Slots : /\ players'[i].is_active = players[i].is_active
                            /\ players'[i].tcp_fd = players[i].tcp_fd
                            /\ players'[i].username = players[i].username
    PROVE  /\ Lobby'
           /\ \A i \in Slots : Owner(i)' = Owner(i)
           /\ \A c \in Clients : \A i : Owns(c, i)' <=> Owns(c, i)
           /\ \A c \in Clients : Seatless(c)' <=> Seatless(c)
<1> USE DEF Handling
<1>1. \A i \in Slots : Owner(i)' = Owner(i)
  BY DEF Owner
<1>2. ClientTypeOK' /\ TableTypeOK'
  BY DEF Lobby, TableTypeOK, ClientTypeOK
<1>3. Connections'
  BY DEF Lobby, Connections
<1>4. SeatsMatchConnections'
  BY <1>1 DEF Lobby, SeatsMatchConnections
<1>5. \A c \in Clients : \A i : Owns(c, i)' <=> Owns(c, i)
  BY <1>1 DEF Owns
<1>6. \A c \in Clients : Seatless(c)' <=> Seatless(c)
  BY <1>1 DEF Seatless
<1>7. \A c \in Clients : Knowledge(c)'
  BY <1>5, <1>6 DEF Lobby, Knowledge
<1> QED
  BY <1>1, <1>2, <1>3, <1>4, <1>5, <1>6, <1>7 DEF Lobby

(* on_udp() stores the sender of the Move in the seat that it names.       *)
LEMMA UdpTable ==
    ASSUME players \in [Slots -> Player], NEW d \in Datagram, OnUdp(d)
    PROVE  /\ players' \in [Slots -> Player]
           /\ \A i \in Slots :
                /\ players'[i].is_active = players[i].is_active
                /\ players'[i].tcp_fd = players[i].tcp_fd
                /\ players'[i].username = players[i].username
                /\ \/ players'[i].udp_addr = players[i].udp_addr
                   \/ i = d.player_id /\ players'[i].udp_addr = d.src
BY DEF Datagram, OnUdp, Player

(* Attack and Item; a Login on a full table; a Logout of no seat.          *)
LEMMA QuietLobby ==
    ASSUME Lobby, Handling, UNCHANGED players,
           \/ UNCHANGED <<reply, alive>>
           \/ \E pkt \in Packet : Send(BroadcastFds(players), pkt)
    PROVE  Lobby' /\ reply' = reply /\ alive' \in BOOLEAN
<1>1. reply' = reply /\ alive' \in BOOLEAN
  <2>1. CASE UNCHANGED <<reply, alive>>
    BY <2>1 DEF Lobby, TableTypeOK
  <2>2. ASSUME NEW pkt \in Packet, Send(BroadcastFds(players), pkt)
        PROVE  reply' = reply /\ alive' \in BOOLEAN
    BY <2>2, BroadcastKeepsReplies
  <2> QED
    BY <2>1, <2>2
<1> QED
  BY <1>1, SeatsKept DEF Lobby, TableTypeOK

(* Logout: the client it comes from owns the seat it names.                *)
LEMMA LogoutLobby ==
    ASSUME Lobby, Handling, NEW c \in Clients, NEW pkt \in Packet,
           OnLogout(pkt), Owns(c, pkt.player_id), phase[c] \in {"left", "gone"}
    PROVE  /\ Lobby' /\ alive' \in BOOLEAN
           /\ \A d \in Clients \ {c} : \A j : Owns(d, j)' <=> Owns(d, j)
           /\ \A d \in Clients : Seatless(d) => Seatless(d)'
           /\ MoveAttribution => MoveAttribution'
           /\ \A j \in Slots : players'[j].udp_addr = players[j].udp_addr
           /\ Send(BroadcastFds(players'), pkt)
           /\ \E i \in Slots :
                /\ Owner(i) = c
                /\ \A j \in Slots :
                     Owner(j)' = IF j = i THEN NoClient ELSE Owner(j)
<1> USE DEF Handling
<1>1. PICK i : i = pkt.player_id
  OBVIOUS
<1>2. /\ i \in Slots /\ Owner(i) = c
      /\ players' = Cleared(i) /\ Send(BroadcastFds(players'), pkt)
      /\ players \in [Slots -> Player]
  BY <1>1 DEF Owns, OnLogout, Lobby, TableTypeOK
<1>3. /\ players' \in [Slots -> Player]
      /\ \A j \in Slots \ {i} : players'[j] = players[j]
      /\ players'[i].udp_addr = players[i].udp_addr
      /\ ~players'[i].is_active /\ players'[i].tcp_fd = NoFd
  BY <1>2, ClearSlot
<1>4. BroadcastFds(players') \in SUBSET BroadcastFds(players)
  BY <1>3 DEF BroadcastFds
<1>5. reply' = reply /\ alive' \in BOOLEAN
  BY <1>2, <1>4, BroadcastKeepsReplies
<1>6. \A j \in Slots : Owner(j)' = IF j = i THEN NoClient ELSE Owner(j)
  BY <1>2, <1>3 DEF Owner
<1>7. ClientTypeOK' /\ TableTypeOK' /\ Connections'
  BY <1>3, <1>5 DEF Lobby, TableTypeOK, ClientTypeOK, Connections
<1>8. SeatsMatchConnections'
  <2>1. ~players'[i].is_active /\ players'[i].tcp_fd = NoFd /\ i \in Slots
    BY <1>2, <1>3
  <2>2. ASSUME NEW j \in Slots \ {i}
        PROVE  IF players[j].is_active
               THEN /\ Owner(j)' # NoClient
                    /\ players'[j].username = Owner(j)'
                    /\ \A k \in Slots \ {j} :
                          players'[k].tcp_fd # players'[j].tcp_fd
               ELSE players'[j].tcp_fd = NoFd
    <3>1. players'[j] = players[j] /\ Owner(j)' = Owner(j)
      BY <1>3, <1>6
    <3>2. players[j].is_active => players[j].tcp_fd # NoFd
      BY TableAssumption DEF Lobby, SeatsMatchConnections, Owner
    <3>3. players[j].is_active =>
            \A k \in Slots \ {j} : players'[k].tcp_fd # players[j].tcp_fd
      BY <2>1, <3>2, <1>3 DEF Lobby, SeatsMatchConnections
    <3> QED
      BY <3>1, <3>3 DEF Lobby, SeatsMatchConnections
  <2> QED
    BY <2>1, <2>2, <1>3 DEF SeatsMatchConnections
<1>9. \A d \in Clients \ {c} : \A j : Owns(d, j)' <=> Owns(d, j)
  BY <1>2, <1>6, ClientAssumption DEF Owns
<1>10. \A d \in Clients : Seatless(d) => Seatless(d)'
  BY <1>6, ClientAssumption DEF Seatless
<1>11. \A d \in Clients : Knowledge(d)'
  BY <1>5, <1>9, <1>10 DEF Lobby, Knowledge, NoIdYet, Playing
<1>12. MoveAttribution => MoveAttribution'
  BY <1>2, <1>3 DEF MoveAttribution
<1> QED
  BY <1>2, <1>3, <1>5, <1>6, <1>7, <1>8, <1>9, <1>10, <1>11, <1>12 DEF Lobby

(* Login with a free seat: the newcomer is the only one whose reply can    *)
(* change, for every other client the broadcast reaches has read its own.  *)
(* alloc_player() seats its client and moves no other.                     *)
LEMMA SeatGiven ==
    ASSUME Lobby, UNCHANGED sock, NEW fd \in Fds, NEW c \in Clients,
           sock[fd] = c,
           NEW i \in FreeSlots, players' = Allocated(i, fd, c)
    PROVE  /\ i \in Slots /\ Owner(i) = NoClient
           /\ \A j \in Slots : Owner(j)' = IF j = i THEN c ELSE Owner(j)
<1>1. /\ i \in Slots /\ ~players[i].is_active
      /\ players \in [Slots -> Player]
  BY DEF FreeSlots, Lobby, TableTypeOK
<1>2. /\ players' \in [Slots -> Player]
      /\ \A j \in Slots \ {i} : players'[j] = players[j]
      /\ players'[i].is_active /\ players'[i].tcp_fd = fd
  BY <1>1, AllocSlot
<1>3. Owner(i) = NoClient
  BY <1>1 DEF Owner
<1>4. \A j \in Slots : Owner(j)' = IF j = i THEN c ELSE Owner(j)
  BY <1>1, <1>2 DEF Owner
<1> QED
  BY <1>1, <1>3, <1>4

LEMMA LoginLobby ==
    ASSUME Lobby, Handling, NEW fd \in Fds, NEW c \in Clients, sock[fd] = c,
           NEW pkt \in Packet, pkt.username = c,
           Seatless(c), phase[c] \in {"waiting", "gone"},
           NEW i \in FreeSlots, players' = Allocated(i, fd, pkt.username),
           Send({fd} \cup BroadcastFds(players'), [pkt EXCEPT !.player_id = i])
    PROVE  /\ Lobby' /\ alive' \in BOOLEAN
           /\ \A d \in Clients \ {c} : \A j : Owns(d, j)' <=> Owns(d, j)
           /\ \A d \in Clients \ {c} : Seatless(d)' <=> Seatless(d)
           /\ MoveAttribution => MoveAttribution'
           /\ \A j \in Slots : players'[j].udp_addr = players[j].udp_addr
           /\ Owner(i) = NoClient
           /\ \A j \in Slots : Owner(j)' = IF j = i THEN c ELSE Owner(j)
<1> USE DEF Handling
<1>1. PICK resp : resp = [pkt EXCEPT !.player_id = i]
  OBVIOUS
<1>2. resp \in Packet /\ resp.username = c /\ resp.player_id = i
  <2>1. i \in Nat
    BY TableAssumption DEF FreeSlots, Slots
  <2> QED
    BY <2>1, <1>1 DEF Packet
<1>3. /\ i \in Slots /\ ~players[i].is_active
      /\ players \in [Slots -> Player]
      /\ players' = Allocated(i, fd, c)
  BY DEF FreeSlots, Lobby, TableTypeOK
<1>4. /\ players' \in [Slots -> Player]
      /\ \A j \in Slots \ {i} : players'[j] = players[j]
      /\ players'[i].udp_addr = players[i].udp_addr
      /\ players'[i].username = c
      /\ players'[i].is_active /\ players'[i].tcp_fd = fd
  BY <1>3, AllocSlot
<1>5. \A j \in Slots : Owner(j)' = IF j = i THEN c ELSE Owner(j)
  BY <1>3, SeatGiven
<1>6. Owner(i) = NoClient
  BY <1>3 DEF Owner
<1>7. \A d \in Clients \ {c} : \A f \in BroadcastFds(players') :
          sock[f] = d => ~Seatless(d)
  <2> SUFFICES ASSUME NEW d \in Clients \ {c}, NEW f \in BroadcastFds(players'),
                      sock[f] = d
               PROVE  ~Seatless(d)
    OBVIOUS
  <2>1. PICK j \in Slots : players'[j].is_active /\ players'[j].tcp_fd = f
    BY DEF BroadcastFds
  <2>2. f \in Fds /\ j # i
    BY <2>1, <1>4 DEF BroadcastFds
  <2>3. Owner(j) = d
    BY <2>1, <2>2, <1>4 DEF Owner
  <2> QED
    BY <2>3 DEF Seatless
<1>8. /\ reply' \in [Clients -> Packet \cup {NoPacket}] /\ alive' \in BOOLEAN
      /\ \A d \in Clients \ {c} : reply'[d] = reply[d]
      /\ phase[c] = "waiting" => reply[c] = NoPacket /\ reply'[c] = resp
      /\ phase[c] # "waiting" => reply'[c] = reply[c]
  <2>1. phase[c] = "waiting" => reply[c] = NoPacket
    BY DEF Lobby, Knowledge, Owns, Seatless
  <2>2. \A d \in Clients \ {c} :
          phase[d] = "waiting" /\ reply[d] = NoPacket => Seatless(d)
    BY DEF Lobby, Knowledge
  <2>3. PICK fds : fds = {fd} \cup BroadcastFds(players')
    OBVIOUS
  <2>4. /\ reply' \in [Clients -> Packet \cup {NoPacket}] /\ alive' \in BOOLEAN
        /\ \A d \in Clients :
             reply'[d] = IF /\ \E f \in {fd} \cup BroadcastFds(players') : sock[f] = d
                            /\ phase[d] = "waiting" /\ reply[d] = NoPacket
                         THEN resp ELSE reply[d]
    BY <1>1, <1>2, <2>3, Sending DEF Lobby
  <2>5. \A d \in Clients \ {c} : reply'[d] = reply[d]
    BY <1>7, <2>2, <2>4
  <2>6. phase[c] = "waiting" => reply'[c] = resp
    BY <2>1, <2>4
  <2> QED
    BY <2>1, <2>4, <2>5, <2>6
<1>9. ClientTypeOK' /\ TableTypeOK' /\ Connections'
  BY <1>4, <1>8 DEF Lobby, TableTypeOK, ClientTypeOK, Connections
<1>10. SeatsMatchConnections'
  <2>1. \A j \in Slots \ {i} : players[j].tcp_fd # fd
    BY <1>3, TableAssumption DEF Lobby, SeatsMatchConnections, Owner, Seatless
  <2>2. /\ players'[i].is_active /\ Owner(i)' = c /\ c # NoClient
        /\ \A k \in Slots \ {i} : players'[k].tcp_fd # players'[i].tcp_fd
        /\ players'[i].username = c
    BY <2>1, <1>3, <1>4, <1>5, ClientAssumption
  <2>3. ASSUME NEW j \in Slots \ {i}
        PROVE  IF players[j].is_active
               THEN /\ Owner(j)' # NoClient
                    /\ players'[j].username = Owner(j)'
                    /\ \A k \in Slots \ {j} :
                          players'[k].tcp_fd # players'[j].tcp_fd
               ELSE players'[j].tcp_fd = NoFd
    <3>1. players'[j] = players[j] /\ Owner(j)' = Owner(j)
      BY <1>4, <1>5
    <3>2. players[j].is_active =>
            \A k \in Slots \ {j} : players'[k].tcp_fd # players[j].tcp_fd
      BY <2>1, <1>4 DEF Lobby, SeatsMatchConnections
    <3> QED
      BY <3>1, <3>2 DEF Lobby, SeatsMatchConnections
  <2> QED
    BY <2>2, <2>3, <1>4 DEF SeatsMatchConnections
<1>11. \A d \in Clients \ {c} : \A j : Owns(d, j)' <=> Owns(d, j)
  BY <1>3, <1>5, <1>6, ClientAssumption DEF Owns
<1>12. \A d \in Clients \ {c} : Seatless(d)' <=> Seatless(d)
  BY <1>3, <1>5, <1>6, ClientAssumption DEF Seatless
<1>13. Owns(c, i)'
  BY <1>3, <1>5 DEF Owns
<1>14. Knowledge(c)'
  BY <1>2, <1>8, <1>13, ClientAssumption DEF Lobby, Knowledge, NoIdYet, Playing
<1>15. \A d \in Clients \ {c} : Knowledge(d)'
  BY <1>8, <1>11, <1>12 DEF Lobby, Knowledge
<1>16. MoveAttribution => MoveAttribution'
  BY <1>3, <1>4 DEF MoveAttribution
<1> QED
  BY <1>4, <1>5, <1>6, <1>8, <1>9, <1>10, <1>11, <1>12, <1>14, <1>15, <1>16 DEF Lobby

-----------------------------------------------------------------------------
(* The same steps seen from PlayerRegistry.                                *)
LEMMA SendSettles ==
    ASSUME TableTypeOK, NEW fds \in SUBSET Fds, NEW pkt, Send(fds, pkt),
           UNCHANGED <<phase, sock>>,
           \A f \in fds : sock[f] \in Clients =>
                            \E i \in Slots : Owner(i)' = sock[f]
    PROVE  Registry!Settle
<1>1. CASE alive' = TRUE
  BY <1>1 DEF Registry!Settle
<1>2. ASSUME NEW f \in fds, sock[f] # NoClient, Gone(sock[f]), alive' = FALSE
      PROVE  Registry!Settle
  <2>1. PICK c \in Clients : c = sock[f]
    BY <1>2 DEF TableTypeOK
  <2>2. c \in {d \in Clients : phase[d] \in {"left", "gone"}}
    BY <1>2, <2>1 DEF Gone
  <2>3. PICK i \in Slots : Owner(i)' = c
    BY <2>1
  <2>4. Registry!Seated(c)'
    BY <2>3 DEF Registry!Seated
  <2> QED
    BY <1>2, <2>2, <2>4 DEF Registry!Settle
<1> QED
  BY <1>1, <1>2 DEF Send

LEMMA BroadcastReaches ==
    ASSUME sock' = sock, NEW f \in BroadcastFds(players')
    PROVE  f \in Fds /\ \E i \in Slots : Owner(i)' = sock[f]
<1>1. /\ f \in Fds
      /\ \E i \in Slots : players'[i].is_active /\ players'[i].tcp_fd = f
  BY DEF BroadcastFds
<1>2. PICK i \in Slots : players'[i].is_active /\ players'[i].tcp_fd = f
  BY <1>1
<1>3. Owner(i)' = sock'[players'[i].tcp_fd]
  BY <1>1, <1>2 DEF Owner
<1> QED
  BY <1>1, <1>2, <1>3

LEMMA LoginJoins ==
    ASSUME Lobby, Handling, NEW fd \in Fds, NEW c \in Clients, sock[fd] = c,
           NEW pkt \in Packet, pkt.username = c,
           Seatless(c), phase[c] \in {"waiting", "gone"},
           NEW i \in FreeSlots, players' = Allocated(i, fd, pkt.username),
           Send({fd} \cup BroadcastFds(players'), [pkt EXCEPT !.player_id = i])
    PROVE  Registry!Join(c, i)
<1>1. /\ i \in Slots /\ Owner(i) = NoClient
      /\ \A j \in Slots : Owner(j)' = IF j = i THEN c ELSE Owner(j)
  <2>1. players' = Allocated(i, fd, c) /\ UNCHANGED sock
    BY DEF Handling
  <2> QED
    BY <2>1, SeatGiven
<1>2. PICK fds : fds = {fd} \cup BroadcastFds(players')
  OBVIOUS
<1>3. UNCHANGED <<phase, sock>>
  BY DEF Handling
<1>4. /\ fds \in SUBSET Fds
      /\ \A f \in fds : \E j \in Slots : Owner(j)' = sock[f]
  BY <1>1, <1>2, <1>3, BroadcastReaches
<1>5. Registry!Settle
  BY <1>2, <1>3, <1>4, SendSettles DEF Lobby
<1>6. ~Registry!Seated(c)
  BY DEF Registry!Seated, Seatless
<1> QED
  BY <1>1, <1>3, <1>5, <1>6 DEF Registry!Join

LEMMA LogoutLeaves ==
    ASSUME Lobby, Handling, NEW c \in Clients, NEW pkt \in Packet,
           OnLogout(pkt), Owns(c, pkt.player_id), phase[c] \in {"left", "gone"}
    PROVE  \E i \in Slots : Registry!Leave(c, i)
<1>1. PICK i \in Slots :
        /\ Owner(i) = c
        /\ \A j \in Slots : Owner(j)' = IF j = i THEN NoClient ELSE Owner(j)
  BY LogoutLobby
<1>2. PICK fds : fds = BroadcastFds(players') /\ Send(fds, pkt)
  BY LogoutLobby
<1>3. UNCHANGED <<phase, sock>>
  BY DEF Handling
<1>4. /\ fds \in SUBSET Fds
      /\ \A f \in fds : \E j \in Slots : Owner(j)' = sock[f]
  BY <1>2, <1>3, BroadcastReaches
<1>5. Registry!Settle
  BY <1>2, <1>3, <1>4, SendSettles DEF Lobby
<1> QED
  BY <1>1, <1>3, <1>5 DEF Registry!Leave

LEMMA QuietRefines ==
    ASSUME Lobby, Handling, UNCHANGED players,
           \/ UNCHANGED <<reply, alive>>
           \/ \E pkt \in Packet : Send(BroadcastFds(players), pkt)
    PROVE  Registry!Relay \/ UNCHANGED Registry!registryVars
<1>1. \A i \in Slots : Owner(i)' = Owner(i)
  BY OwnerUnchanged DEF Handling
<1>2. CASE UNCHANGED <<reply, alive>>
  BY <1>1, <1>2 DEF Handling, Registry!registryVars
<1>3. ASSUME NEW pkt \in Packet, Send(BroadcastFds(players), pkt)
      PROVE  Registry!Relay
  <2>1. PICK fds : fds = BroadcastFds(players') /\ Send(fds, pkt)
    BY <1>3
  <2>2. /\ fds \in SUBSET Fds
        /\ \A f \in fds : \E j \in Slots : Owner(j)' = sock[f]
    BY <2>1, BroadcastReaches DEF Handling
  <2>3. Registry!Settle
    BY <2>1, <2>2, SendSettles DEF Handling, Lobby
  <2> QED
    BY <1>1, <2>3 DEF Registry!Relay, Handling
<1> QED
  BY <1>2, <1>3

LEMMA FreeLeaves ==
    ASSUME Lobby, alive, NEW fd \in Fds, NEW c \in Clients,
           sock[fd] = c, phase[c] = "gone",
           FreePlayer(fd), sock' = [sock EXCEPT ![fd] = NoClient],
           UNCHANGED <<clientVars, alive>>
    PROVE  \/ \E i \in Slots : Registry!Leave(c, i)
           \/ UNCHANGED Registry!registryVars
<1>1. \A i \in Slots : Owner(i)' = IF Owner(i) = c THEN NoClient ELSE Owner(i)
  BY FreeLobby
<1>2. phase' = phase /\ alive' = alive
  BY DEF clientVars
<1>3. \A i, j \in Slots : Owner(i) = c /\ Owner(j) = c => i = j
  BY ClientAssumption DEF Lobby, Connections, SeatsMatchConnections, Owner
<1>4. CASE \E i \in Slots : Owner(i) = c
  <2>1. PICK i \in Slots : Owner(i) = c
    BY <1>4
  <2>2. \A j \in Slots : Owner(j)' = IF j = i THEN NoClient ELSE Owner(j)
    BY <1>1, <1>3, <2>1
  <2>3. Registry!Settle
    BY <1>2 DEF Registry!Settle, Lobby, TableTypeOK
  <2> QED
    BY <1>1, <1>2, <2>1, <2>2, <2>3 DEF Registry!Leave
<1>5. CASE \A i \in Slots : Owner(i) # c
  BY <1>1, <1>2, <1>5 DEF Registry!registryVars
<1> QED
  BY <1>4, <1>5

LEMMA ClientRequests ==
    ASSUME Lobby, alive, NEW c \in Clients, ClientStep(c) \/ KillClient(c),
           UNCHANGED <<players, sock, alive>>
    PROVE  Registry!Next \/ UNCHANGED Registry!registryVars
<1>1. \A i \in Slots : Owner(i)' = Owner(i)
  BY OwnerUnchanged
<1>2. phase \in [Clients -> Phases]
  BY DEF Lobby, ClientTypeOK
<1>3. ASSUME \/ phase' = [phase EXCEPT ![c] = "left"]
             \/ phase' = [phase EXCEPT ![c] = "gone"]
      PROVE  Registry!Next
  <2>1. {d \in Clients : phase'[d] \in {"left", "gone"}}
           = {d \in Clients : phase[d] \in {"left", "gone"}} \cup {c}
    BY <1>2, <1>3
  <2> QED
    BY <1>1, <2>1 DEF Registry!Next, Registry!Request
<1>4. ASSUME NEW from, NEW to, GoTo(c, from, to),
             from \notin {"left", "gone"}, to \notin {"left", "gone"}
      PROVE  UNCHANGED Registry!registryVars
  <2>1. {d \in Clients : phase'[d] \in {"left", "gone"}}
           = {d \in Clients : phase[d] \in {"left", "gone"}}
    BY <1>2, <1>4 DEF GoTo
  <2> QED
    BY <1>1, <2>1 DEF Registry!registryVars
<1>5. CASE KillClient(c)
  BY <1>3, <1>5 DEF KillClient
<1>6. CASE ClientStep(c)
  BY <1>3, <1>4, <1>6
  DEF ClientStep, Connect, SendLogin, RecvId, SendMove, SendAttack, SendItem,
      SendLogout, CloseClient, GoTo
<1> QED
  BY <1>5, <1>6

LEMMA InitRegistry ==
    ASSUME ClientInit, TableInit
    PROVE  Registry!Init
<1>1. \A i \in Slots : Owner(i) = NoClient
  BY DEF TableInit, Owner
<1>2. {c \in Clients : phase[c] \in {"left", "gone"}} = {}
  BY DEF ClientInit
<1> QED
  BY <1>1, <1>2 DEF TableInit, Registry!Init
=============================================================================
