---------------------------- MODULE MonitorProof ----------------------------
(***************************************************************************)
(* Proofs about the Rust and the C# game server (MCMonitor: a behaviour is *)
(* one of either), for every number of clients and seats, on condition     *)
(* that no broadcast overtakes a pending login response.                   *)
(*                                                                         *)
(* IInv is the inductive invariant.  A thread never holds the lock from    *)
(* one step to the next, so what it took for granted when it let go must   *)
(* be kept by all others: Threads says what that is.                       *)
(***************************************************************************)
EXTENDS MCMonitor, SequenceTheorems, TLAPS

Owns(c, i) == i \in Slots /\ Owner(i) = c

Seatless(c) == \A i \in Slots : Owner(i) # c

NoIdYet == {"start", "connected", "waiting"}

(* A connection is queued once, and has a thread once it was accepted.     *)
Queue ==
    /\ \A a, b \in 1 .. Len(backlog) : backlog[a] = backlog[b] => a = b
    /\ \A a \in 1 .. Len(backlog) :
            thread[backlog[a]] = "none" /\ phase[backlog[a]] # "start"
    /\ \A c \in Clients : phase[c] = "start" => thread[c] = "none"

(* What a thread knows about its seat between two critical sections.       *)
ThreadOK(c) ==
    /\ thread[c] = "none" => conn_id[c] = NoId
    /\ thread[c] \in {"respond", "announce", "failed"} =>
            /\ pkt[c] # NoPacket
            /\ Owns(c, pkt[c].player_id)
            /\ conn_id[c] \in {NoId, pkt[c].player_id}
            /\ lang = "rs" => conn_id[c] = pkt[c].player_id
    /\ thread[c] = "farewell" => pkt[c] # NoPacket /\ Seatless(c)

Threads == \A c \in Clients : ThreadOK(c)

(* What a client knows and what the server holds for it.                   *)
Knowledge(c) ==
    /\ phase[c] \in NoIdYet => my_id[c] = NoId
    /\ phase[c] \in {"start", "connected"} => Seatless(c)
    /\ phase[c] # "waiting" => reply[c] = NoPacket
    /\ phase[c] = "waiting" =>
            \/ reply[c] = NoPacket /\ thread[c] = "respond"
            \/ reply[c] = NoPacket /\ Seatless(c)
            \/ reply[c] # NoPacket /\ thread[c] # "respond"
               /\ Owns(c, reply[c].player_id)
    /\ phase[c] \in Playing => Owns(c, my_id[c])

(* What a packet on its way to the server may still ask for.               *)
PacketOK(c, k) ==
    LET p == tcp[c][k]
    IN  /\ p.type = Login =>
                /\ Len(tcp[c]) = 1
                /\ p.username = c
                /\ Seatless(c)
                /\ phase[c] \in {"waiting", "gone"}
        /\ p.type # Login =>
                /\ Owns(c, p.player_id)
                /\ phase[c] \notin NoIdYet
        /\ p.type = Logout =>
                /\ k = Len(tcp[c])
                /\ phase[c] \in {"left", "gone"}

StreamOK(c) ==
    /\ phase[c] \in {"start", "connected"} => tcp[c] = <<>>
    /\ \A k \in 1 .. Len(tcp[c]) : PacketOK(c, k)

Streams == \A c \in Clients : StreamOK(c)

IInv ==
    /\ TypeOK
    /\ Queue
    /\ SeatsBelongToThreads
    /\ Threads
    /\ \A c \in Clients : Knowledge(c)
    /\ Streams

-----------------------------------------------------------------------------
LEMMA InitIInv == AnyInit => IInv
<1> SUFFICES ASSUME AnyInit PROVE IInv
  OBVIOUS
<1> USE DEF AnyInit, Init, ClientInit
<1>1. TypeOK
  BY ClientAssumption, MaxPlayersAssumption
  DEF TypeOK, ClientTypeOK, Phases, Player, NoId, Work
<1>2. \A i \in Slots : Owner(i) = NoClient
  BY DEF Owner
<1>3. \A c \in Clients : Seatless(c)
  BY <1>2, ClientAssumption DEF Seatless
<1>4. Queue /\ Threads /\ Streams
  BY DEF Queue, Threads, ThreadOK, Streams, StreamOK
<1>5. SeatsBelongToThreads
  BY DEF SeatsBelongToThreads
<1>6. \A c \in Clients : Knowledge(c)
  BY <1>3 DEF Knowledge, NoIdYet, Playing
<1> QED
  BY <1>1, <1>4, <1>5, <1>6 DEF IInv

-----------------------------------------------------------------------------
(* Facts about seats.                                                      *)

LEMMA OwnerUnchanged ==
    ASSUME players' = players
    PROVE  /\ \A i : Owner(i)' = Owner(i)
           /\ \A c, i : Owns(c, i)' <=> Owns(c, i)
           /\ \A c : Seatless(c)' <=> Seatless(c)
BY DEF Owner, Owns, Seatless

(* A client has one seat at most: the one its thread knows.                *)
LEMMA OneSeat ==
    ASSUME TypeOK, SeatsBelongToThreads, NEW c \in Clients,
           NEW i \in Slots, Owner(i) = c
    PROVE  /\ Assigned(c) = i
           /\ thread[c] # "ended"
           /\ players[i].is_active /\ players[i].tcp_write = c
BY ClientAssumption DEF SeatsBelongToThreads, Owner

(* free_player() of the seat of c is felt by no other client.              *)
LEMMA SeatFreed ==
    ASSUME TypeOK, SeatsBelongToThreads, NEW c \in Clients,
           NEW i \in Slots, Owner(i) = c, FreePlayer(i)
    PROVE  /\ players' \in [Slots -> Player]
           /\ \A j \in Slots \ {i} : players'[j] = players[j]
           /\ ~players'[i].is_active
           /\ \A j \in Slots :
                Owner(j)' = IF j = i THEN NoClient ELSE Owner(j)
           /\ Seatless(c)'
           /\ \A d \in Clients \ {c} : /\ \A j : Owns(d, j)' <=> Owns(d, j)
                                       /\ Seatless(d)' <=> Seatless(d)
<1> DEFINE p == [players[i] EXCEPT !.is_active = FALSE, !.tcp_write = NoClient]
<1>1. p \in Player /\ ~p.is_active /\ players \in [Slots -> Player]
  BY DEF Player, TypeOK
<1>2. players' = [players EXCEPT ![i] = p]
  BY DEF FreePlayer
<1> HIDE DEF p
<1>3. /\ players' \in [Slots -> Player]
      /\ \A j \in Slots \ {i} : players'[j] = players[j]
      /\ ~players'[i].is_active
  BY <1>1, <1>2
<1>4. \A j \in Slots : Owner(j)' = IF j = i THEN NoClient ELSE Owner(j)
  BY <1>3 DEF Owner
<1>5. \A j \in Slots : Owner(j) = c => j = i
  BY OneSeat
<1>6. Seatless(c)'
  BY <1>4, <1>5, ClientAssumption DEF Seatless
<1>7. \A d \in Clients \ {c} : \A j : Owns(d, j)' <=> Owns(d, j)
  BY <1>4, ClientAssumption DEF Owns
<1>8. \A d \in Clients \ {c} : Seatless(d)' <=> Seatless(d)
  BY <1>4, ClientAssumption DEF Seatless
<1> QED
  BY <1>3, <1>4, <1>6, <1>7, <1>8

(* alloc_player() for a client without a seat.                             *)
LEMMA SeatTaken ==
    ASSUME TypeOK, NEW c \in Clients, Seatless(c),
           NEW i \in FreeSlots, AllocPlayer(i, c, c)
    PROVE  /\ players' \in [Slots -> Player]
           /\ \A j \in Slots \ {i} : players'[j] = players[j]
           /\ players'[i].is_active /\ players'[i].tcp_write = c
           /\ Owner(i) = NoClient
           /\ \A j \in Slots : Owner(j)' = IF j = i THEN c ELSE Owner(j)
           /\ \A d \in Clients \ {c} : /\ \A j : Owns(d, j)' <=> Owns(d, j)
                                       /\ Seatless(d)' <=> Seatless(d)
<1> DEFINE p == [players[i] EXCEPT !.is_active = TRUE, !.tcp_write = c,
                                   !.username = c]
<1>1. /\ p \in Player /\ p.is_active /\ p.tcp_write = c
      /\ players \in [Slots -> Player]
      /\ i \in Slots /\ ~players[i].is_active
  BY DEF Player, TypeOK, FreeSlots
<1>2. players' = [players EXCEPT ![i] = p]
  BY DEF AllocPlayer
<1> HIDE DEF p
<1>3. /\ players' \in [Slots -> Player]
      /\ \A j \in Slots \ {i} : players'[j] = players[j]
      /\ players'[i].is_active /\ players'[i].tcp_write = c
  BY <1>1, <1>2
<1>4. /\ Owner(i) = NoClient
      /\ \A j \in Slots : Owner(j)' = IF j = i THEN c ELSE Owner(j)
  BY <1>1, <1>3 DEF Owner
<1>5. \A d \in Clients \ {c} : \A j : Owns(d, j)' <=> Owns(d, j)
  BY <1>1, <1>4, ClientAssumption DEF Owns
<1>6. \A d \in Clients \ {c} : Seatless(d)' <=> Seatless(d)
  BY <1>1, <1>4, ClientAssumption DEF Seatless
<1> QED
  BY <1>3, <1>4, <1>5, <1>6

(* The read of one packet from the stream of client c.                     *)
LEMMA StreamShrinks ==
    ASSUME tcp \in [Clients -> Seq(Packet)], NEW c \in Clients,
           tcp[c] # <<>>, tcp' = [tcp EXCEPT ![c] = Tail(@)]
    PROVE  /\ tcp' \in [Clients -> Seq(Packet)]
           /\ Head(tcp[c]) = tcp[c][1] /\ Head(tcp[c]) \in Packet
           /\ 1 \in 1 .. Len(tcp[c])
           /\ Len(tcp[c]) \in Nat /\ Len(tcp'[c]) = Len(tcp[c]) - 1
           /\ \A k \in 1 .. Len(tcp'[c]) : /\ k + 1 \in 1 .. Len(tcp[c])
                                           /\ tcp'[c][k] = tcp[c][k + 1]
           /\ \A d \in Clients \ {c} : tcp'[d] = tcp[d]
<1>1. /\ Tail(tcp[c]) \in Seq(Packet) /\ Head(tcp[c]) \in Packet
      /\ Head(tcp[c]) = tcp[c][1]
      /\ Len(tcp[c]) \in Nat \ {0}
      /\ Len(Tail(tcp[c])) = Len(tcp[c]) - 1
      /\ \A k \in 1 .. Len(Tail(tcp[c])) : Tail(tcp[c])[k] = tcp[c][k + 1]
  BY HeadTailProperties, LenProperties, EmptySeq
<1>2. /\ tcp'[c] = Tail(tcp[c]) /\ tcp' \in [Clients -> Seq(Packet)]
      /\ \A d \in Clients \ {c} : tcp'[d] = tcp[d]
  BY <1>1
<1> QED
  BY <1>1, <1>2

(* A broadcast is nobody's login response, as long as none overtakes one.  *)
LEMMA BroadcastKeepsReplies ==
    ASSUME IInv, NEW c \in Clients, thread[c] # "respond",
           NEW to, thread' = [thread EXCEPT ![c] = to],
           phase' = phase, NEW p \in Packet, BroadcastTcp(p), ~Overtakes
    PROVE  reply' = reply
<1>1. /\ reply \in [Clients -> Packet \cup {NoPacket}]
      /\ thread \in [Clients -> Work]
  BY DEF IInv, TypeOK, ClientTypeOK
<1>2. SUFFICES ASSUME NEW d \in Clients, reply'[d] # reply[d] PROVE FALSE
  BY <1>1 DEF BroadcastTcp, Received
<1>3. /\ phase[d] = "waiting" /\ reply[d] = NoPacket
      /\ \E i \in Slots : players[i].is_active /\ players[i].tcp_write = d
  BY <1>2 DEF BroadcastTcp, Received
<1>4. ~Seatless(d)
  BY <1>3 DEF Seatless, Owner
<1>5. thread[d] = "respond"
  BY <1>3, <1>4 DEF IInv, Knowledge
<1>6. thread'[d] = "respond"
  BY <1>1, <1>5
<1> QED
  BY <1>2, <1>3, <1>5, <1>6 DEF Overtakes

-----------------------------------------------------------------------------
(* Steps of the clients: the server stands still.                          *)

LEMMA ServerStands ==
    ASSUME IInv, UNCHANGED <<serverVars, lang>>
    PROVE  /\ SeatsBelongToThreads'
           /\ Threads'
           /\ \A c \in Clients : thread'[c] = thread[c]
<1> USE DEF serverVars
<1>1. SeatsBelongToThreads'
  BY OwnerUnchanged DEF IInv, SeatsBelongToThreads, Assigned
<1>2. Threads'
  BY OwnerUnchanged DEF IInv, Threads, ThreadOK
<1> QED
  BY <1>1, <1>2

LEMMA ConnectStep ==
    ASSUME IInv, NEW c \in Clients, Connect(c), UNCHANGED <<serverVars, lang>>
    PROVE  IInv'
<1> USE DEF Connect, GoTo, serverVars
<1>1. /\ phase \in [Clients -> Phases] /\ backlog \in Seq(Clients)
      /\ phase' = [phase EXCEPT ![c] = "connected"] /\ phase[c] = "start"
      /\ backlog' = Append(backlog, c)
  BY DEF IInv, TypeOK, ClientTypeOK
<1>2. TypeOK'
  BY <1>1 DEF IInv, TypeOK, ClientTypeOK, Phases
<1>3. /\ Len(backlog') = Len(backlog) + 1
      /\ \A a \in 1 .. Len(backlog) : backlog'[a] = backlog[a]
      /\ backlog'[Len(backlog) + 1] = c
      /\ Len(backlog) \in Nat
      /\ \A a \in 1 .. Len(backlog) : backlog[a] \in Clients
  BY <1>1, ElementOfSeq
<1>4. Queue'
  BY <1>1, <1>3 DEF IInv, Queue
<1>5. SeatsBelongToThreads' /\ Threads'
  BY <1>1, ServerStands
<1>6. \A d \in Clients : Knowledge(d)'
  BY <1>1, OwnerUnchanged DEF IInv, Knowledge, NoIdYet, Playing
<1>7. Streams'
  BY <1>1, OwnerUnchanged DEF IInv, Streams, StreamOK, PacketOK, NoIdYet
<1> QED
  BY <1>2, <1>4, <1>5, <1>6, <1>7 DEF IInv

(* send_tcp() of a Login, or of another packet under the id received.      *)
LEMMA SendStep ==
    ASSUME IInv, NEW c \in Clients, NEW p \in Packet, NEW from, NEW to,
           GoTo(c, from, to), tcp' = [tcp EXCEPT ![c] = Append(@, p)],
           UNCHANGED <<my_id, reply, backlog, udp, serverVars, lang>>,
           \/ /\ from = "connected" /\ to = "waiting"
              /\ p.type = Login /\ p.username = c
           \/ /\ from \in Playing /\ to \in Playing \cup {"left"}
              /\ p.type # Login /\ p.player_id = my_id[c]
              /\ p.type = Logout => to = "left"
    PROVE  IInv'
<1> USE DEF GoTo, serverVars
<1>1. /\ phase \in [Clients -> Phases] /\ phase[c] = from
      /\ phase' = [phase EXCEPT ![c] = to] /\ to \in Phases
      /\ tcp \in [Clients -> Seq(Packet)]
  BY DEF IInv, TypeOK, ClientTypeOK, Playing, Phases
<1>2. /\ tcp' \in [Clients -> Seq(Packet)]
      /\ Len(tcp[c]) \in Nat
      /\ Len(tcp'[c]) = Len(tcp[c]) + 1
      /\ tcp'[c][Len(tcp'[c])] = p
      /\ \A k \in 1 .. Len(tcp[c]) : tcp'[c][k] = tcp[c][k]
      /\ \A d \in Clients \ {c} : tcp'[d] = tcp[d]
  <2>1. /\ Append(tcp[c], p) \in Seq(Packet)
        /\ Len(tcp[c]) \in Nat
        /\ Len(Append(tcp[c], p)) = Len(tcp[c]) + 1
        /\ Append(tcp[c], p)[Len(tcp[c]) + 1] = p
        /\ \A k \in 1 .. Len(tcp[c]) : Append(tcp[c], p)[k] = tcp[c][k]
    BY <1>1, AppendProperties
  <2> QED
    BY <1>1, <2>1
<1>3. TypeOK'
  BY <1>1, <1>2 DEF IInv, TypeOK, ClientTypeOK
<1>4. Queue'
  BY <1>1, ElementOfSeq
  DEF IInv, Queue, TypeOK, ClientTypeOK, Playing
<1>5. SeatsBelongToThreads' /\ Threads'
  BY <1>1, ServerStands
<1>6. \A d \in Clients : Knowledge(d)'
  BY <1>1, OwnerUnchanged DEF IInv, Knowledge, NoIdYet, Playing
<1>7. Streams'
  <2>1. \A d \in Clients \ {c} : \A k \in 1 .. Len(tcp'[d]) : PacketOK(d, k)'
    BY <1>1, <1>2, OwnerUnchanged DEF IInv, Streams, StreamOK, PacketOK
  <2>2. CASE from = "connected"
    <3>1. Len(tcp[c]) = 0 /\ Seatless(c) /\ p.type = Login
      BY <1>1, <2>2 DEF IInv, Streams, StreamOK, Knowledge, Playing
    <3>2. PacketOK(c, 1)'
      BY <1>1, <1>2, <2>2, <3>1, OwnerUnchanged DEF PacketOK, Login, Logout, Playing
    <3> QED
      BY <1>1, <1>2, <2>1, <2>2, <3>1, <3>2 DEF Streams, StreamOK, IInv, Playing
  <2>3. CASE from \in Playing
    <3>1. \A k \in 1 .. Len(tcp[c]) :
            PacketOK(c, k) /\ tcp[c][k].type \notin {Login, Logout}
      BY <1>1, <2>3 DEF IInv, Streams, StreamOK, PacketOK, Playing
    <3>2. \A k \in 1 .. Len(tcp[c]) : PacketOK(c, k)'
      BY <1>1, <1>2, <2>3, <3>1, OwnerUnchanged DEF PacketOK, Playing, NoIdYet
    <3>3. PICK n : n = Len(tcp[c]) + 1
      OBVIOUS
    <3>4. Owns(c, p.player_id)'
      BY <1>1, <2>3, OwnerUnchanged DEF IInv, Knowledge, Playing
    <3>5. PacketOK(c, n)'
      BY <1>1, <1>2, <2>3, <3>3, <3>4 DEF PacketOK, Playing, NoIdYet
    <3>6. \A k \in 1 .. Len(tcp'[c]) : PacketOK(c, k)'
      BY <1>2, <3>2, <3>3, <3>5
    <3>7. phase'[c] \notin {"start", "connected"}
      BY <1>1, <2>3 DEF Playing
    <3>8. \A d \in Clients \ {c} :
            phase'[d] \in {"start", "connected"} => tcp'[d] = <<>>
      BY <1>1, <1>2 DEF IInv, Streams, StreamOK
    <3> QED
      BY <2>1, <3>6, <3>7, <3>8 DEF Streams, StreamOK
  <2> QED
    BY <2>2, <2>3
<1> QED
  BY <1>3, <1>4, <1>5, <1>6, <1>7 DEF IInv

(* recv() of the login response, and the Move sent under the id in it.     *)
LEMMA RecvIdStep ==
    ASSUME IInv, NEW c \in Clients, RecvId(c), UNCHANGED <<serverVars, lang>>
    PROVE  IInv'
<1> USE DEF RecvId, channelVars, GoTo, serverVars
<1>1. /\ phase \in [Clients -> Phases] /\ phase[c] = "waiting"
      /\ phase' = [phase EXCEPT ![c] = "ready"]
      /\ reply \in [Clients -> Packet \cup {NoPacket}]
      /\ reply[c] # NoPacket /\ reply[c].player_id \in Nat
      /\ reply' = [reply EXCEPT ![c] = NoPacket]
      /\ my_id \in [Clients -> Nat \cup {NoId}]
      /\ my_id' = [my_id EXCEPT ![c] = reply[c].player_id]
      /\ Owns(c, reply[c].player_id)
  BY DEF IInv, TypeOK, ClientTypeOK, Packet, Knowledge
<1>2. TypeOK'
  BY <1>1 DEF IInv, TypeOK, ClientTypeOK, Phases
<1>3. Queue'
  BY <1>1, ElementOfSeq DEF IInv, Queue, TypeOK, ClientTypeOK
<1>4. SeatsBelongToThreads' /\ Threads'
  BY <1>1, ServerStands
<1>5. \A d \in Clients : Knowledge(d)'
  BY <1>1, OwnerUnchanged DEF IInv, Knowledge, NoIdYet, Playing
<1>6. \A k \in 1 .. Len(tcp[c]) : FALSE
  BY <1>1 DEF IInv, Streams, StreamOK, PacketOK, NoIdYet, Owns, Seatless
<1>7. Streams'
  BY <1>1, <1>6, OwnerUnchanged DEF IInv, Streams, StreamOK, PacketOK, NoIdYet
<1> QED
  BY <1>2, <1>3, <1>4, <1>5, <1>7 DEF IInv

LEMMA MoveStep ==
    ASSUME IInv, NEW c \in Clients, SendMove(c), UNCHANGED <<serverVars, lang>>
    PROVE  IInv'
<1> USE DEF SendMove, channelVars, GoTo, serverVars
<1>1. /\ phase \in [Clients -> Phases] /\ phase[c] = "ready"
      /\ phase' = [phase EXCEPT ![c] = "moved"]
      /\ my_id[c] \in Nat
  BY DEF IInv, TypeOK, ClientTypeOK, Knowledge, Playing, Owns, Slots
<1>2. TypeOK'
  BY <1>1 DEF IInv, TypeOK, ClientTypeOK, Phases, Datagram
<1>3. Queue'
  BY <1>1, ElementOfSeq DEF IInv, Queue, TypeOK, ClientTypeOK
<1>4. SeatsBelongToThreads' /\ Threads'
  BY <1>1, ServerStands
<1>5. \A d \in Clients : Knowledge(d)'
  BY <1>1, OwnerUnchanged DEF IInv, Knowledge, NoIdYet, Playing
<1>6. Streams'
  BY <1>1, OwnerUnchanged DEF IInv, Streams, StreamOK, PacketOK, NoIdYet
<1> QED
  BY <1>2, <1>3, <1>4, <1>5, <1>6 DEF IInv

(* close() after the Logout, or a kill at any point.                       *)
LEMMA GoneStep ==
    ASSUME IInv, NEW c \in Clients, CloseClient(c) \/ KillClient(c),
           UNCHANGED <<serverVars, lang>>
    PROVE  IInv'
<1> USE DEF CloseClient, KillClient, channelVars, GoTo, serverVars
<1>1. /\ phase \in [Clients -> Phases] /\ phase[c] # "start"
      /\ phase' = [phase EXCEPT ![c] = "gone"]
      /\ reply \in [Clients -> Packet \cup {NoPacket}]
      /\ reply' = [reply EXCEPT ![c] = NoPacket]
      /\ UNCHANGED <<my_id, backlog, tcp, udp>>
  <2>1. /\ phase \in [Clients -> Phases]
        /\ reply \in [Clients -> Packet \cup {NoPacket}]
    BY DEF IInv, TypeOK, ClientTypeOK
  <2>2. CASE CloseClient(c)
    <3>1. reply[c] = NoPacket
      BY <2>2 DEF IInv, Knowledge
    <3> QED
      BY <2>1, <2>2, <3>1
  <2>3. CASE KillClient(c)
    BY <2>1, <2>3
  <2> QED
    BY <2>2, <2>3
<1>2. TypeOK'
  BY <1>1 DEF IInv, TypeOK, ClientTypeOK, Phases
<1>3. Queue'
  BY <1>1, ElementOfSeq DEF IInv, Queue, TypeOK, ClientTypeOK
<1>4. SeatsBelongToThreads' /\ Threads'
  BY <1>1, ServerStands
<1>5. \A d \in Clients : Knowledge(d)'
  BY <1>1, OwnerUnchanged DEF IInv, Knowledge, NoIdYet, Playing
<1>6. Streams'
  BY <1>1, OwnerUnchanged DEF IInv, Streams, StreamOK, PacketOK, NoIdYet
<1> QED
  BY <1>2, <1>3, <1>4, <1>5, <1>6 DEF IInv

LEMMA ClientKeeps ==
    ASSUME IInv, NEW c \in Clients, ClientStep(c) \/ KillClient(c),
           UNCHANGED <<serverVars, lang>>
    PROVE  IInv'
<1> USE DEF Login, Logout, Attack, Item
<1>1. CASE SendLogin(c)
  <2>1. PICK p : p = [type |-> Login, player_id |-> 0, username |-> c]
    OBVIOUS
  <2>2. p \in Packet /\ p.type = Login /\ p.username = c
    BY <2>1 DEF Packet
  <2> QED
    BY <1>1, <2>1, <2>2, SendStep DEF SendLogin, SendTcp
<1>2. ASSUME NEW type \in {Logout, Attack, Item}, NEW from \in Playing,
             NEW to \in Playing \cup {"left"}, GoTo(c, from, to),
             type = Logout => to = "left",
             SendTcp(c, type, my_id[c], NoClient)
      PROVE  IInv'
  <2>1. PICK p : p = [type |-> type, player_id |-> my_id[c],
                      username |-> NoClient]
    OBVIOUS
  <2>2. my_id[c] \in Nat
    BY <1>2 DEF IInv, Knowledge, Owns, Slots, GoTo
  <2>3. p \in Packet /\ p.type = type /\ p.player_id = my_id[c]
    BY <2>1, <2>2 DEF Packet
  <2>4. /\ tcp' = [tcp EXCEPT ![c] = Append(@, p)]
        /\ UNCHANGED <<my_id, reply, backlog, udp>>
    BY <1>2, <2>1 DEF SendTcp
  <2>5. /\ p.type # Login
        /\ p.type = Logout => to = "left"
    BY <1>2, <2>3
  <2> QED
    BY <1>2, <2>3, <2>4, <2>5, SendStep
<1>3. CASE SendAttack(c) \/ SendItem(c) \/ SendLogout(c)
  BY <1>2, <1>3 DEF SendAttack, SendItem, SendLogout, Playing
<1> QED
  BY <1>1, <1>3, ConnectStep, RecvIdStep, MoveStep, GoneStep DEF ClientStep

-----------------------------------------------------------------------------
(* Steps of the server.  What IInv says of one client is Local(c): a       *)
(* step of another thread keeps it, since it touches no seat of c.         *)

SeatKnown(c) ==
    /\ thread[c] \in {"read", "respond", "announce"} /\ conn_id[c] # NoId =>
            Owns(c, conn_id[c])
    /\ \A i \in Slots : Owner(i) = c => Assigned(c) = i /\ thread[c] # "ended"

AllSeated ==
    \A i \in Slots : players[i].is_active => players[i].tcp_write \in Clients

Local(c) == SeatKnown(c) /\ ThreadOK(c) /\ Knowledge(c) /\ StreamOK(c)

LEMMA ByClient ==
    TypeOK => ( SeatsBelongToThreads <=>
                    AllSeated /\ \A c \in Clients : SeatKnown(c) )
<1> SUFFICES ASSUME TypeOK
             PROVE  SeatsBelongToThreads <=>
                        AllSeated /\ \A c \in Clients : SeatKnown(c)
  OBVIOUS
<1>1. /\ \A i \in Slots : players[i].tcp_write \in Clients \cup {NoClient}
      /\ \A c \in Clients : conn_id[c] \in Slots \cup {NoId}
  BY DEF TypeOK, Player
<1>2. ASSUME SeatsBelongToThreads
      PROVE  AllSeated /\ \A c \in Clients : SeatKnown(c)
  BY <1>1, <1>2, ClientAssumption
  DEF SeatsBelongToThreads, AllSeated, SeatKnown, Owns, Owner
<1>3. ASSUME AllSeated, \A c \in Clients : SeatKnown(c)
      PROVE  SeatsBelongToThreads
  BY <1>1, <1>3, ClientAssumption
  DEF SeatsBelongToThreads, AllSeated, SeatKnown, Owns, Owner
<1> QED
  BY <1>2, <1>3

Parts == /\ TypeOK /\ Queue /\ AllSeated
         /\ \A c \in Clients : Local(c)

LEMMA LocalParts == IInv => AllSeated /\ \A c \in Clients : Local(c)
BY ByClient DEF IInv, Threads, Streams, Local

LEMMA FromParts == Parts => IInv
BY ByClient DEF IInv, Threads, Streams, Local, Parts

LEMMA FromPartsAfter ==
    ASSUME TypeOK', Queue', AllSeated',
           \A c \in Clients : Local(c)'
    PROVE  IInv'
<1>1. Parts'
  BY DEF Parts
<1> QED
  BY <1>1, FromParts, PTL

(* The client d is left alone by a step.                                   *)
Untouched(d) ==
    /\ phase'[d] = phase[d] /\ my_id'[d] = my_id[d] /\ lang' = lang
    /\ thread'[d] = thread[d] /\ conn_id'[d] = conn_id[d]
    /\ pkt'[d] = pkt[d] /\ tcp'[d] = tcp[d] /\ reply'[d] = reply[d]

SeatsUntouched(d) == /\ \A i : Owns(d, i)' <=> Owns(d, i)
                     /\ Seatless(d)' <=> Seatless(d)

LEMMA LocalKept ==
    ASSUME NEW d \in Clients, Local(d), Untouched(d), SeatsUntouched(d)
    PROVE  Local(d)'
<1> USE DEF Untouched, SeatsUntouched
<1>1. SeatKnown(d)'
  BY DEF Local, SeatKnown, Owns, Assigned
<1>2. ThreadOK(d)'
  BY DEF Local, ThreadOK
<1>3. Knowledge(d)'
  BY DEF Local, Knowledge
<1>4. StreamOK(d)'
  BY DEF Local, StreamOK, PacketOK
<1> QED
  BY <1>1, <1>2, <1>3, <1>4 DEF Local

(* A step of the thread of c, and what is left to show of it.              *)
OnlyThread(c) ==
    /\ thread[c] # "none" /\ thread'[c] # "none"
    /\ UNCHANGED <<phase, my_id, backlog, udp, udp_task, lang>>
    /\ \A d \in Clients \ {c} : Untouched(d) /\ SeatsUntouched(d)

LEMMA ThreadKeeps ==
    ASSUME IInv, NEW c \in Clients, OnlyThread(c),
           TypeOK', AllSeated', Local(c)'
    PROVE  IInv'
<1>1. \A d \in Clients : Local(d)'
  BY LocalParts, LocalKept DEF OnlyThread
<1>2. Queue'
  <2>1. \A a \in 1 .. Len(backlog) : backlog[a] \in Clients
    BY ElementOfSeq DEF IInv, TypeOK, ClientTypeOK
  <2> QED
    BY <2>1 DEF IInv, Queue, OnlyThread, Untouched
<1> QED
  BY <1>1, <1>2, FromPartsAfter

(* A packet that only passes through, or that is dropped.                  *)
LEMMA QuietRead ==
    ASSUME IInv, NEW c \in Clients, NEW types, Read(c, types),
           At(c, "read", "read"),
           UNCHANGED <<reply, players, conn_id, pkt, lang>>
    PROVE  IInv'
<1> USE DEF Read, At
<1>1. /\ tcp \in [Clients -> Seq(Packet)] /\ thread \in [Clients -> Work]
      /\ thread' = thread
  BY DEF IInv, TypeOK, ClientTypeOK
<1>2. OnlyThread(c)
  BY <1>1, OwnerUnchanged, StreamShrinks
  DEF OnlyThread, Untouched, SeatsUntouched
<1>3. TypeOK'
  BY <1>1, StreamShrinks DEF IInv, TypeOK, ClientTypeOK
<1>4. AllSeated' /\ Local(c)
  BY LocalParts DEF AllSeated
<1>5. Local(c)'
  <2>1. SeatKnown(c)' /\ ThreadOK(c)' /\ Knowledge(c)'
    BY <1>1, <1>4, OwnerUnchanged
    DEF Local, SeatKnown, ThreadOK, Knowledge, Assigned
  <2>2. ASSUME NEW k \in 1 .. Len(tcp'[c]) PROVE PacketOK(c, k)'
    <3>1. /\ k \in Nat
          /\ k + 1 \in 1 .. Len(tcp[c]) /\ tcp'[c][k] = tcp[c][k + 1]
          /\ Len(tcp'[c]) = Len(tcp[c]) - 1 /\ Len(tcp[c]) \in Nat
      BY <1>1, <2>2, StreamShrinks
    <3>2. PacketOK(c, k + 1)
      BY <1>4, <3>1 DEF Local, StreamOK
    <3>3. tcp[c][k + 1].type # Login
      BY <3>1, <3>2 DEF PacketOK
    <3> QED
      BY <3>1, <3>2, <3>3, OwnerUnchanged DEF PacketOK
  <2>3. phase'[c] \notin {"start", "connected"}
    BY <1>4 DEF Local, StreamOK
  <2> QED
    BY <2>1, <2>2, <2>3 DEF Local, StreamOK
<1> QED
  BY <1>2, <1>3, <1>4, <1>5, ThreadKeeps

LEMMA RelayStep ==
    ASSUME IInv, NEW c \in Clients, Relay(c), lang' = lang, ~Overtakes
    PROVE  IInv'
<1>1. Head(tcp[c]) \in Packet
  BY StreamShrinks DEF Relay, Read, IInv, TypeOK, ClientTypeOK
<1>2. reply' = reply
  BY <1>1, BroadcastKeepsReplies DEF Relay, Read, At
<1> QED
  BY <1>2, QuietRead DEF Relay, Read

(* Login: the seat is taken.  Only the Rust thread knows it at once.       *)
LEMMA TakeSeatStep ==
    ASSUME IInv, NEW c \in Clients, NEW i \in FreeSlots, TakeSeat(c, i),
           lang' = lang,
           \/ conn_id' = [conn_id EXCEPT ![c] = i]
           \/ lang # "rs" /\ conn_id' = conn_id
    PROVE  IInv' /\ Seatless(c) /\ AllocPlayer(i, c, c)
<1> USE DEF Read, At, TakeSeat
<1>1. /\ tcp \in [Clients -> Seq(Packet)] /\ thread \in [Clients -> Work]
      /\ conn_id \in [Clients -> Slots \cup {NoId}]
      /\ pkt \in [Clients -> Packet \cup {NoPacket}]
      /\ i \in Slots /\ i \in Nat
      /\ AllSeated /\ Local(c)
  BY LocalParts DEF IInv, TypeOK, ClientTypeOK, FreeSlots, Slots
<1>2. /\ Head(tcp[c]) \in Packet /\ Head(tcp[c]).username = c
      /\ Head(tcp[c]).type = Login
      /\ Seatless(c) /\ phase[c] \in {"waiting", "gone"}
      /\ tcp'[c] = <<>> /\ tcp' \in [Clients -> Seq(Packet)]
      /\ \A d \in Clients \ {c} : tcp'[d] = tcp[d]
  <2>1. /\ Head(tcp[c]) = tcp[c][1] /\ Head(tcp[c]) \in Packet
        /\ 1 \in 1 .. Len(tcp[c])
        /\ Len(tcp'[c]) = Len(tcp[c]) - 1 /\ tcp' \in [Clients -> Seq(Packet)]
        /\ \A d \in Clients \ {c} : tcp'[d] = tcp[d]
    BY <1>1, StreamShrinks
  <2>2. PacketOK(c, 1)
    BY <1>1, <2>1 DEF Local, StreamOK
  <2>3. Len(tcp'[c]) = 0
    BY <2>1, <2>2 DEF PacketOK
  <2> QED
    BY <2>1, <2>2, <2>3, EmptySeq DEF PacketOK
<1>3. AllocPlayer(i, c, c)
  BY <1>2
<1>4. PICK p : p = [Head(tcp[c]) EXCEPT !.player_id = i]
  OBVIOUS
<1>5. /\ p \in Packet /\ p.player_id = i /\ p # NoPacket
      /\ pkt'[c] = p /\ pkt' \in [Clients -> Packet \cup {NoPacket}]
      /\ \A d \in Clients \ {c} : pkt'[d] = pkt[d]
  <2>1. p \in Packet /\ p.player_id = i
    BY <1>1, <1>2, <1>4 DEF Packet
  <2> QED
    BY <1>1, <1>4, <2>1, ClientAssumption
<1>6. /\ conn_id[c] = NoId /\ conn_id' \in [Clients -> Slots \cup {NoId}]
      /\ conn_id'[c] \in {NoId, i}
      /\ lang = "rs" => conn_id'[c] = i
      /\ \A d \in Clients \ {c} : conn_id'[d] = conn_id[d]
  BY <1>1, <1>2 DEF Local, SeatKnown, Owns, Seatless
<1>7. /\ players' \in [Slots -> Player]
      /\ AllSeated'
      /\ \A j \in Slots : Owner(j)' = c <=> j = i
      /\ \A d \in Clients \ {c} : SeatsUntouched(d)
  <2>1. /\ players' \in [Slots -> Player]
        /\ \A j \in Slots \ {i} : players'[j] = players[j]
        /\ players'[i].is_active /\ players'[i].tcp_write = c
        /\ \A j \in Slots : Owner(j)' = IF j = i THEN c ELSE Owner(j)
        /\ \A d \in Clients \ {c} : /\ \A j : Owns(d, j)' <=> Owns(d, j)
                                    /\ Seatless(d)' <=> Seatless(d)
    BY <1>2, <1>3, SeatTaken DEF IInv
  <2>2. AllSeated'
    BY <1>1, <2>1 DEF AllSeated
  <2>3. \A j \in Slots : Owner(j)' = c <=> j = i
    BY <1>1, <1>2, <2>1 DEF Seatless
  <2> QED
    BY <2>1, <2>2, <2>3 DEF SeatsUntouched
<1>8. Owns(c, i)'
  BY <1>1, <1>7 DEF Owns
<1>9. OnlyThread(c)
  BY <1>1, <1>2, <1>5, <1>6, <1>7 DEF OnlyThread, Untouched
<1>10. TypeOK'
  BY <1>1, <1>2, <1>5, <1>6, <1>7 DEF IInv, TypeOK, ClientTypeOK, Work
<1>11. Local(c)'
  <2>1. SeatKnown(c)'
    BY <1>1, <1>5, <1>6, <1>7, <1>8 DEF SeatKnown, Assigned
  <2>2. ThreadOK(c)'
    BY <1>1, <1>5, <1>6, <1>8 DEF ThreadOK
  <2>3. Knowledge(c)'
    BY <1>1, <1>2 DEF Local, Knowledge, Playing, NoIdYet, Owns, Seatless
  <2>4. StreamOK(c)'
    BY <1>2, EmptySeq DEF StreamOK
  <2> QED
    BY <2>1, <2>2, <2>3, <2>4 DEF Local
<1> QED
  BY <1>2, <1>3, <1>7, <1>9, <1>10, <1>11, ThreadKeeps

(* The login response: written outside the critical section, but nothing   *)
(* else has been written to the client since.                              *)
LEMMA RespondStep ==
    ASSUME IInv, NEW c \in Clients, Respond(c), lang' = lang
    PROVE  IInv'
<1> USE DEF At, Respond, channelVars
<1>1. /\ thread \in [Clients -> Work] /\ thread[c] = "respond"
      /\ reply \in [Clients -> Packet \cup {NoPacket}]
      /\ pkt[c] \in Packet
      /\ Owns(c, pkt[c].player_id) /\ Owner(pkt[c].player_id) = c
      /\ AllSeated /\ Local(c)
  BY LocalParts
  DEF IInv, TypeOK, ClientTypeOK, Local, ThreadOK, Owns
<1>2. /\ reply' \in [Clients -> Packet \cup {NoPacket}]
      /\ reply'[c] = IF phase[c] = "waiting" /\ reply[c] = NoPacket
                     THEN pkt[c] ELSE reply[c]
      /\ \A d \in Clients \ {c} : reply'[d] = reply[d]
  BY <1>1 DEF Received
<1>3. OnlyThread(c)
  BY <1>1, <1>2, OwnerUnchanged DEF OnlyThread, Untouched, SeatsUntouched
<1>4. TypeOK'
  BY <1>1, <1>2 DEF IInv, TypeOK, ClientTypeOK, Work
<1>5. AllSeated'
  BY <1>1 DEF AllSeated
<1>6. Local(c)'
  <2>1. SeatKnown(c)'
    BY <1>1, OwnerUnchanged DEF Local, SeatKnown, Assigned
  <2>2. ThreadOK(c)'
    BY <1>1, OwnerUnchanged DEF Local, ThreadOK
  <2>3. Knowledge(c)'
    BY <1>1, <1>2, OwnerUnchanged, ClientAssumption
    DEF Local, Knowledge, Seatless, Owns
  <2>4. StreamOK(c)'
    BY <1>1, OwnerUnchanged DEF Local, StreamOK, PacketOK
  <2> QED
    BY <2>1, <2>2, <2>3, <2>4 DEF Local
<1> QED
  BY <1>3, <1>4, <1>5, <1>6, ThreadKeeps

(* server.cs: the write of the response throws.                            *)
LEMMA FailStep ==
    ASSUME IInv, NEW c \in Clients, At(c, "respond", "failed"), Gone(c),
           UNCHANGED <<clientVars, players, conn_id, pkt, udp_task, lang>>
    PROVE  IInv'
<1> USE DEF At, clientVars
<1>1. /\ thread \in [Clients -> Work] /\ AllSeated /\ Local(c)
  BY LocalParts DEF IInv, TypeOK
<1>2. OnlyThread(c)
  BY <1>1, OwnerUnchanged DEF OnlyThread, Untouched, SeatsUntouched
<1>3. TypeOK'
  BY <1>1 DEF IInv, TypeOK, ClientTypeOK, Work
<1>4. AllSeated'
  BY <1>1 DEF AllSeated
<1>5. Local(c)'
  <2>1. SeatKnown(c)' /\ ThreadOK(c)'
    BY <1>1, OwnerUnchanged DEF Local, SeatKnown, Assigned, ThreadOK
  <2>2. Knowledge(c)' /\ StreamOK(c)'
    BY <1>1, OwnerUnchanged DEF Local, Knowledge, StreamOK, PacketOK, Gone
  <2> QED
    BY <2>1, <2>2 DEF Local
<1> QED
  BY <1>2, <1>3, <1>4, <1>5, ThreadKeeps

(* Everyone is told of the login; by now the thread knows its id.          *)
LEMMA AnnounceStep ==
    ASSUME IInv, NEW c \in Clients, Announce(c), lang' = lang, ~Overtakes,
           \/ conn_id' = [conn_id EXCEPT ![c] = pkt[c].player_id]
           \/ lang = "rs" /\ conn_id' = conn_id
    PROVE  IInv'
<1> USE DEF At, Announce, channelVars
<1>1. /\ thread \in [Clients -> Work] /\ thread[c] = "announce"
      /\ conn_id \in [Clients -> Slots \cup {NoId}]
      /\ pkt \in [Clients -> Packet \cup {NoPacket}]
      /\ pkt[c] \in Packet
      /\ Owns(c, pkt[c].player_id) /\ pkt[c].player_id \in Slots
      /\ Owner(pkt[c].player_id) = c
      /\ AllSeated /\ Local(c)
  BY LocalParts DEF IInv, TypeOK, Local, ThreadOK, Owns
<1>2. reply' = reply
  BY <1>1, BroadcastKeepsReplies
<1>3. /\ conn_id' \in [Clients -> Slots \cup {NoId}]
      /\ conn_id'[c] = pkt[c].player_id
      /\ \A d \in Clients \ {c} : conn_id'[d] = conn_id[d]
  BY <1>1 DEF Local, ThreadOK
<1>4. OnlyThread(c)
  BY <1>1, <1>2, <1>3, OwnerUnchanged DEF OnlyThread, Untouched, SeatsUntouched
<1>5. TypeOK'
  BY <1>1, <1>2, <1>3 DEF IInv, TypeOK, ClientTypeOK, Work
<1>6. AllSeated'
  BY <1>1 DEF AllSeated
<1>7. Local(c)'
  <2>1. SeatKnown(c)'
    BY <1>1, <1>3, OwnerUnchanged DEF Local, SeatKnown, Assigned
  <2>2. ThreadOK(c)'
    BY <1>1 DEF ThreadOK
  <2>3. Knowledge(c)' /\ StreamOK(c)'
    BY <1>1, <1>2, OwnerUnchanged
    DEF Local, Knowledge, StreamOK, PacketOK, Seatless
  <2> QED
    BY <2>1, <2>2, <2>3 DEF Local
<1> QED
  BY <1>4, <1>5, <1>6, <1>7, ThreadKeeps

(* The logout is announced by a thread that has no seat any more.          *)
LEMMA FarewellStep ==
    ASSUME IInv, NEW c \in Clients, Farewell(c), lang' = lang, ~Overtakes
    PROVE  IInv'
<1> USE DEF At, Farewell, channelVars
<1>1. /\ thread \in [Clients -> Work] /\ thread[c] = "farewell"
      /\ conn_id \in [Clients -> Slots \cup {NoId}]
      /\ pkt \in [Clients -> Packet \cup {NoPacket}]
      /\ pkt[c] \in Packet /\ Seatless(c)
      /\ AllSeated /\ Local(c)
  BY LocalParts DEF IInv, TypeOK, Local, ThreadOK
<1>2. reply' = reply
  BY <1>1, BroadcastKeepsReplies
<1>3. OnlyThread(c)
  BY <1>1, <1>2, OwnerUnchanged DEF OnlyThread, Untouched, SeatsUntouched
<1>4. TypeOK'
  BY <1>1, <1>2 DEF IInv, TypeOK, ClientTypeOK, Work
<1>5. AllSeated'
  BY <1>1 DEF AllSeated
<1>6. Local(c)'
  <2>1. SeatKnown(c)' /\ ThreadOK(c)'
    BY <1>1, OwnerUnchanged DEF SeatKnown, ThreadOK, Seatless
  <2>2. Knowledge(c)' /\ StreamOK(c)'
    BY <1>1, <1>2, OwnerUnchanged
    DEF Local, Knowledge, StreamOK, PacketOK, Seatless
  <2> QED
    BY <2>1, <2>2 DEF Local
<1> QED
  BY <1>3, <1>4, <1>5, <1>6, ThreadKeeps

(* Logout: the seat the packet names is the one of the sender.             *)
LEMMA FreeNamedStep ==
    ASSUME IInv, NEW c \in Clients, FreeNamed(c), lang' = lang
    PROVE  /\ IInv'
           /\ Owns(c, Head(tcp[c]).player_id)
           /\ phase[c] \in {"left", "gone"}
<1> USE DEF Read, At, FreeNamed
<1>1. /\ tcp \in [Clients -> Seq(Packet)] /\ thread \in [Clients -> Work]
      /\ conn_id \in [Clients -> Slots \cup {NoId}]
      /\ pkt \in [Clients -> Packet \cup {NoPacket}]
      /\ thread[c] = "read"
      /\ AllSeated /\ Local(c)
  BY LocalParts DEF IInv, TypeOK, ClientTypeOK
<1>2. PICK i : i = Head(tcp[c]).player_id
  OBVIOUS
<1>3. /\ Head(tcp[c]) \in Packet
      /\ Owns(c, i) /\ i \in Slots /\ Owner(i) = c
      /\ phase[c] \in {"left", "gone"}
      /\ tcp'[c] = <<>> /\ tcp' \in [Clients -> Seq(Packet)]
      /\ \A d \in Clients \ {c} : tcp'[d] = tcp[d]
  <2>1. /\ Head(tcp[c]) = tcp[c][1] /\ Head(tcp[c]) \in Packet
        /\ 1 \in 1 .. Len(tcp[c])
        /\ Len(tcp'[c]) = Len(tcp[c]) - 1 /\ tcp' \in [Clients -> Seq(Packet)]
        /\ \A d \in Clients \ {c} : tcp'[d] = tcp[d]
    BY <1>1, StreamShrinks
  <2>2. PacketOK(c, 1)
    BY <1>1, <2>1 DEF Local, StreamOK
  <2>3. Len(tcp[c]) = 1 /\ Owns(c, i) /\ phase[c] \in {"left", "gone"}
    BY <1>2, <2>1, <2>2 DEF PacketOK, Login, Logout
  <2> QED
    BY <2>1, <2>3, EmptySeq DEF Owns
<1>4. /\ pkt' \in [Clients -> Packet \cup {NoPacket}] /\ pkt'[c] # NoPacket
      /\ \A d \in Clients \ {c} : pkt'[d] = pkt[d]
  BY <1>1, <1>3, ClientAssumption
<1>5. /\ players' \in [Slots -> Player]
      /\ \A j \in Slots \ {i} : players'[j] = players[j]
      /\ ~players'[i].is_active
      /\ Seatless(c)'
      /\ \A d \in Clients \ {c} : SeatsUntouched(d)
  BY <1>2, <1>3, SeatFreed DEF IInv, SeatsUntouched
<1>6. OnlyThread(c)
  BY <1>1, <1>3, <1>4, <1>5 DEF OnlyThread, Untouched
<1>7. TypeOK'
  BY <1>1, <1>3, <1>4, <1>5 DEF IInv, TypeOK, ClientTypeOK, Work
<1>8. AllSeated'
  BY <1>1, <1>3, <1>5 DEF AllSeated
<1>9. Local(c)'
  <2>1. SeatKnown(c)' /\ ThreadOK(c)'
    BY <1>1, <1>4, <1>5 DEF SeatKnown, ThreadOK, Seatless
  <2>2. Knowledge(c)'
    BY <1>1, <1>3, <1>5 DEF Local, Knowledge, Playing, NoIdYet
  <2>3. StreamOK(c)'
    <3> HIDE DEF Read, FreeNamed
    <3> QED
      BY <1>3, EmptySeq DEF StreamOK
  <2> QED
    BY <2>1, <2>2, <2>3 DEF Local
<1> QED
  BY <1>2, <1>3, <1>6, <1>7, <1>8, <1>9, ThreadKeeps

(* The end of the stream: my_id is the seat of this connection or none.    *)
LEMMA HangUpStep ==
    ASSUME IInv, NEW c \in Clients, HangUp(c), lang' = lang,
           tcp' = [tcp EXCEPT ![c] = <<>>]
    PROVE  /\ IInv'
           /\ conn_id[c] # NoId =>
                    Owns(c, conn_id[c]) /\ FreePlayer(conn_id[c])
           /\ conn_id[c] = NoId => players' = players
<1> USE DEF At, HangUp, FreeOwn
<1>1. /\ tcp \in [Clients -> Seq(Packet)] /\ thread \in [Clients -> Work]
      /\ thread[c] = "read" /\ phase[c] = "gone"
      /\ conn_id[c] \in Slots \cup {NoId}
      /\ AllSeated /\ Local(c)
  BY LocalParts DEF IInv, TypeOK, ClientTypeOK, Gone
<1>2. /\ conn_id[c] # NoId => Owns(c, conn_id[c]) /\ FreePlayer(conn_id[c])
      /\ conn_id[c] = NoId => players' = players
  BY <1>1 DEF Local, SeatKnown
<1>3. /\ players' \in [Slots -> Player] /\ AllSeated'
      /\ Seatless(c)'
      /\ \A d \in Clients \ {c} : SeatsUntouched(d)
  <2>1. CASE conn_id[c] = NoId
    <3>1. Seatless(c)
      BY <1>1, <2>1 DEF Local, SeatKnown, Assigned, Seatless, Slots, NoId
    <3> QED
      BY <1>1, <1>2, <2>1, <3>1, OwnerUnchanged
      DEF IInv, TypeOK, AllSeated, SeatsUntouched
  <2>2. CASE conn_id[c] # NoId
    <3>1. PICK i : i = conn_id[c]
      OBVIOUS
    <3>2. i \in Slots /\ Owner(i) = c /\ FreePlayer(i)
      BY <1>2, <2>2, <3>1 DEF Owns
    <3>3. /\ players' \in [Slots -> Player]
          /\ \A j \in Slots \ {i} : players'[j] = players[j]
          /\ ~players'[i].is_active
          /\ Seatless(c)'
          /\ \A d \in Clients \ {c} : SeatsUntouched(d)
      BY <3>2, SeatFreed DEF IInv, SeatsUntouched
    <3> QED
      BY <1>1, <3>3 DEF AllSeated
  <2> QED
    BY <2>1, <2>2
<1>4. OnlyThread(c)
  BY <1>1, <1>3 DEF OnlyThread, Untouched
<1>5. TypeOK'
  BY <1>1, <1>3, EmptySeq DEF IInv, TypeOK, ClientTypeOK, Work
<1>6. Local(c)'
  <2>1. SeatKnown(c)' /\ ThreadOK(c)'
    BY <1>1, <1>3 DEF SeatKnown, ThreadOK, Seatless
  <2>2. Knowledge(c)'
    BY <1>1 DEF Local, Knowledge, Playing, NoIdYet
  <2>3. StreamOK(c)'
    BY <1>1, EmptySeq DEF StreamOK
  <2> QED
    BY <2>1, <2>2, <2>3 DEF Local
<1> QED
  BY <1>2, <1>3, <1>4, <1>5, <1>6, ThreadKeeps

(* The listener hands the oldest connection to a new thread.               *)
LEMMA AcceptStep ==
    ASSUME IInv, Accept, lang' = lang
    PROVE  IInv'
<1> USE DEF Accept
<1>1. PICK c : c = Head(backlog)
  OBVIOUS
<1>2. /\ backlog \in Seq(Clients) /\ backlog # <<>>
      /\ thread \in [Clients -> Work]
  BY DEF IInv, TypeOK, ClientTypeOK
<1>3. /\ c \in Clients /\ c = backlog[1] /\ 1 \in 1 .. Len(backlog)
      /\ Len(backlog) \in Nat /\ Len(backlog') = Len(backlog) - 1
      /\ backlog' \in Seq(Clients)
      /\ \A a \in 1 .. Len(backlog') : /\ a + 1 \in 1 .. Len(backlog)
                                       /\ backlog'[a] = backlog[a + 1]
  BY <1>1, <1>2, HeadTailProperties, LenProperties, EmptySeq
<1>4. /\ thread' = [thread EXCEPT ![c] = "read"] /\ thread[c] = "none"
      /\ conn_id[c] = NoId /\ phase[c] # "start"
      /\ AllSeated /\ Local(c)
  BY <1>1, <1>3, LocalParts DEF IInv, Queue, Threads, ThreadOK
<1>5. TypeOK'
  BY <1>2, <1>3, <1>4 DEF IInv, TypeOK, ClientTypeOK, Work
<1>6. Queue'
  <2> HIDE DEF Accept
  <2>1. phase' = phase
    BY DEF Accept
  <2>2. \A a, b \in 1 .. Len(backlog') : backlog'[a] = backlog'[b] => a = b
    BY <1>3 DEF IInv, Queue
  <2>3. ASSUME NEW a \in 1 .. Len(backlog')
        PROVE  thread'[backlog'[a]] = "none" /\ phase[backlog'[a]] # "start"
    <3>1. /\ a \in Nat /\ a + 1 \in 1 .. Len(backlog)
          /\ a + 1 # 1 /\ backlog'[a] = backlog[a + 1]
      BY <1>3, <2>3
    <3>2. backlog'[a] # c /\ thread[backlog'[a]] = "none"
          /\ phase[backlog'[a]] # "start"
      BY <1>3, <3>1 DEF IInv, Queue
    <3>3. backlog'[a] \in Clients
      BY <1>2, <3>1, ElementOfSeq
    <3> QED
      BY <1>2, <1>4, <3>2, <3>3
  <2>4. \A d \in Clients : phase[d] = "start" => thread'[d] = "none"
    BY <1>2, <1>4 DEF IInv, Queue
  <2> QED
    BY <2>1, <2>2, <2>3, <2>4 DEF Queue
<1>7. AllSeated'
  BY <1>4 DEF IInv, AllSeated
<1>8. \A d \in Clients : SeatsUntouched(d)
  BY OwnerUnchanged DEF SeatsUntouched
<1>9. \A d \in Clients \ {c} : Local(d)'
  BY <1>2, <1>4, <1>8, LocalParts, LocalKept DEF Untouched
<1>10. Local(c)'
  <2>1. SeatKnown(c)' /\ ThreadOK(c)'
    BY <1>2, <1>4, OwnerUnchanged DEF Local, SeatKnown, ThreadOK, Assigned
  <2>2. Knowledge(c)' /\ StreamOK(c)'
    BY <1>2, <1>4, OwnerUnchanged DEF Local, Knowledge, StreamOK, PacketOK
  <2> QED
    BY <2>1, <2>2 DEF Local
<1>11. \A d \in Clients : Local(d)'
  BY <1>9, <1>10
<1> QED
  BY <1>5, <1>6, <1>7, <1>11, FromPartsAfter

(* A Move is recorded in the seat it names, and makes nobody its owner.    *)
LEMMA UdpStep ==
    ASSUME IInv, NEW d \in udp, RecordMove(d), udp' \in SUBSET udp,
           UNCHANGED <<phase, my_id, reply, backlog, tcp, thread, conn_id,
                       pkt, lang>>,
           udp_task' \in {"up", "unreached", "down"},
           udp_task' # "up" => udp_task # "up" \/ \E i \in Slots :
                players'[i].udp_addr # NoClient /\ Gone(players'[i].udp_addr)
    PROVE  IInv' /\ \A i \in Slots : Owner(i)' = Owner(i)
<1>1. /\ players \in [Slots -> Player] /\ d.src \in Clients
  BY DEF IInv, TypeOK, ClientTypeOK, Datagram
<1>2. /\ players' \in [Slots -> Player]
      /\ \A i \in Slots : /\ players'[i].is_active = players[i].is_active
                          /\ players'[i].tcp_write = players[i].tcp_write
  <2>1. CASE d.player_id \in Slots /\ players[d.player_id].is_active
    <3>1. PICK i : i = d.player_id
      OBVIOUS
    <3>2. PICK p : p = [players[i] EXCEPT !.udp_addr = d.src]
      OBVIOUS
    <3>3. /\ p \in Player /\ p.is_active = players[i].is_active
          /\ p.tcp_write = players[i].tcp_write
      BY <1>1, <2>1, <3>1, <3>2 DEF Player
    <3>4. players' = [players EXCEPT ![i] = p]
      BY <2>1, <3>1, <3>2 DEF RecordMove
    <3> QED
      BY <1>1, <2>1, <3>1, <3>3, <3>4
  <2>2. CASE ~(d.player_id \in Slots /\ players[d.player_id].is_active)
    BY <1>1, <2>2 DEF RecordMove
  <2> QED
    BY <2>1, <2>2
<1>3. /\ \A i \in Slots : Owner(i)' = Owner(i)
      /\ \A c : SeatsUntouched(c)
  BY <1>2 DEF SeatsUntouched, Owner, Owns, Seatless
<1>4. TypeOK'
  BY <1>2 DEF IInv, TypeOK, ClientTypeOK
<1>5. AllSeated' /\ Queue'
  BY <1>2, LocalParts DEF IInv, AllSeated, Queue
<1>6. \A c \in Clients : Local(c)'
  BY <1>3, LocalParts, LocalKept DEF Untouched
<1> QED
  BY <1>3, <1>4, <1>5, <1>6, FromPartsAfter

-----------------------------------------------------------------------------
(* The steps of both servers, in the terms of LockTable.                   *)

Drop(c) == /\ Read(c, {Login}) /\ At(c, "read", "read")
           /\ UNCHANGED <<reply, players, conn_id, pkt>>

Take(c, i) == /\ TakeSeat(c, i)
              /\ \/ conn_id' = [conn_id EXCEPT ![c] = i]
                 \/ lang # "rs" /\ conn_id' = conn_id

Fail(c) == /\ At(c, "respond", "failed") /\ Gone(c)
           /\ UNCHANGED <<clientVars, players, conn_id, pkt, udp_task>>

Tell(c) == /\ Announce(c)
           /\ \/ conn_id' = [conn_id EXCEPT ![c] = pkt[c].player_id]
              \/ lang = "rs" /\ conn_id' = conn_id

EndStream(c) == HangUp(c) /\ tcp' = [tcp EXCEPT ![c] = <<>>]

(* A Logout with an id out of range.                                       *)
NoSuchSeat(c) == Read(c, {Logout}) /\ Head(tcp[c]).player_id \notin Slots

ThreadStep(c) ==
    \/ Drop(c) \/ \E i \in FreeSlots : Take(c, i)
    \/ Respond(c) \/ Fail(c) \/ Tell(c)
    \/ FreeNamed(c) \/ NoSuchSeat(c) \/ Farewell(c)
    \/ Relay(c) \/ EndStream(c)

UdpThread(d) ==
    /\ RecordMove(d)
    /\ udp' \in SUBSET udp
    /\ UNCHANGED <<phase, my_id, reply, backlog, tcp, thread, conn_id, pkt>>
    /\ udp_task' \in {"up", "unreached", "down"}
    /\ udp_task' # "up" => udp_task # "up" \/ \E i \in Slots :
            players'[i].udp_addr # NoClient /\ Gone(players'[i].udp_addr)

UdpEnds ==
    /\ udp_task # "up" /\ udp_task' = "down"
    /\ UNCHANGED <<clientVars, players, thread, conn_id, pkt>>

LEMMA RustThread ==
    ASSUME TypeOK, NEW c \in Clients, RS!Thread(c), lang = "rs"
    PROVE  ThreadStep(c)
<1> USE DEF RS!Read, Read, RS!At, At, RS!Slots, Slots, RS!FreeSlots, FreeSlots,
        RS!Gone, Gone
<1>1. CASE RS!ReadLogin(c)
  BY <1>1 DEF RS!ReadLogin, RS!NoSeat, Drop, RS!TakeSeat, Take, TakeSeat,
     RS!AllocPlayer, AllocPlayer, RS!Lowest, Lowest, ThreadStep,
     RS!Login, Login
<1>2. CASE RS!Respond(c)
  BY <1>2 DEF RS!Respond, Respond, RS!Received, Received, RS!channelVars,
     channelVars, ThreadStep
<1>3. CASE RS!Announce(c) /\ UNCHANGED conn_id
  BY <1>3 DEF RS!Announce, Announce, RS!BroadcastTcp, BroadcastTcp,
     RS!Received, Received, RS!channelVars, channelVars, Tell, ThreadStep
<1>4. CASE RS!ReadLogout(c)
  <2>1. CASE RS!FreeNamed(c)
    BY <2>1 DEF RS!FreeNamed, FreeNamed, RS!FreePlayer, FreePlayer,
       RS!Logout, Logout, ThreadStep
  <2>2. CASE ~RS!FreeNamed(c)
    BY <1>4, <2>2 DEF RS!ReadLogout, RS!Logout, Logout, NoSuchSeat, ThreadStep
  <2> QED
    BY <2>1, <2>2
<1>5. CASE RS!Farewell(c)
  BY <1>5 DEF RS!Farewell, Farewell, RS!BroadcastTcp, BroadcastTcp,
     RS!Received, Received, RS!channelVars, channelVars, RS!NoId, NoId,
     ThreadStep
<1>6. CASE RS!Relay(c)
  BY <1>6 DEF RS!Relay, Relay, RS!BroadcastTcp, BroadcastTcp,
     RS!Received, Received, RS!Attack, Attack, RS!Item, Item, ThreadStep
<1>7. CASE RS!Disconnect(c)
  <2>1. tcp' = [tcp EXCEPT ![c] = <<>>]
    BY <1>7 DEF RS!Disconnect, TypeOK, ClientTypeOK
  <2> QED
    BY <1>7, <2>1 DEF RS!Disconnect, RS!HangUp, HangUp, RS!FreeOwn, FreeOwn,
       RS!FreePlayer, FreePlayer, RS!NoId, NoId, EndStream, ThreadStep
<1> QED
  BY <1>1, <1>2, <1>3, <1>4, <1>5, <1>6, <1>7 DEF RS!Thread

LEMMA CSharpTask ==
    ASSUME NEW c \in Clients, CS!Task(c), lang = "cs"
    PROVE  ThreadStep(c)
<1> USE DEF CS!Read, Read, CS!At, At, CS!Slots, Slots, CS!FreeSlots, FreeSlots,
        CS!Gone, Gone
<1>1. CASE CS!ReadLogin(c)
  BY <1>1 DEF CS!ReadLogin, CS!NoSeat, Drop, CS!TakeSeat, Take, TakeSeat,
     CS!AllocPlayer, AllocPlayer, CS!Lowest, Lowest, ThreadStep,
     CS!Login, Login
<1>2. CASE CS!WriteResponse(c)
  BY <1>2 DEF CS!WriteResponse, CS!Respond, Respond, CS!Received, Received,
     CS!channelVars, channelVars, CS!clientVars, clientVars, Fail, ThreadStep
<1>3. CASE CS!ReturnId(c)
  BY <1>3 DEF CS!ReturnId, CS!Announce, Announce, CS!BroadcastTcp,
     BroadcastTcp, CS!Received, Received, CS!channelVars, channelVars, Tell,
     ThreadStep
<1>4. CASE CS!ReadLogout(c)
  <2>1. CASE CS!FreeNamed(c)
    BY <2>1 DEF CS!FreeNamed, FreeNamed, CS!FreePlayer, FreePlayer,
       CS!Logout, Logout, ThreadStep
  <2>2. CASE ~CS!FreeNamed(c)
    BY <1>4, <2>2 DEF CS!ReadLogout, CS!Logout, Logout, NoSuchSeat, ThreadStep
  <2> QED
    BY <2>1, <2>2
<1>5. CASE CS!Farewell(c)
  BY <1>5 DEF CS!Farewell, Farewell, CS!BroadcastTcp, BroadcastTcp,
     CS!Received, Received, CS!channelVars, channelVars, CS!NoId, NoId,
     ThreadStep
<1>6. CASE CS!Relay(c)
  BY <1>6 DEF CS!Relay, Relay, CS!BroadcastTcp, BroadcastTcp,
     CS!Received, Received, CS!Attack, Attack, CS!Item, Item, ThreadStep
<1>7. CASE CS!EndOfStream(c)
  BY <1>7 DEF CS!EndOfStream, CS!HangUp, HangUp, CS!FreeOwn, FreeOwn,
     CS!FreePlayer, FreePlayer, CS!NoId, NoId, EndStream, ThreadStep
<1> QED
  BY <1>1, <1>2, <1>3, <1>4, <1>5, <1>6, <1>7 DEF CS!Task

UdpProgress == (\E d \in udp : UdpThread(d)) \/ UdpEnds

ClientOrKill(c) ==
    UNCHANGED serverVars /\ (ClientStep(c) \/ KillClient(c))

LEMMA RustServer ==
    ASSUME TypeOK, RS!Next, lang = "rs"
    PROVE  \/ Accept \/ UdpProgress
           \/ \E c \in Clients : ThreadStep(c) \/ ClientOrKill(c)
<1>1. CASE RS!Accept
  BY <1>1 DEF RS!Accept, Accept
<1>2. CASE RS!RecvUdp
  BY <1>2 DEF RS!RecvUdp, RS!RecordMove, RecordMove, RS!Slots, Slots,
     UdpProgress, UdpThread, TypeOK
<1>3. ASSUME NEW c \in Clients, RS!Thread(c) PROVE ThreadStep(c)
  BY <1>3, RustThread
<1>4. ASSUME NEW c \in Clients, RS!Environment(c) \/ RS!Kill(c)
      PROVE  ClientOrKill(c)
  <2>1. RS!ClientStep(c) => ClientStep(c)
    BY DEF RS!ClientStep, ClientStep, RS!Connect, Connect, RS!GoTo, GoTo,
       RS!SendLogin, SendLogin, RS!SendTcp, SendTcp, RS!RecvId, RecvId,
       RS!channelVars, channelVars, RS!SendMove, SendMove, RS!SendAttack,
       SendAttack, RS!SendItem, SendItem, RS!SendLogout, SendLogout,
       RS!CloseClient, CloseClient, RS!Login, Login, RS!Logout, Logout,
       RS!Attack, Attack, RS!Item, Item
  <2>2. RS!KillClient(c) => KillClient(c)
    BY DEF RS!KillClient, KillClient, RS!channelVars, channelVars
  <2> QED
    BY <1>4, <2>1, <2>2 DEF RS!Environment, RS!Kill, RS!serverVars,
       serverVars, ClientOrKill
<1> QED
  BY <1>1, <1>2, <1>3, <1>4 DEF RS!Next

LEMMA CSharpServer ==
    ASSUME TypeOK, CS!Next, lang = "cs"
    PROVE  \/ Accept \/ UdpProgress
           \/ \E c \in Clients : ThreadStep(c) \/ ClientOrKill(c)
<1>1. CASE CS!Accept
  BY <1>1 DEF CS!Accept, Accept
<1>2. CASE CS!RecvUdp
  BY <1>2 DEF CS!RecvUdp, CS!RecordMove, RecordMove, CS!Slots, Slots,
     CS!BroadcastUdp, CS!Gone, Gone, UdpProgress, UdpThread, TypeOK
<1>3. CASE CS!UdpThrows
  BY <1>3 DEF CS!UdpThrows, CS!clientVars, clientVars, UdpProgress, UdpEnds
<1>4. ASSUME NEW c \in Clients, CS!Task(c) PROVE ThreadStep(c)
  BY <1>4, CSharpTask
<1>5. ASSUME NEW c \in Clients, CS!Environment(c) \/ CS!Kill(c)
      PROVE  ClientOrKill(c)
  <2>1. CS!ClientStep(c) => ClientStep(c)
    BY DEF CS!ClientStep, ClientStep, CS!Connect, Connect, CS!GoTo, GoTo,
       CS!SendLogin, SendLogin, CS!SendTcp, SendTcp, CS!RecvId, RecvId,
       CS!channelVars, channelVars, CS!SendMove, SendMove, CS!SendAttack,
       SendAttack, CS!SendItem, SendItem, CS!SendLogout, SendLogout,
       CS!CloseClient, CloseClient, CS!Login, Login, CS!Logout, Logout,
       CS!Attack, Attack, CS!Item, Item
  <2>2. CS!KillClient(c) => KillClient(c)
    BY DEF CS!KillClient, KillClient, CS!channelVars, channelVars
  <2> QED
    BY <1>5, <2>1, <2>2 DEF CS!Environment, CS!Kill, CS!serverVars,
       serverVars, ClientOrKill
<1> QED
  BY <1>1, <1>2, <1>3, <1>4, <1>5 DEF CS!Next

(* A client speaks of no seat but its own.                                 *)
LEMMA NoStraySeat ==
    ASSUME IInv, NEW c \in Clients
    PROVE  ~NoSuchSeat(c)
<1> SUFFICES ASSUME NoSuchSeat(c) PROVE FALSE
  OBVIOUS
<1>1. /\ Head(tcp[c]) = tcp[c][1] /\ 1 \in 1 .. Len(tcp[c])
  BY StreamShrinks DEF NoSuchSeat, Read, IInv, TypeOK, ClientTypeOK
<1>2. PacketOK(c, 1)
  BY <1>1 DEF IInv, Streams, StreamOK
<1> QED
  BY <1>1, <1>2 DEF PacketOK, NoSuchSeat, Read, Owns, Login, Logout

LEMMA ThreadStepKeeps ==
    ASSUME IInv, NEW c \in Clients, ThreadStep(c), lang' = lang, ~Overtakes
    PROVE  IInv'
<1>1. CASE Drop(c)
  BY <1>1, QuietRead DEF Drop
<1>2. ASSUME NEW i \in FreeSlots, Take(c, i) PROVE IInv'
  BY <1>2, TakeSeatStep DEF Take
<1>3. CASE Respond(c) \/ Fail(c)
  BY <1>3, RespondStep, FailStep DEF Fail
<1>4. CASE Tell(c)
  BY <1>4, AnnounceStep DEF Tell
<1>5. CASE FreeNamed(c) \/ NoSuchSeat(c)
  BY <1>5, FreeNamedStep, NoStraySeat
<1>6. CASE Farewell(c) \/ Relay(c)
  BY <1>6, FarewellStep, RelayStep
<1>7. CASE EndStream(c)
  BY <1>7, HangUpStep DEF EndStream
<1> QED
  BY <1>1, <1>2, <1>3, <1>4, <1>5, <1>6, <1>7 DEF ThreadStep

LEMMA UdpKeeps ==
    ASSUME IInv, UdpProgress, lang' = lang
    PROVE  IInv' /\ \A i \in Slots : Owner(i)' = Owner(i)
<1>1. ASSUME NEW d \in udp, UdpThread(d)
      PROVE  IInv' /\ \A i \in Slots : Owner(i)' = Owner(i)
  BY <1>1, UdpStep DEF UdpThread
<1>2. CASE UdpEnds
  <2> USE <1>2 DEF UdpEnds, clientVars
  <2>1. TypeOK'
    BY DEF IInv, TypeOK, ClientTypeOK
  <2>2. Queue' /\ AllSeated'
    BY LocalParts DEF IInv, Queue, AllSeated
  <2>3. \A c \in Clients : Local(c)'
    BY OwnerUnchanged, LocalParts, LocalKept DEF Untouched, SeatsUntouched
  <2> QED
    BY <2>1, <2>2, <2>3, OwnerUnchanged, FromPartsAfter
<1> QED
  BY <1>1, <1>2 DEF UdpProgress

LEMMA StepKinds ==
    ASSUME IInv, InOrder(AnyNext)
    PROVE  /\ lang' = lang /\ ~Overtakes
           /\ \/ Accept \/ UdpProgress
              \/ \E c \in Clients : ThreadStep(c) \/ ClientOrKill(c)
BY RustServer, CSharpServer DEF IInv, InOrder, AnyNext

LEMMA NextIInv == IInv /\ [InOrder(AnyNext)]_<<vars, lang>> => IInv'
<1> SUFFICES ASSUME IInv, [InOrder(AnyNext)]_<<vars, lang>> PROVE IInv'
  OBVIOUS
<1>1. CASE InOrder(AnyNext)
  <2>1. lang' = lang /\ ~Overtakes
    BY <1>1, StepKinds
  <2>2. CASE Accept
    BY <2>1, <2>2, AcceptStep
  <2>3. CASE UdpProgress
    BY <2>1, <2>3, UdpKeeps
  <2>4. ASSUME NEW c \in Clients, ThreadStep(c) PROVE IInv'
    BY <2>1, <2>4, ThreadStepKeeps
  <2>5. ASSUME NEW c \in Clients, ClientOrKill(c) PROVE IInv'
    BY <2>1, <2>5, ClientKeeps DEF ClientOrKill
  <2> QED
    BY <1>1, <2>2, <2>3, <2>4, <2>5, StepKinds
<1>2. CASE UNCHANGED <<vars, lang>>
  <2> USE <1>2 DEF vars, clientVars, serverVars
  <2>1. TypeOK'
    BY DEF IInv, TypeOK, ClientTypeOK
  <2>2. Queue' /\ AllSeated'
    BY LocalParts DEF IInv, Queue, AllSeated
  <2>3. \A c \in Clients : Local(c)'
    BY OwnerUnchanged, LocalParts, LocalKept DEF Untouched, SeatsUntouched
  <2> QED
    BY <2>1, <2>2, <2>3, FromPartsAfter
<1> QED
  BY <1>1, <1>2

-----------------------------------------------------------------------------
(* The inductive invariant holds throughout, in both servers.              *)
THEOREM Invariance == OrderedSpec => []IInv
<1> QED
  BY InitIInv, NextIInv, PTL DEF OrderedSpec

(* Type correctness: among others, the my_id of a thread is always -1 or a *)
(* valid index into the table (server.rs and server.cs index with it).     *)
THEOREM TypeCorrect == OrderedSpec => []TypeOK
<1> QED
  BY Invariance, PTL DEF IInv

(* server.rs:14, server.cs:10, client.c:43: a client that has not logged   *)
(* out plays under the number of a seat that belongs to its connection,    *)
(* although it learns the number outside the critical section that gave    *)
(* it the seat, provided no broadcast overtakes the response.              *)
THEOREM IdsAgree == OrderedSpec => []AssignedId
<1>1. IInv => AssignedId
  BY DEF IInv, Knowledge, Owns, AssignedId
<1> QED
  BY <1>1, Invariance, PTL

(* While no broadcast overtakes a login response (OrderedSpec), a thread   *)
(* frees no seat but its own: while it has an id the seat is its own, and  *)
(* every taken seat is known to a thread that still runs.  Without the     *)
(* order, which the code does not enforce, a client may log out under the  *)
(* id of another and free the other's seat (monitor_race).                 *)
THEOREM SeatsAreOwned == OrderedSpec => []SeatsBelongToThreads
<1> QED
  BY Invariance, PTL DEF IInv

-----------------------------------------------------------------------------
(* The refinement of PlayerRegistry.                                       *)

LEMMA SeatsStand ==
    ASSUME \A i \in Slots : Owner(i)' = Owner(i), phase' = phase
    PROVE  UNCHANGED Registry!registryVars
BY DEF Registry!registryVars

LEMMA TakeJoins ==
    ASSUME IInv, NEW c \in Clients, NEW i \in FreeSlots, Take(c, i),
           lang' = lang
    PROVE  Registry!Next
<1>1. Seatless(c) /\ AllocPlayer(i, c, c) /\ i \in Slots
  BY TakeSeatStep DEF Take, FreeSlots
<1>2. /\ Owner(i) = NoClient
      /\ \A j \in Slots : Owner(j)' = IF j = i THEN c ELSE Owner(j)
  BY <1>1, SeatTaken DEF IInv
<1>3. [j \in Slots |-> Owner(j)']
        = [[j \in Slots |-> Owner(j)] EXCEPT ![i] = c]
  BY <1>1, <1>2
<1>4. phase' = phase
  BY DEF Take, TakeSeat, Read
<1>5. Registry!Join(c, i)
  BY <1>1, <1>2, <1>3, <1>4
  DEF Registry!Join, Registry!Seated, Registry!Settle, Seatless
<1> QED
  BY <1>1, <1>5 DEF Registry!Next

LEMMA FreeingLeaves ==
    ASSUME IInv, NEW c \in Clients, NEW i, Owns(c, i), FreePlayer(i),
           phase[c] \in {"left", "gone"}, phase' = phase
    PROVE  Registry!Next
<1>1. i \in Slots /\ Owner(i) = c
  BY DEF Owns
<1>2. \A j \in Slots : Owner(j)' = IF j = i THEN NoClient ELSE Owner(j)
  BY <1>1, SeatFreed DEF IInv
<1>3. [j \in Slots |-> Owner(j)']
        = [[j \in Slots |-> Owner(j)] EXCEPT ![i] = NoClient]
  BY <1>1, <1>2
<1>4. Registry!Leave(c, i)
  BY <1>1, <1>3 DEF Registry!Leave, Registry!Settle
<1> QED
  BY <1>1, <1>4 DEF Registry!Next

LEMMA ThreadRefines ==
    ASSUME IInv, NEW c \in Clients, ThreadStep(c), lang' = lang
    PROVE  Registry!Next \/ UNCHANGED Registry!registryVars
<1>1. CASE players' = players /\ phase' = phase
  BY <1>1, OwnerUnchanged, SeatsStand
<1>2. ASSUME NEW i \in FreeSlots, Take(c, i) PROVE Registry!Next
  BY <1>2, TakeJoins
<1>3. CASE FreeNamed(c)
  BY <1>3, FreeNamedStep, FreeingLeaves DEF FreeNamed, Read
<1>4. CASE EndStream(c)
  <2>1. phase' = phase /\ phase[c] = "gone"
    BY <1>4 DEF EndStream, HangUp, Gone
  <2>2. CASE conn_id[c] = NoId
    BY <1>1, <1>4, <2>1, <2>2, HangUpStep DEF EndStream
  <2>3. CASE conn_id[c] # NoId
    BY <1>4, <2>1, <2>3, HangUpStep, FreeingLeaves DEF EndStream
  <2> QED
    BY <2>2, <2>3
<1>5. CASE Drop(c) \/ Respond(c) \/ Fail(c) \/ Tell(c) \/ Farewell(c) \/ Relay(c)
  BY <1>1, <1>5
  DEF Drop, Read, Respond, Fail, clientVars, Tell, Announce, Farewell, Relay
<1> QED
  BY <1>2, <1>3, <1>4, <1>5, NoStraySeat DEF ThreadStep

LEMMA ClientRefines ==
    ASSUME IInv, NEW c \in Clients, ClientOrKill(c)
    PROVE  Registry!Next \/ UNCHANGED Registry!registryVars
<1>1. \A i \in Slots : Owner(i)' = Owner(i)
  BY OwnerUnchanged DEF ClientOrKill, serverVars
<1>2. phase \in [Clients -> Phases]
  BY DEF IInv, TypeOK, ClientTypeOK
<1>3. ASSUME NEW to \in {"left", "gone"}, phase' = [phase EXCEPT ![c] = to]
      PROVE  Registry!Next
  <2>1. {d \in Clients : phase'[d] \in {"left", "gone"}}
           = {d \in Clients : phase[d] \in {"left", "gone"}} \cup {c}
    BY <1>2, <1>3
  <2> QED
    BY <1>1, <2>1 DEF Registry!Next, Registry!Request
<1>4. ASSUME NEW from, NEW to, GoTo(c, from, to),
             from \notin {"left", "gone"}, to \notin {"left", "gone"}
      PROVE  UNCHANGED Registry!registryVars
  <2>1. {d \in Clients : phase'[d] \in {"left", "gone"}}
           = {d \in Clients : phase[d] \in {"left", "gone"}}
    BY <1>2, <1>4 DEF GoTo
  <2> QED
    BY <1>1, <2>1 DEF Registry!registryVars
<1>5. CASE KillClient(c)
  BY <1>3, <1>5 DEF KillClient
<1>6. CASE SendLogout(c) \/ CloseClient(c)
  BY <1>3, <1>6 DEF SendLogout, CloseClient, GoTo
<1>7. CASE ClientStep(c) /\ ~SendLogout(c) /\ ~CloseClient(c)
  BY <1>4, <1>7
  DEF ClientStep, Connect, SendLogin, RecvId, SendMove, SendAttack, SendItem
<1> QED
  BY <1>5, <1>6, <1>7 DEF ClientOrKill

(* Both servers implement PlayerRegistry: critical sections of threads     *)
(* that interleave in any order still give, keep and take back seats as    *)
(* the registry promises.                                                  *)
THEOREM Implements == OrderedSpec => RegistrySafety
<1>1. AnyInit => Registry!Init
  <2> SUFFICES ASSUME AnyInit PROVE Registry!Init
    OBVIOUS
  <2>1. \A i \in Slots : Owner(i) = NoClient
    BY DEF AnyInit, Init, Owner
  <2>2. {c \in Clients : phase[c] \in {"left", "gone"}} = {}
    BY DEF AnyInit, Init, ClientInit
  <2> QED
    BY <2>1, <2>2 DEF Registry!Init
<1>2. IInv /\ [InOrder(AnyNext)]_<<vars, lang>>
        => [Registry!Next]_Registry!registryVars
  <2> SUFFICES ASSUME IInv, [InOrder(AnyNext)]_<<vars, lang>>
               PROVE  Registry!Next \/ UNCHANGED Registry!registryVars
    OBVIOUS
  <2>1. CASE InOrder(AnyNext)
    <3>1. lang' = lang
      BY <2>1, StepKinds
    <3>2. CASE Accept
      BY <3>2, OwnerUnchanged, SeatsStand DEF Accept
    <3>3. CASE UdpProgress
      <4>1. phase' = phase
        BY <3>3 DEF UdpProgress, UdpThread, UdpEnds, clientVars
      <4> QED
        BY <3>1, <3>3, <4>1, UdpKeeps, SeatsStand
    <3> QED
      BY <2>1, <3>1, <3>2, <3>3, StepKinds, ThreadRefines, ClientRefines
  <2>2. CASE UNCHANGED <<vars, lang>>
    BY <2>2, OwnerUnchanged, SeatsStand DEF vars, clientVars, serverVars
  <2> QED
    BY <2>1, <2>2
<1> QED
  BY <1>1, <1>2, Invariance, PTL DEF OrderedSpec, RegistrySafety, Registry!Spec
=============================================================================
