----------------------------- MODULE GameClient -----------------------------
(***************************************************************************)
(* The week-13 game client (src/week13/client.c) and the channels between  *)
(* it and whichever game server it talks to.                               *)
(*                                                                         *)
(* Each element of Clients is one run of the client program: connect, log  *)
(* in over TCP, wait for the assigned player_id, send one Move datagram,   *)
(* one Attack, one Item and one Logout, close.  A run may be killed at any *)
(* point after it connected; the kernel then closes its sockets.           *)
(*                                                                         *)
(* A packet keeps the three fields the server's control depends on.  The   *)
(* stream from the server is reduced to the first packet in it that the    *)
(* login has not read yet (reply): recv_loop only prints the later ones.   *)
(* The client talks to 127.0.0.1 and sends whole packets, so one recv of   *)
(* sizeof(Packet) bytes takes exactly one packet off the stream.           *)
(***************************************************************************)
EXTENDS Integers, Sequences, FiniteSets

CONSTANTS
    Clients,    \* runs of the client program
    NoClient,   \* no client at all
    NoPacket,   \* nothing received yet
    Backlog     \* connections the listening socket holds before accept()

VARIABLES
    phase,      \* how far main() of each client has come
    my_id,      \* my_id of client.c, NoId before the login response is read
    reply,      \* first packet waiting in the client's receive buffer
    backlog,    \* connected clients the server has not accepted, oldest first
    tcp,        \* packets sent by each client and not yet read by the server
    udp         \* Move datagrams in flight

channelVars == <<backlog, tcp, udp>>
clientVars == <<phase, my_id, reply, backlog, tcp, udp>>

Login  == 1
Logout == 2
Attack == 4
Item   == 5

NoId == -1

Packet == [type : {Login, Logout, Attack, Item},
           player_id : Nat,
           username : Clients \cup {NoClient}]

ASSUME ClientAssumption ==
    /\ NoClient \notin Clients
    /\ NoPacket \notin Packet
    /\ Backlog \in Nat \ {0}

Datagram == [player_id : Nat, src : Clients]

Phases == {"start", "connected", "waiting", "ready", "moved", "attacked",
           "used", "left", "gone"}

(* The client knows its id and has not sent Logout.                        *)
Playing == {"ready", "moved", "attacked", "used"}

ClientTypeOK ==
    /\ phase \in [Clients -> Phases]
    /\ my_id \in [Clients -> Nat \cup {NoId}]
    /\ reply \in [Clients -> Packet \cup {NoPacket}]
    /\ backlog \in Seq(Clients)
    /\ tcp \in [Clients -> Seq(Packet)]
    /\ udp \in SUBSET Datagram

ClientInit ==
    /\ phase = [c \in Clients |-> "start"]
    /\ my_id = [c \in Clients |-> NoId]
    /\ reply = [c \in Clients |-> NoPacket]
    /\ backlog = <<>>
    /\ tcp = [c \in Clients |-> <<>>]
    /\ udp = {}

-----------------------------------------------------------------------------
GoTo(c, from, to) ==
    /\ phase[c] = from
    /\ phase' = [phase EXCEPT ![c] = to]

(* connect(): the kernel completes the handshake while the queue has room. *)
Connect(c) ==
    /\ GoTo(c, "start", "connected")
    /\ Len(backlog) < Backlog
    /\ backlog' = Append(backlog, c)
    /\ UNCHANGED <<my_id, reply, tcp, udp>>

(* send_tcp(): append one packet to the stream.  A field left out of the   *)
(* designated initializer is zero.                                         *)
SendTcp(c, type, id, name) ==
    /\ tcp' = [tcp EXCEPT ![c] = Append(@, [type |-> type, player_id |-> id,
                                            username |-> name])]
    /\ UNCHANGED <<my_id, reply, backlog, udp>>

SendLogin(c) ==
    /\ GoTo(c, "connected", "waiting")
    /\ SendTcp(c, Login, 0, c)

(* The blocking recv() of the login response: whatever packet comes first  *)
(* is taken for it.                                                        *)
RecvId(c) ==
    /\ GoTo(c, "waiting", "ready")
    /\ reply[c] # NoPacket
    /\ my_id' = [my_id EXCEPT ![c] = reply[c].player_id]
    /\ reply' = [reply EXCEPT ![c] = NoPacket]
    /\ UNCHANGED channelVars

(* Mutation variant: the initializer of the Move packet lost .player_id.   *)
SendMoveWithoutId(c) ==
    /\ GoTo(c, "ready", "moved")
    /\ udp' = udp \cup {[player_id |-> 0, src |-> c]}
    /\ UNCHANGED <<my_id, reply, backlog, tcp>>

SendMove(c) ==
    /\ GoTo(c, "ready", "moved")
    /\ udp' = udp \cup {[player_id |-> my_id[c], src |-> c]}
    /\ UNCHANGED <<my_id, reply, backlog, tcp>>

SendAttack(c) ==
    /\ GoTo(c, "moved", "attacked")
    /\ SendTcp(c, Attack, my_id[c], NoClient)

SendItem(c) ==
    /\ GoTo(c, "attacked", "used")
    /\ SendTcp(c, Item, my_id[c], NoClient)

(* Mutation variant: the initializer of the Logout packet lost .player_id. *)
SendLogoutWithoutId(c) ==
    /\ GoTo(c, "used", "left")
    /\ SendTcp(c, Logout, 0, NoClient)

SendLogout(c) ==
    /\ GoTo(c, "used", "left")
    /\ SendTcp(c, Logout, my_id[c], NoClient)

(* close() of both sockets; the server still reads what was sent before.   *)
CloseClient(c) ==
    /\ GoTo(c, "left", "gone")
    /\ UNCHANGED <<my_id, reply, channelVars>>

(* The process is killed: unread input is lost with it, sent data is not.  *)
KillClient(c) ==
    /\ phase[c] \notin {"start", "gone"}
    /\ phase' = [phase EXCEPT ![c] = "gone"]
    /\ reply' = [reply EXCEPT ![c] = NoPacket]
    /\ UNCHANGED <<my_id, channelVars>>

ClientStep(c) ==
    \/ Connect(c)
    \/ SendLogin(c)
    \/ RecvId(c)
    \/ SendMove(c)
    \/ SendAttack(c)
    \/ SendItem(c)
    \/ SendLogout(c)
    \/ CloseClient(c)

(* The first packet a server sends to a client that still waits for its id *)
(* becomes its reply; fds are the peers written to by one send or loop.    *)
Received(receivers, pkt) ==
    [c \in Clients |->
        IF c \in receivers /\ phase[c] = "waiting" /\ reply[c] = NoPacket
        THEN pkt ELSE reply[c]]

(* The peer has closed its end of the connection.                          *)
Gone(c) == phase[c] = "gone"
=============================================================================
