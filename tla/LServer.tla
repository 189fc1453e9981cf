------------------------------ MODULE LServer ------------------------------
(***************************************************************************)
(* The Linux game server of src/week13/lserver.c, composed with its        *)
(* clients (GameClient).                                                   *)
(*                                                                         *)
(* One thread runs the loop of main(): epoll_wait returns the readable     *)
(* descriptors (batch), then each of them is handled once.  A handler is   *)
(* one action: accept, one datagram, one packet, or a disconnect.          *)
(***************************************************************************)
EXTENDS GameTable

CONSTANT Listen     \* tcp_sock

ASSUME ServerAssumption == Listen \notin Fds \cup {Udp}

VARIABLE batch  \* events of the last epoll_wait not handled yet

serverVars == <<players, sock, batch, alive>>
vars == <<clientVars, serverVars>>

(* Types: tables, streams and events range over what the program declares. *)
TypeOK ==
    /\ ClientTypeOK
    /\ TableTypeOK
    /\ batch \in SUBSET (Fds \cup {Listen, Udp})

Init ==
    /\ ClientInit
    /\ TableInit
    /\ batch = {}

-----------------------------------------------------------------------------
(* The event loop of main().                                               *)

Readable(fd) ==
    /\ sock[fd] # NoClient
    /\ tcp[sock[fd]] # <<>> \/ Gone(sock[fd])

(* epoll_wait: all that is readable, with or without the datagrams on      *)
(* their way (a late or lost datagram is one no wait has found).           *)
EpollWait ==
    /\ batch = {}
    /\ \E late \in BOOLEAN :
        batch' = {f \in Fds : Readable(f)}
                 \cup {l \in {Listen} : backlog # <<>>}
                 \cup {u \in {Udp} : udp # {} /\ ~late}
    /\ batch' # {}
    /\ UNCHANGED <<clientVars, players, sock, alive>>

(* accept() returns a descriptor that is not in use, or fails when there   *)
(* is none and leaves the connection queued.                               *)
Accept ==
    /\ Listen \in batch
    /\ batch' = batch \ {Listen}
    /\ \/ \E f \in Fds :
            /\ sock[f] = NoClient
            /\ sock' = [sock EXCEPT ![f] = Head(backlog)]
            /\ backlog' = Tail(backlog)
       \/ /\ \A f \in Fds : sock[f] # NoClient
          /\ UNCHANGED <<sock, backlog>>
    /\ UNCHANGED <<phase, my_id, reply, tcp, udp, players, alive>>

(* recvfrom(): one datagram, not always the oldest.                        *)
RecvUdp ==
    /\ Udp \in batch
    /\ batch' = batch \ {Udp}
    /\ \E d \in udp :
        /\ udp' = udp \ {d}
        /\ OnUdp(d)
    /\ UNCHANGED <<phase, my_id, reply, backlog, tcp, sock, alive>>

(* Mutation variant: the handler comes back to the descriptor for more.    *)
RecvTcpAgain(fd) ==
    /\ fd \in batch
    /\ sock[fd] # NoClient
    /\ tcp[sock[fd]] # <<>>
    /\ tcp' = [tcp EXCEPT ![sock[fd]] = Tail(@)]
    /\ OnTcp(fd, Head(tcp[sock[fd]]))
    /\ UNCHANGED <<phase, my_id, backlog, udp, sock, batch>>

(* recv() > 0: one packet, handled by on_tcp.                              *)
RecvTcp(fd) ==
    /\ fd \in batch
    /\ batch' = batch \ {fd}
    /\ sock[fd] # NoClient
    /\ tcp[sock[fd]] # <<>>
    /\ tcp' = [tcp EXCEPT ![sock[fd]] = Tail(@)]
    /\ OnTcp(fd, Head(tcp[sock[fd]]))
    /\ UNCHANGED <<phase, my_id, backlog, udp, sock>>

(* Mutation variant: len < 0 in place of len <= 0, so end of file is no    *)
(* disconnect.                                                             *)
HangUpIgnored(fd) ==
    /\ fd \in batch
    /\ batch' = batch \ {fd}
    /\ sock[fd] # NoClient
    /\ tcp[sock[fd]] = <<>> /\ Gone(sock[fd])
    /\ UNCHANGED <<clientVars, players, sock, alive>>

(* recv() <= 0: end of file or a reset.  An event of a closed descriptor   *)
(* would get here too; EventsStayReady shows that there is none.           *)
HangUp(fd) ==
    /\ fd \in batch
    /\ batch' = batch \ {fd}
    /\ sock[fd] # NoClient
    /\ tcp[sock[fd]] = <<>> /\ Gone(sock[fd])
    /\ FreePlayer(fd)
    /\ sock' = [sock EXCEPT ![fd] = NoClient]
    /\ UNCHANGED <<clientVars, alive>>

Server ==
    /\ alive
    /\ \/ EpollWait
       \/ Accept
       \/ RecvUdp
       \/ \E fd \in Fds : RecvTcp(fd) \/ HangUp(fd)

Environment(c) == alive /\ UNCHANGED serverVars /\ ClientStep(c)

Kill(c) == alive /\ UNCHANGED serverVars /\ KillClient(c)

Next ==
    \/ Server
    \/ \E c \in Clients : Environment(c) \/ Kill(c)

(* The server is one thread that never stops by itself, and client.c runs  *)
(* to its end unless it is killed; nothing forces a kill.                  *)
Fairness ==
    /\ WF_vars(Server)
    /\ \A c \in Clients : WF_vars(Environment(c))

SafeSpec == Init /\ [][Next]_vars

Spec == SafeSpec /\ Fairness

-----------------------------------------------------------------------------
(* Every event of a batch is still good when its turn comes, whatever the  *)
(* handlers before it did: the descriptor is open and readable, so no      *)
(* recv, recvfrom or accept stops the only thread of the server.           *)
EventsStayReady ==
    /\ \A fd \in batch \cap Fds : Readable(fd)
    /\ Listen \in batch => backlog # <<>>
    /\ Udp \in batch => udp # {}

(* Moves reach the table of those who play: a seat's position is that of   *)
(* its player or of an earlier one who has left (PositionsKeptApart), and  *)
(* once a player's Move is no longer on its way the seat has a position,   *)
(* through all that epoll_wait() put before it.                            *)
MovesKept ==
    /\ PositionsKeptApart
    /\ \A c \in Clients :
            /\ phase[c] \in {"moved", "attacked", "used"}
            /\ \A d \in udp : d.src # c
            => players[my_id[c]].udp_addr # NoClient

(* What client.c:43 relies on: a login is answered (or the client or the   *)
(* server dies).  True while there are no more descriptors than seats.     *)
LoginAnswered ==
    \A c \in Clients : phase[c] = "waiting" ~> (phase[c] # "waiting" \/ ~alive)
=============================================================================
