------------------------------ MODULE GameTable ------------------------------
(***************************************************************************)
(* The player table and the packet handlers that src/week13/lserver.c and  *)
(* src/week13/wserver.c have in common, composed with the clients          *)
(* (GameClient).  Each server is single-threaded where it touches the      *)
(* table, so a handler is one action; how packets reach the handlers is    *)
(* the business of LServer and WServer.                                    *)
(*                                                                         *)
(* x, y and udp_addr of a Player are always assigned together from one     *)
(* Move, so udp_addr stands for the three.  hp never changes after login.  *)
(* A send() to a peer that has closed may raise SIGPIPE, which nothing in  *)
(* lserver.c catches: alive becomes FALSE and the model ends there.        *)
(***************************************************************************)
EXTENDS GameClient

CONSTANTS
    Fds,         \* descriptors accept() can return
    NoFd,        \* the -1 of tcp_fd, the INVALID_SOCKET of tcp_sock
    Udp,         \* udp_sock
    MaxPlayers   \* MAX_PLAYERS

ASSUME TableAssumption ==
    MaxPlayers \in Nat \ {0} /\ NoFd \notin Fds /\ Udp \notin Fds

VARIABLES
    players,    \* the table players[MAX_PLAYERS]
    sock,       \* client on the other end of each open descriptor
    alive       \* the server process has not been killed by SIGPIPE

Slots == 0 .. MaxPlayers - 1

Player == [is_active : BOOLEAN,
           tcp_fd : Fds \cup {NoFd},
           udp_addr : Clients \cup {NoClient},
           username : Clients \cup {NoClient}]

TableTypeOK ==
    /\ players \in [Slots -> Player]
    /\ sock \in [Fds -> Clients \cup {NoClient}]
    /\ alive \in BOOLEAN

TableInit ==
    /\ players = [i \in Slots |-> [is_active |-> FALSE, tcp_fd |-> NoFd,
                                   udp_addr |-> NoClient,
                                   username |-> NoClient]]
    /\ sock = [f \in Fds |-> NoClient]
    /\ alive = TRUE

-----------------------------------------------------------------------------
(* The player table.                                                       *)

Lowest(i, S) == i \in S /\ \A j \in S : i <= j

FreeSlots == {i \in Slots : ~players[i].is_active}

(* alloc_player() and the strncpy after it: the table once slot i has been *)
(* given to connection fd.                                                 *)
Allocated(i, fd, name) ==
    [players EXCEPT ![i] = [@ EXCEPT !.is_active = TRUE, !.tcp_fd = fd,
                                     !.username = name]]

Cleared(i) ==
    [players EXCEPT ![i] = [@ EXCEPT !.is_active = FALSE, !.tcp_fd = NoFd]]

(* Mutation variant: the disconnect forgets the table.                     *)
FreePlayerNever(fd) == UNCHANGED players

(* free_player(): clear the first slot that holds fd, if there is one.     *)
FreePlayer(fd) ==
    LET held == {i \in Slots : players[i].tcp_fd = fd}
    IN  \/ held = {} /\ UNCHANGED players
        \/ \E i \in held : Lowest(i, held) /\ players' = Cleared(i)

(* The connections broadcast_tcp() writes to, given the table.             *)
BroadcastFds(table) ==
    {f \in Fds : \E i \in Slots : table[i].is_active /\ table[i].tcp_fd = f}

(* send() of pkt on each of fds.  EPIPE on a connection whose peer is gone *)
(* kills the process unless the peer's reset has not arrived yet.          *)
Send(fds, pkt) ==
    LET peers == {sock[f] : f \in fds} \ {NoClient}
    IN  /\ reply' = Received(peers, pkt)
        /\ alive' \in {TRUE} \cup {FALSE : c \in {d \in peers : Gone(d)}}

-----------------------------------------------------------------------------
(* on_tcp(), case by case.                                                 *)

(* Mutation variant: the response goes out with the id of the request.     *)
OnLoginStaleId(fd, pkt) ==
    \/ FreeSlots = {} /\ UNCHANGED <<players, reply, alive>>
    \/ \E i \in FreeSlots :
        /\ Lowest(i, FreeSlots)
        /\ players' = Allocated(i, fd, pkt.username)
        /\ Send({fd} \cup BroadcastFds(players'), pkt)

(* Mutation variant: without the check, a full table answers with id -1.   *)
OnLoginUnchecked(fd, pkt) ==
    \/ FreeSlots = {} /\ Send({fd}, [pkt EXCEPT !.player_id = NoId])
                      /\ UNCHANGED players
    \/ \E i \in FreeSlots :
        /\ Lowest(i, FreeSlots)
        /\ players' = Allocated(i, fd, pkt.username)
        /\ Send({fd} \cup BroadcastFds(players'), [pkt EXCEPT !.player_id = i])

(* Login: a full table returns without a word; otherwise the response goes *)
(* to the new player and then to every player, the new one included.       *)
OnLogin(fd, pkt) ==
    \/ FreeSlots = {} /\ UNCHANGED <<players, reply, alive>>
    \/ \E i \in FreeSlots :
        /\ Lowest(i, FreeSlots)
        /\ players' = Allocated(i, fd, pkt.username)
        /\ Send({fd} \cup BroadcastFds(players'), [pkt EXCEPT !.player_id = i])

(* Logout: clear the slot the packet names, tell the players that remain.  *)
OnLogout(pkt) ==
    IF pkt.player_id \in Slots
    THEN /\ players' = Cleared(pkt.player_id)
         /\ Send(BroadcastFds(players'), pkt)
    ELSE UNCHANGED <<players, reply, alive>>

(* Attack and Item: pass the packet on to every player.                    *)
OnRelay(pkt) ==
    /\ UNCHANGED players
    /\ Send(BroadcastFds(players), pkt)

OnTcp(fd, pkt) ==
    \/ pkt.type = Login  /\ OnLogin(fd, pkt)
    \/ pkt.type = Logout /\ OnLogout(pkt)
    \/ pkt.type \in {Attack, Item} /\ OnRelay(pkt)

(* on_udp(): record position and address of an active player.  The         *)
(* broadcast_udp() that follows reaches nobody who listens.                *)
OnUdp(d) ==
    players' = IF d.player_id \in Slots /\ players[d.player_id].is_active
               THEN [players EXCEPT ![d.player_id].udp_addr = d.src]
               ELSE players

-----------------------------------------------------------------------------
(* The client an active seat is connected to, and the seats of a client.   *)
Owner(i) ==
    IF players[i].is_active /\ players[i].tcp_fd \in Fds
    THEN sock[players[i].tcp_fd] ELSE NoClient

Owns(c, i) == i \in Slots /\ Owner(i) = c

(* The table and the open descriptors agree after any history of logins,   *)
(* logouts, disconnects and descriptor reuse: an active seat is on an open *)
(* descriptor, shared with no other seat, whose peer logged in under the   *)
(* name in the seat; a free seat holds no descriptor.  Where this failed,  *)
(* free_player would clear a stranger or broadcast_tcp write to one.       *)
SeatsMatchConnections ==
    \A i \in Slots :
        IF players[i].is_active
        THEN /\ Owner(i) # NoClient
             /\ players[i].username = Owner(i)
             /\ \A j \in Slots \ {i} : players[j].tcp_fd # players[i].tcp_fd
        ELSE players[i].tcp_fd = NoFd

(* The id a client plays under is that of a seat the server keeps for it,  *)
(* and the first packet it can take for its login response is its own,     *)
(* whatever is broadcast meanwhile (client.c reads one packet and trusts   *)
(* it).                                                                    *)
IdAgreement ==
    \A c \in Clients :
        /\ phase[c] \in Playing => Owns(c, my_id[c])
        /\ phase[c] = "waiting" /\ reply[c] # NoPacket =>
              reply[c].username = c /\ Owns(c, reply[c].player_id)

(* on_udp() trusts the id in a datagram (lserver.c:170, wserver.c:183): a  *)
(* Move that comes late overwrites the position and the address of whoever *)
(* has the seat by then.  That is the only way: what an occupied seat      *)
(* holds is of its player or of one who has left the game since, never of  *)
(* one who still plays from another seat.                                  *)
PositionsKeptApart ==
    \A i \in Slots :
        LET d == players[i].udp_addr
        IN  Owner(i) # NoClient /\ d \notin {NoClient, Owner(i)} =>
                phase[d] \in {"left", "gone"}

Registry == INSTANCE PlayerRegistry WITH
    owner <- [i \in Slots |-> Owner(i)],
    leaving <- {c \in Clients : phase[c] \in {"left", "gone"}},
    up <- alive

(* Every step of the server gives, keeps and takes back seats as the       *)
(* registry promises: nobody is evicted, nobody sits twice, and SIGPIPE    *)
(* comes only from a seat whose client is leaving.                         *)
RegistrySafety == Registry!Spec
=============================================================================
