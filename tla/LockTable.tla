----------------------------- MODULE LockTable -----------------------------
(***************************************************************************)
(* What src/week13/server.rs and src/week13/server.cs have in common,      *)
(* composed with their clients (GameClient).                               *)
(*                                                                         *)
(* Every connection has a thread (Rust) or a task (C#) of its own, and one *)
(* more serves UDP.  The player table is behind one lock, held by the      *)
(* functions that allocate, free, broadcast and record a Move, each for    *)
(* the length of its call and never from one to the next.  An action below *)
(* is one such critical section, with the thread-local work before it (the *)
(* read of the packet); between two actions of a thread any other thread   *)
(* may run.  RServer and CsServer put the actions together.                *)
(*                                                                         *)
(* In both, a failed write of a broadcast is ignored.  The socket buffers  *)
(* never fill up: a client is sent a few packets and reads them at once.   *)
(***************************************************************************)
EXTENDS GameClient

CONSTANT MaxPlayers   \* MAX_PLAYERS

ASSUME MaxPlayersAssumption == MaxPlayers \in Nat \ {0}

VARIABLES
    players,    \* the table behind the lock
    thread,     \* what the thread of each connection does next
    conn_id,    \* my_id of that thread, NoId for None, -1 and -2
    pkt,        \* the packet it is working on
    udp_task    \* the loop that receives Moves

serverVars == <<players, thread, conn_id, pkt, udp_task>>
vars == <<clientVars, serverVars>>

Slots == 0 .. MaxPlayers - 1

Player == [is_active : BOOLEAN,
           tcp_write : Clients \cup {NoClient},
           udp_addr : Clients \cup {NoClient},
           username : Clients \cup {NoClient}]

(* "failed": the write of the login response threw.                        *)
Work == {"none", "read", "respond", "announce", "farewell", "ended", "failed"}

TypeOK ==
    /\ ClientTypeOK
    /\ players \in [Slots -> Player]
    /\ thread \in [Clients -> Work]
    /\ conn_id \in [Clients -> Slots \cup {NoId}]
    /\ pkt \in [Clients -> Packet \cup {NoPacket}]
    /\ udp_task \in {"up", "unreached", "down"}

Init ==
    /\ ClientInit
    /\ players = [i \in Slots |-> [is_active |-> FALSE, tcp_write |-> NoClient,
                                   udp_addr |-> NoClient,
                                   username |-> NoClient]]
    /\ thread = [c \in Clients |-> "none"]
    /\ conn_id = [c \in Clients |-> NoId]
    /\ pkt = [c \in Clients |-> NoPacket]
    /\ udp_task = "up"

-----------------------------------------------------------------------------
(* The critical sections.                                                  *)

Lowest(i, S) == i \in S /\ \A j \in S : i <= j

FreeSlots == {i \in Slots : ~players[i].is_active}

(* alloc_player(): the first free slot becomes the connection's.           *)
AllocPlayer(i, c, name) ==
    /\ Lowest(i, FreeSlots)
    /\ players' = [players EXCEPT ![i] =
            [@ EXCEPT !.is_active = TRUE, !.tcp_write = c, !.username = name]]

(* Mutation variant: is_active is left set, only the stream is dropped.    *)
FreePlayerHalf(i) ==
    players' = [players EXCEPT ![i] = [@ EXCEPT !.tcp_write = NoClient]]

FreePlayer(i) ==
    players' = [players EXCEPT ![i] =
                    [@ EXCEPT !.is_active = FALSE, !.tcp_write = NoClient]]

(* broadcast_tcp(): everyone seated, under the lock from first to last.    *)
BroadcastTcp(p) ==
    reply' = Received({players[i].tcp_write : i \in {j \in Slots :
                                                players[j].is_active}}, p)

(* on_udp(), the locked part: a Move is recorded for an active seat.       *)
RecordMove(d) ==
    players' = IF d.player_id \in Slots /\ players[d.player_id].is_active
               THEN [players EXCEPT ![d.player_id].udp_addr = d.src]
               ELSE players

-----------------------------------------------------------------------------
(* The thread of a connection.                                             *)

At(c, from, to) ==
    /\ thread[c] = from
    /\ thread' = [thread EXCEPT ![c] = to]

(* The read of a whole packet of one of the given types.                   *)
Read(c, types) ==
    /\ tcp[c] # <<>>
    /\ Head(tcp[c]).type \in types
    /\ tcp' = [tcp EXCEPT ![c] = Tail(@)]
    /\ UNCHANGED <<phase, my_id, backlog, udp, udp_task>>

(* Mutation variant: a full table is answered too, with id -1.             *)
NoSeatAnswered(c) ==
    /\ Read(c, {Login})
    /\ FreeSlots = {}
    /\ At(c, "read", "respond")
    /\ pkt' = [pkt EXCEPT ![c] = [Head(tcp[c]) EXCEPT !.player_id = NoId]]
    /\ UNCHANGED <<reply, players>>

(* Login with the table full: the thread goes on reading, in silence.      *)
NoSeat(c) ==
    /\ Read(c, {Login})
    /\ FreeSlots = {}
    /\ At(c, "read", "read")
    /\ UNCHANGED <<reply, players, pkt>>

(* Mutation variant: the response keeps the player_id of the request.      *)
TakeSeatStaleId(c, i) ==
    /\ Read(c, {Login})
    /\ AllocPlayer(i, c, Head(tcp[c]).username)
    /\ At(c, "read", "respond")
    /\ pkt' = [pkt EXCEPT ![c] = Head(tcp[c])]
    /\ UNCHANGED reply

(* Login, first part: the seat is taken and goes into the packet.          *)
TakeSeat(c, i) ==
    /\ Read(c, {Login})
    /\ AllocPlayer(i, c, Head(tcp[c]).username)
    /\ At(c, "read", "respond")
    /\ pkt' = [pkt EXCEPT ![c] = [Head(tcp[c]) EXCEPT !.player_id = i]]
    /\ UNCHANGED reply

(* Login, second part: write the response, without the lock of the table.  *)
Respond(c) ==
    /\ At(c, "respond", "announce")
    /\ reply' = Received({c}, pkt[c])
    /\ UNCHANGED <<phase, my_id, channelVars, players, conn_id, pkt, udp_task>>

(* Login, third part: tell everyone.                                       *)
Announce(c) ==
    /\ At(c, "announce", "read")
    /\ BroadcastTcp(pkt[c])
    /\ pkt' = [pkt EXCEPT ![c] = NoPacket]
    /\ UNCHANGED <<phase, my_id, channelVars, players, udp_task>>

(* What the thread does after its loop: the seat my_id names is freed.     *)
FreeOwn(c) ==
    \/ conn_id[c] = NoId /\ UNCHANGED players
    \/ conn_id[c] # NoId /\ FreePlayer(conn_id[c])

(* Logout, first part: free the seat the packet names.                     *)
FreeNamed(c) ==
    /\ Read(c, {Logout})
    /\ Head(tcp[c]).player_id \in Slots
    /\ FreePlayer(Head(tcp[c]).player_id)
    /\ At(c, "read", "farewell")
    /\ pkt' = [pkt EXCEPT ![c] = Head(tcp[c])]
    /\ UNCHANGED <<reply, conn_id>>

(* Mutation variant: the id is kept and the thread goes on.                *)
FarewellForgetful(c) ==
    /\ At(c, "farewell", "read")
    /\ BroadcastTcp(pkt[c])
    /\ pkt' = [pkt EXCEPT ![c] = NoPacket]
    /\ UNCHANGED <<phase, my_id, channelVars, players, conn_id, udp_task>>

(* Logout, second part: tell everyone who is left, forget the id, end.     *)
Farewell(c) ==
    /\ At(c, "farewell", "ended")
    /\ BroadcastTcp(pkt[c])
    /\ conn_id' = [conn_id EXCEPT ![c] = NoId]
    /\ pkt' = [pkt EXCEPT ![c] = NoPacket]
    /\ UNCHANGED <<phase, my_id, channelVars, players, udp_task>>

(* Attack and Item.                                                        *)
Relay(c) ==
    /\ Read(c, {Attack, Item})
    /\ At(c, "read", "read")
    /\ BroadcastTcp(Head(tcp[c]))
    /\ UNCHANGED <<players, conn_id, pkt>>

(* Mutation variant: the thread ends without looking at my_id.             *)
HangUpForgetful(c) ==
    /\ At(c, "read", "ended")
    /\ Gone(c)
    /\ UNCHANGED <<phase, my_id, reply, backlog, udp, players, conn_id, pkt,
                   udp_task>>

(* The read fails: the thread frees the seat it still has and ends.        *)
HangUp(c) ==
    /\ At(c, "read", "ended")
    /\ Gone(c)
    /\ FreeOwn(c)
    /\ UNCHANGED <<phase, my_id, reply, backlog, udp, conn_id, pkt, udp_task>>

(* main(): a connection is accepted and gets its thread.                   *)
Accept ==
    /\ backlog # <<>>
    /\ thread' = [thread EXCEPT ![Head(backlog)] = "read"]
    /\ backlog' = Tail(backlog)
    /\ UNCHANGED <<phase, my_id, reply, tcp, udp, players, conn_id, pkt,
                   udp_task>>

Kill(c) == UNCHANGED serverVars /\ KillClient(c)

-----------------------------------------------------------------------------
(* A broadcast of another thread slips in between the allocation of a seat *)
(* and the login response.                                                 *)
Overtakes ==
    \E c \in Clients : /\ thread[c] = "respond" /\ thread'[c] = "respond"
                       /\ reply'[c] # reply[c]
                       /\ phase'[c] = "waiting"

InOrder(A) == A /\ ~Overtakes

-----------------------------------------------------------------------------
Owner(i) == IF players[i].is_active THEN players[i].tcp_write ELSE NoClient

(* The seat that a thread has taken and not given back.                    *)
Assigned(c) ==
    IF thread[c] \in {"respond", "announce", "failed"}
    THEN pkt[c].player_id ELSE conn_id[c]

(* server.rs:14, server.cs:10 and client.c:43: the player_id a client      *)
(* plays under is that of the seat the server gave to its connection,      *)
(* although the response is written outside the critical section that      *)
(* assigned it.                                                            *)
AssignedId ==
    \A c \in Clients :
        phase[c] \in Playing => my_id[c] \in Slots /\ Owner(my_id[c]) = c

(* A thread frees only the seat of its own connection: while it has an id, *)
(* the seat is its own, whatever logouts other threads read; a seat is     *)
(* always known to the thread of the connection it writes to, which has    *)
(* not ended.  A C# task whose login response threw keeps its seat.        *)
SeatsBelongToThreads ==
    /\ \A c \in Clients :
            thread[c] \in {"read", "respond", "announce"} /\ conn_id[c] # NoId =>
                Owner(conn_id[c]) = c
    /\ \A i \in Slots : players[i].is_active =>
            /\ players[i].tcp_write # NoClient
            /\ Assigned(players[i].tcp_write) = i
            /\ thread[players[i].tcp_write] # "ended"

Registry == INSTANCE PlayerRegistry WITH
    owner <- [i \in Slots |-> Owner(i)],
    leaving <- {c \in Clients : phase[c] \in {"left", "gone"}},
    up <- TRUE

(* Interleaved critical sections still give, keep and take back seats as   *)
(* the registry promises.                                                  *)
RegistrySafety == Registry!Spec
=============================================================================
