------------------------------ MODULE CsServer ------------------------------
(***************************************************************************)
(* The C# game server of src/week13/server.cs with the client of           *)
(* src/week13/client.cs: one task per connection and one for UDP over the  *)
(* table of LockTable.                                                     *)
(*                                                                         *)
(* OnTcp returns the new id only after its broadcast, so until then the    *)
(* finally block of HandleTcpAsync does not know the seat.  The write of   *)
(* the response (server.cs:148) is the one write that is not in a try: it  *)
(* may throw when the client is gone, and the task ends.  Nobody awaits    *)
(* HandleUdpAsync: when a ReceiveAsync throws, because a datagram sent     *)
(* before found no port, Moves are no longer received.                     *)
(*                                                                         *)
(* The server never closes a TcpClient, so the exception that client.cs    *)
(* throws at the end of the stream does not occur.                         *)
(***************************************************************************)
EXTENDS LockTable

(* case 1 of OnTcp up to the write: myId is not set yet.                   *)
ReadLogin(c) ==
    /\ NoSeat(c) \/ \E i \in FreeSlots : TakeSeat(c, i)
    /\ UNCHANGED conn_id

(* stream.Write(resp): done, or an exception that ends the task.           *)
WriteResponse(c) ==
    \/ Respond(c)
    \/ /\ At(c, "respond", "failed")
       /\ Gone(c)
       /\ UNCHANGED <<clientVars, players, conn_id, pkt, udp_task>>

(* The broadcast, and return newId.                                        *)
ReturnId(c) ==
    /\ Announce(c)
    /\ conn_id' = [conn_id EXCEPT ![c] = pkt[c].player_id]

(* case 2: an id out of range returns -2 at once, and frees nothing.       *)
ReadLogout(c) ==
    \/ FreeNamed(c)
    \/ /\ Read(c, {Logout})
       /\ Head(tcp[c]).player_id \notin Slots
       /\ At(c, "read", "ended")
       /\ conn_id' = [conn_id EXCEPT ![c] = NoId]
       /\ UNCHANGED <<reply, players, pkt>>

(* ReadAsync returns 0 or throws; a reset discards what is unread.         *)
EndOfStream(c) == HangUp(c) /\ tcp' = [tcp EXCEPT ![c] = <<>>]

(* HandleTcpAsync.                                                         *)
Task(c) ==
    \/ ReadLogin(c) \/ WriteResponse(c) \/ ReturnId(c)
    \/ ReadLogout(c) \/ Farewell(c)
    \/ Relay(c) \/ EndOfStream(c)

(* BroadcastUdp to the address of a client that is gone.                   *)
BroadcastUdp ==
    \/ UNCHANGED udp_task
    \/ /\ \E i \in Slots : /\ players[i].is_active
                         /\ players'[i].udp_addr # NoClient
                         /\ Gone(players'[i].udp_addr)
       /\ udp_task' = "unreached"

(* HandleUdpAsync: a datagram, and OnUdp.  The critical section of         *)
(* BroadcastUdp is taken together with that of OnUdp: it reads the table   *)
(* and changes none of it, and a seat taken or a client gone between the   *)
(* two is found by the next broadcast.                                     *)
RecvUdp ==
    /\ udp_task # "down"
    /\ \E d \in udp :
        /\ udp' = udp \ {d}
        /\ RecordMove(d)
        /\ IF d.player_id \in Slots /\ players[d.player_id].is_active
           THEN BroadcastUdp ELSE UNCHANGED udp_task
    /\ UNCHANGED <<phase, my_id, reply, backlog, tcp, thread, conn_id, pkt>>

(* HandleUdpAsync: ReceiveAsync throws and the task ends.                  *)
UdpThrows ==
    /\ udp_task = "unreached"
    /\ udp_task' = "down"
    /\ UNCHANGED <<clientVars, players, thread, conn_id, pkt>>

(* Main of client.cs takes the steps of client.c.                          *)
Environment(c) == UNCHANGED serverVars /\ ClientStep(c)

Next ==
    \/ Accept
    \/ RecvUdp \/ UdpThrows
    \/ \E c \in Clients : Task(c) \/ Environment(c) \/ Kill(c)
=============================================================================
