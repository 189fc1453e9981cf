------------------------------ MODULE RServer ------------------------------
(***************************************************************************)
(* The Rust game server of src/week13/server.rs: one thread per connection *)
(* and one for UDP over the table of LockTable.                            *)
(*                                                                         *)
(* my_id is set as soon as a seat is allocated, before the response; a     *)
(* write that fails is ignored (.ok(), and std ignores SIGPIPE), and so is *)
(* an error of recv_from, so the UDP loop never ends.                      *)
(***************************************************************************)
EXTENDS LockTable

(* Login, first part.                                                      *)
ReadLogin(c) ==
    \/ NoSeat(c) /\ UNCHANGED conn_id
    \/ \E i \in FreeSlots :
        TakeSeat(c, i) /\ conn_id' = [conn_id EXCEPT ![c] = i]

(* An id out of range ends the thread at once, which then frees its own    *)
(* seat (no client sends one).                                             *)
ReadLogout(c) ==
    \/ FreeNamed(c)
    \/ /\ Read(c, {Logout})
       /\ Head(tcp[c]).player_id \notin Slots
       /\ FreeOwn(c)
       /\ At(c, "read", "ended")
       /\ UNCHANGED <<reply, conn_id, pkt>>

(* read_exact() fails once everything that was sent has been read.         *)
Disconnect(c) == tcp[c] = <<>> /\ HangUp(c) /\ UNCHANGED tcp

Thread(c) ==
    \/ ReadLogin(c) \/ Respond(c)
    \/ Announce(c) /\ UNCHANGED conn_id
    \/ ReadLogout(c) \/ Farewell(c)
    \/ Relay(c) \/ Disconnect(c)

(* The UDP thread: recv_from and on_udp.  The second critical section,     *)
(* broadcast_udp's, only reads the table, ignores errors and sends to      *)
(* ports where no client receives: it is left out.                         *)
RecvUdp ==
    /\ \E d \in udp : udp' = udp \ {d} /\ RecordMove(d)
    /\ UNCHANGED <<phase, my_id, reply, backlog, tcp, thread, conn_id, pkt,
                   udp_task>>

Environment(c) == UNCHANGED serverVars /\ ClientStep(c)

Next ==
    \/ Accept
    \/ RecvUdp
    \/ \E c \in Clients : Thread(c) \/ Environment(c) \/ Kill(c)
=============================================================================
