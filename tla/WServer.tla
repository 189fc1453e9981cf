------------------------------ MODULE WServer ------------------------------
(***************************************************************************)
(* The Windows game server of src/week13/wserver.c, composed with its      *)
(* clients (GameClient); table and handlers are those of GameTable.        *)
(*                                                                         *)
(* main() accepts and posts one overlapped receive per connection; the     *)
(* kernel completes it into the connection's IOContext; worker_thread()    *)
(* takes completions off the port one by one, handles each and posts the   *)
(* next receive.  Nobody checks whether posting succeeded: WSARecv() on a  *)
(* connection that was reset, and WSARecvFrom() after a datagram that no   *)
(* port took, fail at once and never complete.                             *)
(*                                                                         *)
(* A send() to a closed peer fails without a signal here: alive stays TRUE.*)
(***************************************************************************)
EXTENDS GameTable

VARIABLES
    posted,     \* contexts with a receive the kernel has yet to complete, Udp
                \* for that of the UDP socket
    port,       \* completions in order: the context and what it received
    unreached   \* a datagram the server sent found no port

serverVars == <<players, sock, posted, port, unreached, alive>>
vars == <<clientVars, serverVars>>

(* A completion with zero bytes: end of file, or an error.                 *)
Nothing == NoPacket

(* Types.                                                                  *)
TypeOK ==
    /\ ClientTypeOK /\ TableTypeOK
    /\ alive
    /\ posted \in SUBSET (Fds \cup {Udp})
    /\ \A k \in 1 .. Len(port) :
        \/ port[k][1] \in Fds /\ port[k][2] \in Packet \cup {Nothing}
        \/ port[k][1] = Udp /\ port[k][2] \in Datagram \cup {Nothing}
    /\ unreached \in BOOLEAN

Init ==
    /\ ClientInit /\ TableInit
    /\ posted = {Udp} /\ port = <<>>
    /\ unreached = FALSE

-----------------------------------------------------------------------------
(* The kernel completes receives.                                          *)

Complete(x, data) ==
    /\ x \in posted
    /\ posted' = posted \ {x}
    /\ port' = Append(port, <<x, data>>)

(* A packet, or the end of the connection; a reset discards what is unread.*)
CompleteTcp(f) ==
    /\ f \in posted
    /\ \/ /\ tcp[sock[f]] # <<>>
          /\ Complete(f, Head(tcp[sock[f]]))
          /\ tcp' = [tcp EXCEPT ![sock[f]] = Tail(@)]
       \/ /\ Gone(sock[f])
          /\ Complete(f, Nothing)
          /\ UNCHANGED tcp
    /\ UNCHANGED <<phase, my_id, reply, backlog, udp, players, sock, unreached,
                   alive>>

CompleteUdp ==
    /\ \/ \E d \in udp :
            /\ Complete(Udp, d)
            /\ udp' = udp \ {d}
            /\ UNCHANGED unreached
       \/ /\ unreached
          /\ Complete(Udp, Nothing)
          /\ unreached' = FALSE
          /\ UNCHANGED udp
    /\ UNCHANGED <<phase, my_id, reply, backlog, tcp, players, sock, alive>>

-----------------------------------------------------------------------------
(* The accept loop of main().                                              *)

(* post_tcp_recv(): on a connection that was reset it fails, unnoticed.    *)
PostTcp(f, c) ==
    \/ posted' = posted \cup {f}
    \/ Gone(c) /\ UNCHANGED posted

(* accept() fails for a client that has left the queue; the receive posted *)
(* on INVALID_SOCKET then fails too.                                       *)
Accept ==
    /\ backlog # <<>>
    /\ backlog' = Tail(backlog)
    /\ \/ \E f \in Fds :
            /\ sock[f] = NoClient
            /\ sock' = [sock EXCEPT ![f] = Head(backlog)]
            /\ PostTcp(f, Head(backlog))
       \/ /\ Gone(Head(backlog))
          /\ UNCHANGED <<sock, posted>>
    /\ UNCHANGED <<phase, my_id, reply, tcp, udp, players, port, unreached,
                   alive>>

-----------------------------------------------------------------------------
(* worker_thread(), one completion after the other.                        *)

Data == Head(port)[2]

Take(x) ==
    /\ port # <<>> /\ Head(port)[1] = x
    /\ port' = Tail(port)

(* on_tcp() as in lserver.c, but a failing send() raises no signal.        *)
OnPacket(f) == OnTcp(f, Data) /\ alive'

(* Mutation variant: the handler's result is the end of the case.          *)
HandlePacketOnce(f) ==
    /\ Take(f) /\ Data # Nothing
    /\ OnPacket(f)
    /\ UNCHANGED <<phase, my_id, backlog, tcp, udp, sock, posted, unreached>>

(* A packet on connection f: on_tcp(), then the next receive.              *)
HandlePacket(f) ==
    /\ Take(f) /\ Data # Nothing
    /\ OnPacket(f)
    /\ PostTcp(f, sock[f])
    /\ UNCHANGED <<phase, my_id, backlog, tcp, udp, sock, unreached>>

(* Zero bytes: free_player(), closesocket(), free(ctx).                    *)
HandleClose(f) ==
    /\ Take(f) /\ Data = Nothing
    /\ FreePlayer(f)
    /\ sock' = [sock EXCEPT ![f] = NoClient]
    /\ UNCHANGED <<clientVars, posted, unreached, alive>>

(* broadcast_udp(): the address of a client that is gone is not reached.   *)
BroadcastUdp ==
    \/ UNCHANGED unreached
    \/ /\ \E i \in Slots : /\ players[i].is_active
                         /\ players'[i].udp_addr # NoClient
                         /\ Gone(players'[i].udp_addr)
       /\ unreached' = TRUE

(* post_udp_recv(): it fails, unnoticed, when the error is already known.  *)
PostUdp ==
    \/ posted' = posted \cup {Udp}
    \/ unreached' /\ UNCHANGED posted

(* A datagram on the UDP socket, or an error, then the next receive.       *)
HandleUdp ==
    /\ Take(Udp)
    /\ \/ Data # Nothing /\ OnUdp(Data) /\ BroadcastUdp
       \/ Data = Nothing /\ UNCHANGED <<players, unreached>>
    /\ PostUdp
    /\ UNCHANGED <<clientVars, sock, alive>>

-----------------------------------------------------------------------------
Worker == HandleUdp \/ \E f \in Fds : HandlePacket(f) \/ HandleClose(f)

Kernel == CompleteUdp \/ \E f \in Fds : CompleteTcp(f)

Environment(c) == UNCHANGED serverVars /\ (ClientStep(c) \/ KillClient(c))

Next == Accept \/ Worker \/ Kernel \/ \E c \in Clients : Environment(c)

SafeSpec == Init /\ [][Next]_vars

-----------------------------------------------------------------------------
Uses(x) == {k \in 1 .. Len(port) : port[k][1] = x}

Open == {f \in Fds : sock[f] # NoClient} \cup {Udp}

(* wserver.c:188-234: a context is never posted or queued twice, and not   *)
(* after free(ctx); a live connection always has its one receive under     *)
(* way.  A connection whose client is gone may have none left, and its     *)
(* seat is then never freed; so may the UDP socket once a datagram did not *)
(* reach its client, and no Move is then received any more.                *)
ReceiveOutstanding ==
    \A x \in Fds \cup {Udp} :
        /\ \A j, k \in Uses(x) : j = k
        /\ x \in posted => x \in Open /\ Uses(x) = {}
        /\ Uses(x) # {} => x \in Open
        /\ x \in Open \ posted /\ Uses(x) = {} =>
              IF x = Udp THEN unreached ELSE Gone(sock[x])
=============================================================================
