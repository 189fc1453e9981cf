----------------------------- MODULE EpollChat ------------------------------
(***************************************************************************)
(* The chat of week 11: src/week11/epoll_server.c with runs of             *)
(* src/week11/epoll_client.c.                                              *)
(*                                                                         *)
(* Server and client are single threads that wait in epoll_wait() and then *)
(* read and write with blocking calls.  A write blocks while the socket is *)
(* full; a program that is blocked reads nothing.                          *)
(*                                                                         *)
(* The server checks neither accept(), whose -1 (NoFd) is put into the     *)
(* array when all descriptors are in use, nor the bound of the array: an   *)
(* entry more is written outside it, and the model stops there, as it does *)
(* when SIGPIPE, which nothing catches, has killed the server.             *)
(***************************************************************************)
EXTENDS Integers, Sequences, FiniteSets

CONSTANTS
    Clients, NoClient,
    Fds, NoFd,
    Listen,     \* server_socket
    MaxSockets, \* entries of client_sockets, 100
    Room,       \* messages a socket buffers in one direction
    MaxSaid     \* bound: messages entered by all users together

ASSUME EpollAssumption ==
    /\ NoClient \notin Clients /\ {Listen, NoFd} \cap Fds = {}
    /\ MaxSockets \in Nat \ {0}
    /\ Room \in Nat \ {0} /\ MaxSaid \in Nat

Messages == Clients \X (1 .. MaxSaid)

NoMessage == <<>>

VARIABLES
    phase,          \* of each client: "start", "wait", "write" or "gone"
    said,           \* messages entered so far, which makes each one unique
    up, down,       \* the two directions of each connection
    log,            \* what a client has printed
    backlog,        \* connected, not accepted
    reset,          \* left with unread messages: the server gets a reset
    sock,           \* client on the other end of each open descriptor
    client_sockets, \* the first client_count entries of the array
    batch,          \* events of the last epoll_wait() still to be handled
    msg, from, next,    \* message_buffer, current_fd and j of a broadcast
    server          \* "running", "killed" by SIGPIPE, or "overrun"

clientVars == <<phase, said, up, down, log, backlog, reset>>
castVars == <<msg, from, next>>
serverVars == <<sock, client_sockets, batch, castVars, server>>
vars == <<clientVars, serverVars>>

Count == Len(client_sockets)    \* client_count

(* Types; the array is never longer than it is.                            *)
TypeOK ==
    /\ phase \in [Clients -> {"start", "wait", "write", "gone"}]
    /\ said \in 0 .. MaxSaid
    /\ up \in [Clients -> Seq(Messages)]
    /\ down \in [Clients -> Seq(Messages)]
    /\ log \in [Clients -> Seq(Messages)]
    /\ backlog \in Seq(Clients)
    /\ reset \subseteq Clients
    /\ sock \in [Fds -> Clients \cup {NoClient}]
    /\ client_sockets \in Seq(Fds \cup {NoFd}) /\ Count <= MaxSockets
    /\ batch \subseteq Fds \cup {Listen}
    /\ msg \in Messages \cup {NoMessage}
    /\ from \in Fds \cup {Listen}
    /\ next \in 0 .. Count + 1
    /\ server \in {"running", "killed", "overrun"}

Init ==
    /\ phase = [c \in Clients |-> "start"]
    /\ said = 0
    /\ up = [c \in Clients |-> <<>>]
    /\ down = [c \in Clients |-> <<>>]
    /\ log = [c \in Clients |-> <<>>]
    /\ backlog = <<>> /\ reset = {}
    /\ sock = [f \in Fds |-> NoClient]
    /\ client_sockets = <<>>
    /\ batch = {}
    /\ msg = NoMessage /\ from = Listen /\ next = 0
    /\ server = "running"

-----------------------------------------------------------------------------
(* The server.                                                             *)

Idle == msg = NoMessage

Readable(f) ==
    sock[f] # NoClient /\ (up[sock[f]] # <<>> \/ phase[sock[f]] = "gone")

EpollWait ==
    /\ Idle /\ batch = {}
    /\ batch' = {f \in Fds : Readable(f)}
                \cup {l \in {Listen} : backlog # <<>>}
    /\ batch' # {}
    /\ UNCHANGED <<clientVars, sock, client_sockets, castVars, server>>

Handle(f) ==
    /\ Idle /\ f \in batch
    /\ batch' = batch \ {f}

Accept ==
    /\ Handle(Listen) /\ Count < MaxSockets
    /\ \E f \in Fds :
        /\ sock[f] = NoClient
        /\ sock' = [sock EXCEPT ![f] = Head(backlog)]
        /\ client_sockets' = Append(client_sockets, f)
    /\ backlog' = Tail(backlog)
    /\ UNCHANGED <<phase, said, up, down, log, reset, castVars, server>>

(* accept() = -1 is an entry like any other; the connection stays queued.  *)
AcceptFails ==
    /\ Handle(Listen) /\ Count < MaxSockets
    /\ \A f \in Fds : sock[f] # NoClient
    /\ client_sockets' = Append(client_sockets, NoFd)
    /\ UNCHANGED <<clientVars, sock, castVars, server>>

(* client_sockets[client_count++], whatever accept() returns.              *)
AcceptOverrun ==
    /\ Handle(Listen) /\ Count = MaxSockets
    /\ server' = "overrun"
    /\ UNCHANGED <<clientVars, sock, client_sockets, castVars>>

(* Mutation variant: the last entry is not moved into the gap.             *)
CloseUnmoved(f) ==
    /\ Handle(f)
    /\ up[sock[f]] = <<>> /\ sock[f] \notin reset
    /\ sock' = [sock EXCEPT ![f] = NoClient]
    /\ client_sockets' = SubSeq(client_sockets, 1, Count - 1)
    /\ UNCHANGED <<clientVars, castVars, server>>

(* read() = 0: the last entry takes the place of the closed one.           *)
Close(f) ==
    /\ Handle(f)
    /\ up[sock[f]] = <<>> /\ sock[f] \notin reset
    /\ sock' = [sock EXCEPT ![f] = NoClient]
    /\ \E j \in 1 .. Count :
        /\ client_sockets[j] = f
        /\ client_sockets' =
            SubSeq([client_sockets EXCEPT ![j] = client_sockets[Count]],
                   1, Count - 1)
    /\ UNCHANGED <<clientVars, castVars, server>>

(* read() = -1 is taken for a message, and every write of length -1 fails. *)
ReadError(f) ==
    /\ Handle(f)
    /\ up[sock[f]] = <<>> /\ sock[f] \in reset
    /\ reset' = reset \ {sock[f]}
    /\ UNCHANGED <<phase, said, up, down, log, backlog, sock, client_sockets,
                   castVars, server>>

Read(f) ==
    /\ Handle(f)
    /\ up[sock[f]] # <<>>
    /\ msg' = Head(up[sock[f]])
    /\ up' = [up EXCEPT ![sock[f]] = Tail(@)]
    /\ from' = f
    /\ next' = 1
    /\ UNCHANGED <<phase, said, down, log, backlog, reset, sock,
                   client_sockets, server>>

(* The client entry k writes to; there is none behind an entry of -1.      *)
Peer(k) ==
    IF client_sockets[k] = NoFd THEN NoClient ELSE sock[client_sockets[k]]

(* One turn of the loop that writes to all but current_fd.                 *)
Write ==
    /\ ~Idle /\ next <= Count
    /\ next' = next + 1
    /\ LET d == Peer(next)
       IN  \/ /\ client_sockets[next] \in {from, NoFd}
              /\ UNCHANGED <<down, server>>
           \/ /\ client_sockets[next] \notin {from, NoFd} /\ phase[d] = "gone"
              /\ server' \in {"running", "killed"}
              /\ UNCHANGED down
           \/ /\ client_sockets[next] \notin {from, NoFd} /\ phase[d] # "gone"
              /\ Len(down[d]) < Room
              /\ down' = [down EXCEPT ![d] = Append(@, msg)]
              /\ UNCHANGED server
    /\ UNCHANGED <<phase, said, up, log, backlog, reset, sock, client_sockets,
                   batch, msg, from>>

(* Mutation variant: <= for < in the loop's condition.                     *)
BroadcastLate ==
    \/ /\ ~Idle /\ next > Count + 1
       /\ msg' = NoMessage /\ from' = Listen /\ next' = 0
       /\ UNCHANGED <<clientVars, sock, client_sockets, batch, server>>
    \/ /\ ~Idle /\ next = Count + 1
       /\ next' = next + 1
       /\ UNCHANGED <<clientVars, sock, client_sockets, batch, msg, from, server>>

(* Mutation variant: the loop stops before the last entry.                 *)
BroadcastShort ==
    /\ ~Idle /\ next >= Count
    /\ msg' = NoMessage /\ from' = Listen /\ next' = 0
    /\ UNCHANGED <<clientVars, sock, client_sockets, batch, server>>

BroadcastEnd ==
    /\ ~Idle /\ next > Count
    /\ msg' = NoMessage /\ from' = Listen /\ next' = 0
    /\ UNCHANGED <<clientVars, sock, client_sockets, batch, server>>

-----------------------------------------------------------------------------
(* The clients.                                                            *)

Connect(c) ==
    /\ phase[c] = "start"
    /\ phase' = [phase EXCEPT ![c] = "wait"]
    /\ backlog' = Append(backlog, c)
    /\ UNCHANGED <<said, up, down, log, reset, serverVars>>

(* A line from the keyboard is read; writing it is the next thing done.    *)
Enter(c) ==
    /\ phase[c] = "wait" /\ said < MaxSaid
    /\ phase' = [phase EXCEPT ![c] = "write"]
    /\ said' = said + 1
    /\ UNCHANGED <<up, down, log, backlog, reset, serverVars>>

Send(c) ==
    /\ phase[c] = "write" /\ Len(up[c]) < Room
    /\ phase' = [phase EXCEPT ![c] = "wait"]
    /\ up' = [up EXCEPT ![c] = Append(@, <<c, said>>)]
    /\ UNCHANGED <<said, down, log, backlog, reset, serverVars>>

Receive(c) ==
    /\ phase[c] = "wait" /\ down[c] # <<>>
    /\ log' = [log EXCEPT ![c] = Append(@, Head(down[c]))]
    /\ down' = [down EXCEPT ![c] = Tail(@)]
    /\ UNCHANGED <<phase, said, up, backlog, reset, serverVars>>

Leave(c) ==
    /\ phase[c] \in {"wait", "write"}
    /\ phase' = [phase EXCEPT ![c] = "gone"]
    /\ reset' = IF down[c] = <<>> THEN reset ELSE reset \cup {c}
    /\ down' = [down EXCEPT ![c] = <<>>]
    /\ UNCHANGED <<said, up, log, backlog, serverVars>>

-----------------------------------------------------------------------------
Alive == server = "running"

Server ==
    /\ Alive
    /\ \/ EpollWait \/ Accept \/ AcceptFails \/ AcceptOverrun
       \/ Write \/ BroadcastEnd
       \/ \E f \in Fds : Close(f) \/ ReadError(f) \/ Read(f)

Client(c) == Alive /\ (Send(c) \/ Receive(c))

User(c) == Alive /\ (Connect(c) \/ Enter(c) \/ Leave(c))

Next == Server \/ \E c \in Clients : Client(c) \/ User(c)

SafeSpec == Init /\ [][Next]_vars

(* Both programs run when they are not blocked; users do as they like.     *)
Spec == SafeSpec /\ WF_vars(Server) /\ \A c \in Clients : WF_vars(Client(c))

-----------------------------------------------------------------------------
(* epoll_server.c:26-56: the array holds each open connection once and no  *)
(* closed one, in whatever order connections come and go and whatever -1   *)
(* is between them, so a broadcast neither skips nor repeats one, nor      *)
(* reaches a descriptor given to a later client; and every pending event   *)
(* is for an open connection.                                              *)
ArrayMatchesSockets ==
    /\ \A j, k \in 1 .. Count :
            client_sockets[j] = client_sockets[k] /\ j # k =>
                client_sockets[j] = NoFd
    /\ {client_sockets[k] : k \in 1 .. Count} \ {NoFd} =
            {f \in Fds : sock[f] # NoClient}
    /\ \A f \in batch \ {Listen} : Readable(f)

Members ==
    {c \in Clients : phase[c] # "gone" /\ \E f \in Fds : sock[f] = c}

(* The part of a broadcast that is still to come for c.                    *)
Pending(c) ==
    IF \E k \in next .. Count :
        ~Idle /\ Peer(k) = c /\ client_sockets[k] # from
    THEN <<msg>> ELSE <<>>

(* Everyone but its author hears a message.                                *)
Hears(c, m) == c # m[1]

Chat == INSTANCE ChatRoom WITH
    view <- [c \in Members |-> log[c] \o down[c] \o Pending(c)]

(* epoll_server.c:58, to all other clients: every client hears the same    *)
(* messages in the same order, none of its own, although the server may be *)
(* blocked between two of the writes.                                      *)
AtomicBroadcast == Chat!Spec

Printed(c) == {log[c][k] : k \in 1 .. Len(log[c])}

Sent(c, d, n) ==
    /\ c # d /\ {c, d} \subseteq Members
    /\ \E k \in 1 .. Len(up[c]) : up[c][k] = <<c, n>>

(* epoll_server.c:58, broadcast a message to all other clients: one that a *)
(* registered client has written is printed by every other one that stays. *)
(* It is not: a client that is itself blocked in its write() reads nothing,*)
(* and the server, blocked in its write to that client, reads nothing.     *)
Delivered ==
    \A c, d \in Clients : \A n \in 1 .. MaxSaid :
        Sent(c, d, n) ~>
            (<<c, n>> \in Printed(d) \/ phase[d] = "gone" \/ ~Alive)
=============================================================================
