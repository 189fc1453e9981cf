----------------------------- MODULE ChatServer -----------------------------
(***************************************************************************)
(* The multithreaded chat of week 7: src/week7/server.c with runs of       *)
(* src/week7/client.c.                                                     *)
(*                                                                         *)
(* main() accepts, registers the connection in client_socks under the      *)
(* mutex and starts a thread for it; the thread reads and broadcasts, and  *)
(* removes the connection from the table before it closes it.  send_msg    *)
(* holds the mutex over all its writes, and a write blocks while the       *)
(* socket to a client is full, so its loop is one action per write; the    *)
(* other critical sections do not block and are one action each.           *)
(*                                                                         *)
(* A message is one write of a client.  A read that returns several of     *)
(* them, or a part of one, differs only in where the text is cut.  Nothing *)
(* catches SIGPIPE: a write to a connection whose client is gone may kill  *)
(* the server (alive).                                                     *)
(***************************************************************************)
EXTENDS Integers, Sequences, SequencesExt

CONSTANTS
    Clients, NoClient,
    Fds, NoFd,      \* descriptors accept() can return
    MaxClient,      \* MAX_CLIENT
    Room,           \* messages a socket buffers in one direction
    MaxSay,         \* bound: messages one client sends
    Backlog         \* connections the listening socket holds

ASSUME ChatAssumption ==
    /\ NoClient \notin Clients /\ NoFd \notin Fds
    /\ {MaxClient, Room, MaxSay, Backlog} \subseteq Nat \ {0}

Messages == Clients \X (1 .. MaxSay)

NoMessage == <<>>

VARIABLES
    phase,          \* of each client: "start", "in" or "gone"
    said,           \* messages the client has written
    up, down,       \* the two directions of its connection
    log,            \* what its receiver thread has printed
    backlog,        \* connected, not accepted
    sock,           \* client on the other end of each open descriptor
    client_socks,   \* the first client_count entries of the table
    mutex,          \* connection whose thread is inside send_msg
    main, new,      \* what main() does next, and its clnt_sock
    pc, msg, next,  \* of each connection's thread: next step, buf and i
    alive           \* the server has not been killed by SIGPIPE

clientVars == <<phase, said, up, down, log, backlog>>
threadVars == <<pc, msg, next>>
serverVars == <<sock, client_socks, mutex, main, new, threadVars, alive>>
vars == <<clientVars, serverVars>>

(* Types; the table never outgrows client_socks[MAX_CLIENT].               *)
TypeOK ==
    /\ phase \in [Clients -> {"start", "in", "gone"}]
    /\ said \in [Clients -> 0 .. MaxSay]
    /\ up \in [Clients -> Seq(Messages)]
    /\ down \in [Clients -> Seq(Messages)]
    /\ log \in [Clients -> Seq(Messages)]
    /\ backlog \in Seq(Clients)
    /\ sock \in [Fds -> Clients \cup {NoClient}]
    /\ client_socks \in Seq(Fds) /\ Len(client_socks) <= MaxClient
    /\ mutex \in Fds \cup {NoFd}
    /\ main \in {"accept", "register", "spawn", "undo"}
    /\ new \in Fds \cup {NoFd}
    /\ pc \in [Fds -> {"none", "read", "lock", "send", "remove", "close"}]
    /\ msg \in [Fds -> Messages \cup {NoMessage}]
    /\ next \in [Fds -> 0 .. MaxClient + 1]
    /\ alive \in BOOLEAN

Init ==
    /\ phase = [c \in Clients |-> "start"]
    /\ said = [c \in Clients |-> 0]
    /\ up = [c \in Clients |-> <<>>]
    /\ down = [c \in Clients |-> <<>>]
    /\ log = [c \in Clients |-> <<>>]
    /\ backlog = <<>>
    /\ sock = [f \in Fds |-> NoClient]
    /\ client_socks = <<>>
    /\ mutex = NoFd
    /\ main = "accept" /\ new = NoFd
    /\ pc = [f \in Fds |-> "none"]
    /\ msg = [f \in Fds |-> NoMessage]
    /\ next = [f \in Fds |-> 0]
    /\ alive = TRUE

-----------------------------------------------------------------------------
(* main().                                                                 *)

Count == Len(client_socks)

(* accept() takes a free descriptor; without one it fails and is retried.  *)
Accept ==
    /\ main = "accept" /\ backlog # <<>>
    /\ \E f \in Fds :
        /\ sock[f] = NoClient
        /\ sock' = [sock EXCEPT ![f] = Head(backlog)]
        /\ new' = f
    /\ backlog' = Tail(backlog)
    /\ main' = "register"
    /\ UNCHANGED <<phase, said, up, down, log, client_socks, mutex,
                   threadVars, alive>>

(* Mutation variant: > for >=, one entry too many.                         *)
RegisterOver ==
    /\ main = "register" /\ mutex = NoFd
    /\ \/ /\ Count > MaxClient
          /\ sock' = [sock EXCEPT ![new] = NoClient]
          /\ new' = NoFd
          /\ main' = "accept"
          /\ UNCHANGED client_socks
       \/ /\ Count <= MaxClient
          /\ client_socks' = Append(client_socks, new)
          /\ main' = "spawn"
          /\ UNCHANGED <<sock, new>>
    /\ UNCHANGED <<clientVars, mutex, threadVars, alive>>

(* The critical section of main: register, or hang up when it is full.     *)
Register ==
    /\ main = "register" /\ mutex = NoFd
    /\ \/ /\ Count >= MaxClient
          /\ sock' = [sock EXCEPT ![new] = NoClient]
          /\ new' = NoFd
          /\ main' = "accept"
          /\ UNCHANGED client_socks
       \/ /\ Count < MaxClient
          /\ client_socks' = Append(client_socks, new)
          /\ main' = "spawn"
          /\ UNCHANGED <<sock, new>>
    /\ UNCHANGED <<clientVars, mutex, threadVars, alive>>

(* malloc and pthread_create; either may fail, then the socket is closed.  *)
Spawn ==
    /\ main = "spawn"
    /\ \/ /\ pc' = [pc EXCEPT ![new] = "read"]
          /\ main' = "accept"
          /\ new' = NoFd
          /\ UNCHANGED sock
       \/ /\ sock' = [sock EXCEPT ![new] = NoClient]
          /\ main' = "undo"
          /\ UNCHANGED <<pc, new>>
    /\ UNCHANGED <<clientVars, client_socks, mutex, msg, next, alive>>

(* Mutation variant: the failure path trusts that it closed the socket.    *)
UndoForgotten ==
    /\ main = "undo" /\ mutex = NoFd
    /\ main' = "accept"
    /\ new' = NoFd
    /\ UNCHANGED <<clientVars, sock, client_socks, mutex, threadVars, alive>>

(* client_count--: the last entry goes, whoever it is by now.              *)
Undo ==
    /\ main = "undo" /\ mutex = NoFd
    /\ client_socks' = SubSeq(client_socks, 1, Count - 1)
    /\ main' = "accept"
    /\ new' = NoFd
    /\ UNCHANGED <<clientVars, sock, mutex, threadVars, alive>>

-----------------------------------------------------------------------------
(* handle_clnt(): the thread of connection f.                              *)

At(f, from, to) ==
    /\ pc[f] = from
    /\ pc' = [pc EXCEPT ![f] = to]

Read(f) ==
    /\ At(f, "read", "lock")
    /\ up[sock[f]] # <<>>
    /\ msg' = [msg EXCEPT ![f] = Head(up[sock[f]])]
    /\ up' = [up EXCEPT ![sock[f]] = Tail(@)]
    /\ UNCHANGED <<phase, said, down, log, backlog, sock, client_socks, mutex,
                   main, new, next, alive>>

(* Mutation variant: send_msg without pthread_mutex_lock.                  *)
LockSkipped(f) ==
    /\ At(f, "lock", "send")
    /\ mutex' = f
    /\ next' = [next EXCEPT ![f] = 1]
    /\ UNCHANGED <<clientVars, sock, client_socks, main, new, msg, alive>>

(* send_msg(): lock, then i = 0 (next counts from one).                    *)
Lock(f) ==
    /\ At(f, "lock", "send")
    /\ mutex = NoFd
    /\ mutex' = f
    /\ next' = [next EXCEPT ![f] = 1]
    /\ UNCHANGED <<clientVars, sock, client_socks, main, new, msg, alive>>

(* One write(): it blocks on a full socket, fails on a closed one (EBADF), *)
(* and may raise SIGPIPE when the client is gone.                          *)
Write(f) ==
    /\ pc[f] = "send" /\ next[f] <= Count
    /\ next' = [next EXCEPT ![f] = @ + 1]
    /\ LET d == sock[client_socks[next[f]]]
       IN  \/ d = NoClient /\ UNCHANGED <<down, alive>>
           \/ /\ d # NoClient /\ phase[d] = "gone"
              /\ alive' \in BOOLEAN
              /\ UNCHANGED down
           \/ /\ d # NoClient /\ phase[d] = "in"
              /\ Len(down[d]) < Room
              /\ down' = [down EXCEPT ![d] = Append(@, msg[f])]
              /\ UNCHANGED alive
    /\ UNCHANGED <<phase, said, up, log, backlog, sock, client_socks, mutex,
                   main, new, pc, msg>>

Unlock(f) ==
    /\ At(f, "send", "read")
    /\ next[f] > Count
    /\ mutex' = NoFd
    /\ msg' = [msg EXCEPT ![f] = NoMessage]
    /\ next' = [next EXCEPT ![f] = 0]
    /\ UNCHANGED <<clientVars, sock, client_socks, main, new, alive>>

(* read() <= 0: the client has closed and all it sent has been read.       *)
EndOfFile(f) ==
    /\ At(f, "read", "remove")
    /\ up[sock[f]] = <<>> /\ phase[sock[f]] = "gone"
    /\ UNCHANGED <<clientVars, sock, client_socks, mutex, main, new, msg, next,
                   alive>>

(* Mutation variant: the thread returns without unlocking.                 *)
UnregisterLocked(f) ==
    /\ At(f, "remove", "close")
    /\ mutex = NoFd
    /\ mutex' = f
    /\ client_socks' = RemoveFirst(client_socks, f)
    /\ UNCHANGED <<clientVars, sock, main, new, msg, next, alive>>

(* The search and shift of lines 105-113, under the mutex.                 *)
Unregister(f) ==
    /\ At(f, "remove", "close")
    /\ mutex = NoFd
    /\ client_socks' = RemoveFirst(client_socks, f)
    /\ UNCHANGED <<clientVars, sock, mutex, main, new, msg, next, alive>>

Close(f) ==
    /\ At(f, "close", "none")
    /\ sock' = [sock EXCEPT ![f] = NoClient]
    /\ UNCHANGED <<clientVars, client_socks, mutex, main, new, msg, next,
                   alive>>

-----------------------------------------------------------------------------
(* The clients: a sender thread, a receiver thread, "q" or a kill.         *)

Connect(c) ==
    /\ phase[c] = "start" /\ Len(backlog) < Backlog
    /\ phase' = [phase EXCEPT ![c] = "in"]
    /\ backlog' = Append(backlog, c)
    /\ UNCHANGED <<said, up, down, log, serverVars>>

Say(c) ==
    /\ phase[c] = "in" /\ said[c] < MaxSay /\ Len(up[c]) < Room
    /\ said' = [said EXCEPT ![c] = @ + 1]
    /\ up' = [up EXCEPT ![c] = Append(@, <<c, said[c] + 1>>)]
    /\ UNCHANGED <<phase, down, log, backlog, serverVars>>

Receive(c) ==
    /\ down[c] # <<>>
    /\ log' = [log EXCEPT ![c] = Append(@, Head(down[c]))]
    /\ down' = [down EXCEPT ![c] = Tail(@)]
    /\ UNCHANGED <<phase, said, up, backlog, serverVars>>

Leave(c) ==
    /\ phase[c] = "in"
    /\ phase' = [phase EXCEPT ![c] = "gone"]
    /\ down' = [down EXCEPT ![c] = <<>>]
    /\ UNCHANGED <<said, up, log, backlog, serverVars>>

-----------------------------------------------------------------------------
Main == alive /\ (Accept \/ Register \/ Spawn \/ Undo)

Thread(f) ==
    /\ alive
    /\ \/ Read(f) \/ Lock(f) \/ Write(f) \/ Unlock(f)
       \/ EndOfFile(f) \/ Unregister(f) \/ Close(f)

Receiver(c) == alive /\ Receive(c)

Next ==
    \/ Main
    \/ \E f \in Fds : Thread(f)
    \/ \E c \in Clients :
        alive /\ (Connect(c) \/ Say(c) \/ Receive(c) \/ Leave(c))

SafeSpec == Init /\ [][Next]_vars

(* The server's threads and the receiver threads run; nobody must talk or  *)
(* leave.                                                                  *)
Spec ==
    /\ SafeSpec
    /\ WF_vars(Main)
    /\ \A f \in Fds : WF_vars(Thread(f))
    /\ \A c \in Clients : WF_vars(Receiver(c))

-----------------------------------------------------------------------------
(* server.c:13, the table under its mutex: no descriptor is in it twice,   *)
(* every one in it is open but for the one main() is about to take out     *)
(* again, that one is the last when client_count-- removes it blindly, and *)
(* a thread that may still broadcast is registered.                        *)
TableConsistent ==
    /\ \A j, k \in 1 .. Count : client_socks[j] = client_socks[k] => j = k
    /\ \A k \in 1 .. Count : sock[client_socks[k]] = NoClient =>
            main = "undo" /\ k = Count /\ client_socks[k] = new
    /\ main \in {"spawn", "undo"} => Count > 0 /\ client_socks[Count] = new
    /\ \A f \in Fds : pc[f] \in {"read", "lock", "send"} =>
            sock[f] # NoClient /\ \E k \in 1 .. Count : client_socks[k] = f

Members ==
    {c \in Clients : phase[c] = "in" /\
        \E k \in 1 .. Count : sock[client_socks[k]] = c}

(* The part of a broadcast that is still to come for c.                    *)
Pending(c) ==
    IF /\ mutex # NoFd
       /\ \E k \in next[mutex] .. Count : sock[client_socks[k]] = c
    THEN <<msg[mutex]>> ELSE <<>>

(* Everyone hears a message, its author too.                               *)
Hears(c, m) == TRUE

Chat == INSTANCE ChatRoom WITH
    view <- [c \in Members |-> log[c] \o down[c] \o Pending(c)]

(* server.c:124, send to all clients: although it writes to one client     *)
(* after the other and may block in between, send_msg is one atomic        *)
(* broadcast, so all clients print the same messages in the same order.    *)
AtomicBroadcast == Chat!Spec

Served(c) == \E f \in Fds : sock[f] = c /\ pc[f] \in {"read", "lock", "send"}

Printed(c) == {log[c][k] : k \in 1 .. Len(log[c])}

(* A message sent on a served connection is printed by every client that   *)
(* is in the room and stays: a slow receiver delays the broadcast, which   *)
(* blocks everyone at the mutex, but never for good.                       *)
Delivered ==
    \A c, d \in Clients : \A n \in 1 .. MaxSay :
        (said[c] = n /\ up[c] # <<>> /\ Served(c) /\ Served(d)
            /\ phase[d] = "in")
        ~> (<<c, n>> \in Printed(d) \/ phase[d] = "gone" \/ ~alive)
=============================================================================
