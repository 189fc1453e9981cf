---------------------------- MODULE MCGameTable -----------------------------
(* LServer and WServer for TLC: a behaviour is one of the server picked at  *)
(* its start; clients and descriptors are interchangeable.  Completions     *)
(* under way multiply the states of WServer, so that no more than Few       *)
(* clients ever connect to it.                                              *)
EXTENDS GameTable, FiniteSets, TLC

CONSTANTS Listen, Few

VARIABLES server, batch, posted, port, unreached

portVars == <<posted, port, unreached>>
allVars == <<clientVars, players, sock, alive, server, batch, portVars>>

L == INSTANCE LServer
W == INSTANCE WServer

AnyInit ==
    \/ /\ server = "epoll" /\ L!Init
       /\ posted = {} /\ port = <<>> /\ unreached = FALSE
    \/ /\ server = "iocp" /\ W!Init
       /\ batch = {}

Epoll(A) == server = "epoll" /\ A /\ UNCHANGED <<portVars, server>>
Iocp(A) ==
    /\ server = "iocp" /\ A /\ UNCHANGED <<batch, server>>
    /\ Cardinality({c \in Clients : phase'[c] # "start"}) <= Few

AnySpec == AnyInit /\ [][Epoll(L!Next) \/ Iocp(W!Next)]_allVars

(* Types of the server that runs.                                           *)
TypeOK ==
    /\ server = "epoll" => L!TypeOK
    /\ server = "iocp" => W!TypeOK

(* LServer!EventsStayReady: no event of a batch is stale when handled.      *)
EventsStayReady == server = "epoll" => L!EventsStayReady

(* LServer!MovesKept: a player's Move is neither lost nor another's.        *)
MovesKept == server = "epoll" => L!MovesKept

(* WServer!ReceiveOutstanding: one receive under way for a connection.      *)
ReceiveOutstanding == server = "iocp" => W!ReceiveOutstanding

Symmetry == Permutations(Clients) \cup Permutations(Fds)
=============================================================================
