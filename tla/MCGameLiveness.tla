--------------------------- MODULE MCGameLiveness ---------------------------
(* The servers of week 13 whose seats come back, for TLC: a behaviour is    *)
(* one of the server picked at its start, LServer with Clients and          *)
(* MaxPlayers as they are, RServer or CsServer with Few and Seats for them. *)
EXTENDS LServer

CONSTANTS Few, Seats

VARIABLES server, thread, conn_id, pkt, udp_task

monitorVars == <<thread, conn_id, pkt, udp_task>>
eventVars == <<sock, batch, alive>>
allVars == <<vars, monitorVars, server>>

RS == INSTANCE RServer WITH Clients <- Few, MaxPlayers <- Seats
CS == INSTANCE CsServer WITH Clients <- Few, MaxPlayers <- Seats

AnyInit ==
    \/ /\ server = "epoll" /\ Init
       /\ thread = <<>> /\ conn_id = <<>> /\ pkt = <<>> /\ udp_task = "up"
    \/ /\ server \in {"rs", "cs"} /\ RS!Init
       /\ sock = <<>> /\ batch = {} /\ alive = TRUE

Epoll(A) == server = "epoll" /\ A /\ UNCHANGED <<monitorVars, server>>
Rust(A) == server = "rs" /\ RS!InOrder(A) /\ UNCHANGED <<eventVars, server>>
Cs(A) == server = "cs" /\ CS!InOrder(A) /\ UNCHANGED <<eventVars, server>>

(* Every thread, task and loop runs, and every client runs to its end      *)
(* unless it is killed; nothing forces a kill or a lost datagram.          *)
AnySpec ==
    /\ AnyInit
    /\ [][Epoll(Next) \/ Rust(RS!Next) \/ Cs(CS!Next)]_allVars
    /\ WF_allVars(Epoll(Server))
    /\ WF_allVars(Rust(RS!Accept) \/ Cs(CS!Accept))
    /\ \A c \in Clients : WF_allVars(Epoll(Environment(c)))
    /\ \A c \in Few :
        /\ WF_allVars(Rust(RS!Thread(c)) \/ Cs(CS!Task(c)))
        /\ WF_allVars(Rust(RS!Environment(c)) \/ Cs(CS!Environment(c)))

Waiting(c) == server = "epoll" /\ alive /\ phase[c] = "waiting"

(* What client.c:43 relies on, for the epoll server with no more           *)
(* descriptors than seats: a login is answered, or somebody dies.          *)
LoginsAnswered ==
    \A c \in Clients : Waiting(c) ~> ~Waiting(c)

(* Who has seat i.  The seat of a C# task that failed while it answered    *)
(* the login (server.cs:148) is lost for good and counts as nobody's.      *)
Holder(i) ==
    LET failed == {c \in DOMAIN thread : thread[c] = "failed"}
    IN  IF i \notin DOMAIN players THEN NoClient
        ELSE IF server = "epoll" THEN Owner(i)
        ELSE IF RS!Owner(i) \in failed THEN NoClient
        ELSE RS!Owner(i)

AnyRegistry == INSTANCE PlayerRegistry WITH
    Slots <- Slots \cup RS!Slots,
    owner <- [i \in Slots \cup RS!Slots |-> Holder(i)],
    leaving <- {c \in DOMAIN phase : phase[c] \in {"left", "gone"}},
    up <- alive

(* In all three servers the seat of a client that logged out or died comes *)
(* back, unless SIGPIPE stops the epoll server.                            *)
SeatsComeBack == AnyRegistry!Vacates
=============================================================================
