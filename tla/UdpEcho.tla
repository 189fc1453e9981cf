------------------------------ MODULE UdpEcho -------------------------------
(***************************************************************************)
(* The UDP echo programs of week 9, some clients and one server:           *)
(*   "udp_c"   Iclient.c, Iserver.c (Linux)                                *)
(*   "udp_w"   wclient.c, wserver.c (Windows)                              *)
(*   "udp_rs"  rclient.rs, rserver.rs (either)                             *)
(* The k-th datagram of a client is the number k.  The network may lose,   *)
(* copy and reorder datagrams; no program numbers, repeats or times them.  *)
(*                                                                         *)
(* On Windows a datagram that finds no port makes a later recvfrom() of    *)
(* its sender fail (bounced); on Linux it is lost without a trace.  Of a   *)
(* datagram longer than the buffer Linux returns the beginning; Windows    *)
(* fails.  Iclient.c sends none (fgets()); rclient.rs does not bound a     *)
(* line, nor does the gets() of wclient.c, there beyond its own buffer.    *)
(***************************************************************************)
EXTENDS Integers, Sequences, FiniteSets, SequencesExt

CONSTANTS
    Peers,          \* the clients
    Server,         \* the server, as one that can be bounced
    Long,           \* datagrams of more than 1024 bytes
    MaxQuestions,   \* datagrams a client sends (bounds the model)
    MaxFaults       \* datagrams lost, and copied, at most (bounds the model)

UdpAssumption ==
    /\ Server \notin Peers /\ MaxQuestions \in Nat /\ MaxFaults \in Nat
    /\ Long \subseteq Peers \X Nat

VARIABLES
    program,    \* the programs that run
    client,     \* "typing", "waiting" or "gone"
    server,     \* "reading" or "ended"
    asked,      \* datagrams each client has sent
    shown,      \* the answer it printed last, 0 for none
    toServer,   \* datagrams on their way: the sender and the number
    toClient,   \* echoes on their way, by client
    bounced,    \* sockets whose next recvfrom() fails
    lost, copied    \* faults of the network so far

vars == <<program, client, server, asked, shown, toServer, toClient, bounced,
          lost, copied>>

Programs == {"udp_c", "udp_w", "udp_rs"}

Init ==
    /\ client = [p \in Peers |-> "typing"]
    /\ server = "reading"
    /\ asked = [p \in Peers |-> 0]
    /\ shown = [p \in Peers |-> 0]
    /\ toServer = <<>>
    /\ toClient = [p \in Peers |-> <<>>]
    /\ bounced = {}
    /\ lost = 0 /\ copied = 0

UdpTypeOK ==
    /\ client \in [Peers -> {"typing", "waiting", "gone"}]
    /\ server \in {"reading", "ended"}
    /\ asked \in [Peers -> 0 .. MaxQuestions]
    /\ shown \in [Peers -> 0 .. MaxQuestions]
    /\ \A p \in Peers : shown[p] <= asked[p]
    /\ toServer \in Seq(Peers \X (1 .. MaxQuestions))
    /\ toClient \in [Peers -> Seq(1 .. MaxQuestions)]
    /\ bounced \in SUBSET (Peers \cup {Server})
    /\ lost \in 0 .. MaxFaults /\ copied \in 0 .. MaxFaults

-----------------------------------------------------------------------------
(* The sender of a datagram may learn that it found no port.               *)
Bounce(x) ==
    \/ UNCHANGED bounced
    \/ program # "udp_c" /\ bounced' = bounced \cup {x}

(* sendto() of the next line; each client waits for its answer then.       *)
Ask(p) ==
    /\ client[p] = "typing"
    /\ asked[p] < MaxQuestions
    /\ asked' = [asked EXCEPT ![p] = @ + 1]
    /\ client' = [client EXCEPT ![p] = "waiting"]
    /\ \/ /\ server = "reading"
          /\ toServer' = Append(toServer, <<p, asked'[p]>>)
          /\ UNCHANGED bounced
       \/ /\ server = "ended"
          /\ Bounce(p)
          /\ UNCHANGED toServer
    /\ UNCHANGED <<program, server, shown, toClient, lost, copied>>

(* recvfrom() of the client: whatever datagram is there is the answer.     *)
Receive(p) ==
    /\ client[p] = "waiting"
    /\ \E i \in 1 .. Len(toClient[p]) :
        /\ shown' = [shown EXCEPT ![p] = toClient[p][i]]
        /\ toClient' = [toClient EXCEPT ![p] = RemoveAt(@, i)]
    /\ client' = [client EXCEPT ![p] = "typing"]
    /\ UNCHANGED <<program, server, asked, toServer, bounced, lost, copied>>

(* recvfrom() of the client fails: wclient.c ignores it, rclient.rs ends.  *)
ReceiveFails(p) ==
    /\ client[p] = "waiting" /\ p \in bounced
    /\ bounced' = bounced \ {p}
    /\ client' = [client EXCEPT ![p] = IF program = "udp_w" THEN "typing"
                                       ELSE "gone"]
    /\ UNCHANGED <<program, server, asked, shown, toServer, toClient, lost,
                   copied>>

(* Ctrl+C, or for the C programs the end of the input: nobody takes what   *)
(* still comes.                                                            *)
Leave(p) ==
    /\ client[p] # "gone"
    /\ client' = [client EXCEPT ![p] = "gone"]
    /\ toClient' = [toClient EXCEPT ![p] = <<>>]
    /\ bounced' = bounced \ {p}
    /\ UNCHANGED <<program, server, asked, shown, toServer, lost, copied>>

(* Mutation variant: cliaddr is what the first recvfrom() stored.          *)
EchoToFirst ==
    /\ server = "reading" /\ toServer # <<>>
    /\ \E p \in Peers, i \in 1 .. Len(toServer) :
        /\ toClient' = [toClient EXCEPT ![p] = Append(@, toServer[i][2])]
        /\ toServer' = RemoveAt(toServer, i)
    /\ UNCHANGED <<program, client, server, asked, shown, bounced, lost, copied>>

(* recvfrom() and sendto() of the server.  An echo to a client that is     *)
(* gone finds no port.                                                     *)
Echo ==
    /\ server = "reading"
    /\ \E i \in 1 .. Len(toServer) :
        LET p == toServer[i][1]
        IN  /\ program = "udp_w" => toServer[i] \notin Long
            /\ toServer' = RemoveAt(toServer, i)
            /\ \/ /\ client[p] # "gone"
                  /\ toClient' = [toClient EXCEPT ![p] =
                                      Append(@, toServer[i][2])]
                  /\ UNCHANGED bounced
               \/ /\ client[p] = "gone"
                  /\ Bounce(Server)
                  /\ UNCHANGED toClient
    /\ UNCHANGED <<program, client, server, asked, shown, lost, copied>>

(* Mutation variant: an empty datagram, n = 0, ends the server.            *)
EchoFailsOnEmpty ==
    /\ server = "reading"
    /\ Server \in bounced \/ toServer # <<>>
    /\ server' = "ended"
    /\ toServer' = <<>>
    /\ bounced' = bounced \ {Server}
    /\ UNCHANGED <<program, client, asked, shown, toClient, lost, copied>>

(* recvfrom() of the server fails, for a bounced echo or for a datagram    *)
(* longer than its buffer: wserver.c:46 breaks, rserver.rs:12 returns.     *)
(* What has not been read is lost.                                         *)
EchoFails ==
    /\ server = "reading"
    /\ \/ Server \in bounced
       \/ program # "udp_c" /\ ToSet(toServer) \cap Long # {}
    /\ server' = "ended"
    /\ toServer' = <<>>
    /\ bounced' = bounced \ {Server}
    /\ UNCHANGED <<program, client, asked, shown, toClient, lost, copied>>

Lose ==
    /\ lost < MaxFaults
    /\ lost' = lost + 1
    /\ \/ /\ \E i \in 1 .. Len(toServer) : toServer' = RemoveAt(toServer, i)
          /\ UNCHANGED toClient
       \/ /\ \E p \in Peers : \E i \in 1 .. Len(toClient[p]) :
                toClient' = [toClient EXCEPT ![p] = RemoveAt(@, i)]
          /\ UNCHANGED toServer
    /\ UNCHANGED <<program, client, server, asked, shown, bounced, copied>>

Copy ==
    /\ copied < MaxFaults
    /\ copied' = copied + 1
    /\ \/ /\ \E i \in 1 .. Len(toServer) :
                toServer' = Append(toServer, toServer[i])
          /\ UNCHANGED toClient
       \/ /\ \E p \in Peers : \E i \in 1 .. Len(toClient[p]) :
                toClient' = [toClient EXCEPT ![p] = Append(@, @[i])]
          /\ UNCHANGED toServer
    /\ UNCHANGED <<program, client, server, asked, shown, bounced, lost>>

ClientRuns(p) == Receive(p) \/ ReceiveFails(p)
ServerRuns == Echo \/ EchoFails

Next ==
    \/ \E p \in Peers : Ask(p) \/ ClientRuns(p) \/ Leave(p)
    \/ ServerRuns
    \/ Lose \/ Copy

-----------------------------------------------------------------------------
(* The questions of p on their way.                                        *)
Questions(p) == {i \in 1 .. Len(toServer) : toServer[i][1] = p}

(* A client has no more datagrams on their way than the question it waits  *)
(* for and the copies the network made; without copies the only one is the *)
(* question just asked, so that the next answer is the answer to it        *)
(* although nothing in a datagram says so.                                 *)
AnswersQuestion ==
    \A p \in Peers : client[p] # "gone" =>
        /\ Cardinality(Questions(p)) + Len(toClient[p])
                <= copied + (IF client[p] = "waiting" THEN 1 ELSE 0)
        /\ copied = 0 =>
            /\ \A i \in Questions(p) : toServer[i][2] = asked[p]
            /\ \A i \in 1 .. Len(toClient[p]) : toClient[p][i] = asked[p]

(* The server outlives its clients, and empty datagrams (Iserver.c:35-47,  *)
(* wserver.c:42-53, rserver.rs:10-20).  It ends in two ways, neither in C  *)
(* on Linux: a client went away without its answer (or the network copied  *)
(* one), or has sent a datagram longer than the server's buffer.           *)
ServerOutlives ==
    server = "ended" =>
        /\ program # "udp_c"
        /\ \E p \in Peers :
            \/ client[p] = "gone" /\ (shown[p] < asked[p] \/ copied > 0)
            \/ \E k \in 1 .. asked[p] : <<p, k>> \in Long
=============================================================================
