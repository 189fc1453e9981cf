------------------------------ MODULE TcpEcho -------------------------------
(***************************************************************************)
(* The TCP echo servers of weeks 2 and 3 with their clients (LineClient):  *)
(* every chunk that is read is written back.  week3/rserver.rs would then  *)
(* take the next connection; the model follows one.                        *)
(***************************************************************************)
EXTENDS LineClient, SequencesExt

Programs == {"c2", "r2", "r3"}

(* Mutation variant: the byte that is dropped was meant to be a newline.   *)
EchoTrimmed(chunk) == SubSeq(chunk, 1, Len(chunk) - 1)

Echo(chunk) == chunk

ServerRuns ==
    \/ \E n \in Chunks(toServer, Cap) : Serve(n, Echo(Prefix(toServer, n)))
    \/ EndConnection

Next == ~overrun /\ (ClientNext \/ ServerRuns \/ KillServer)

(* The client waits for good: at the end of its input it asked nothing.    *)
Stuck == ~stdin /\ toServer = <<>> /\ toClient = <<>>

(* Through any cuts and merges of the two streams, what the client has     *)
(* printed and is still sent are the bytes it wrote, in order, none twice; *)
(* none is missing while the server runs.                                  *)
EchoIntegrity ==
    LET returned == FlattenSeq(shown) \o toClient
    IN  /\ IsPrefix(returned, FlattenSeq(asked))
        /\ server = "reading" => returned \o toServer = FlattenSeq(asked)
=============================================================================
