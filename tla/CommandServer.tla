--------------------------- MODULE CommandServer ----------------------------
(***************************************************************************)
(* The command servers of week 3 (TIME, NAME) with their clients           *)
(* (LineClient).  A command is recognised by comparing the whole result of *)
(* one recv(); week3_Prac/server.c answers a command it does not know with *)
(* nothing.  A line is two pieces here, so that a read can cut it.         *)
(***************************************************************************)
EXTENDS LineClient

Programs == {"c3", "c3p"}

(* An answer fits the buffer of the client.                                *)
CommandAssumption == LineAssumption /\ 2 < Cap

Time == <<"TI", "ME\n">>
Name == <<"NAME ", "x\n">>

(* Mutation variant: no server answers what it does not know.              *)
AnswerKnown(chunk) ==
    CASE chunk = Time -> <<"2026-", "01-01\n">>
      [] chunk[1] = "NAME " -> <<"My name is ", "x Server\n">>
      [] OTHER -> <<>>

(* strcmp() with TIME, strncmp() with NAME, or neither.  A name ends at    *)
(* its newline, whatever follows in the chunk.                             *)
Answer(chunk) ==
    CASE chunk = Time -> <<"2026-", "01-01\n">>
      [] chunk[1] = "NAME " -> <<"My name is ",
                                 IF Len(chunk) = 1 THEN " Server\n"
                                 ELSE "x Server\n">>
      [] OTHER -> IF program = "c3" THEN <<"Unknown ", "Command\n">> ELSE <<>>

ServerRuns ==
    \/ \E n \in Chunks(toServer, Cap) : Serve(n, Answer(Prefix(toServer, n)))
    \/ EndConnection

(* What the client should be told, line by line.                           *)
Expected == [k \in DOMAIN asked |-> Answer(asked[k])]

Next == ~overrun /\ (ClientNext \/ ServerRuns \/ KillServer)

(* The client waits for good: week3_Prac said nothing to its command.      *)
Stuck ==
    /\ program = "c3p"
    /\ cut \/ asked[Len(asked)] \notin {Time, Name}
    /\ toServer = <<>> /\ toClient = <<>>
=============================================================================
