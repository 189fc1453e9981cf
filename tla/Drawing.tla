------------------------------ MODULE Drawing -------------------------------
(***************************************************************************)
(* The drawing messages of week 6: a client connects, writes one message   *)
(* with one call and closes; a server reads it from the stream.            *)
(*   "fixed_c"   server.c: the struct in network byte order, one read()    *)
(*   "fixed_rs"  rserver.rs: the same bytes, read_exact()                  *)
(*   "var"       var_server.c: key=value lines up to a line END            *)
(* client.c and rclient.rs write the same bytes for a message, so either   *)
(* client goes with either server of the fixed message.                    *)
(*                                                                         *)
(* An integer is the sequence of its bytes in the memory of the host, the  *)
(* least significant one first.  A text line is its key, the first digits  *)
(* and the other digits of its value; END is two pieces, so that reads can *)
(* cut each of them.                                                       *)
(***************************************************************************)
EXTENDS Integers, Sequences, SequencesExt

CONSTANTS
    NumFields,  \* members of struct DrawingMessage, 6
    Width       \* bytes of an int32_t, 4

DrawingAssumption == NumFields \in Nat \ {0} /\ Width \in Nat \ {0}

VARIABLES
    program, cut,   \* as in LineClient
    client,         \* "start", "sent" or "closed"
    server,         \* "reading" or "done"
    toServer,       \* the stream
    ends,           \* positions in the stream where a read() ended
    shown           \* the message the server has put together

choiceVars == <<program, cut>>
vars == <<choiceVars, client, server, toServer, ends, shown>>

Programs == {"fixed_c", "fixed_rs", "var"}
Fields == 1 .. NumFields

(* The members of the message sent, all different.                         *)
Sent == [f \in Fields |-> [b \in 1 .. Width |-> <<f, b>>]]

Junk == <<0, 0>>        \* a byte of a struct nobody wrote to
Unread == <<>>          \* no message

(* htonl() and ntohl() on a little-endian host, to_be_bytes() and          *)
(* from_be_bytes(): the order of the bytes is reversed.                    *)
NetworkOrder(x) == Reverse(x)

Line(f) == <<<<f, "=">>, <<f, "d">>, <<f, "dd\n">>>>
End == <<<<0, "EN">>, <<0, "D\n">>>>

FixedMessage == FlattenSeq([f \in Fields |-> NetworkOrder(Sent[f])])
TextMessage == FlattenSeq([f \in Fields |-> Line(f)]) \o End

(* What a line of the text was parsed to; 0 is the initial value.          *)
Parsed == {"0", "short", "value"}

Init ==
    /\ cut \in BOOLEAN
    /\ client = "start" /\ server = "reading"
    /\ toServer = <<>> /\ ends = {0}
    /\ shown = IF program = "var" THEN [f \in Fields |-> "0"] ELSE Unread

DrawingTypeOK ==
    /\ client \in {"start", "sent", "closed"}
    /\ server \in {"reading", "done"}
    /\ IF program = "var" THEN shown \in [Fields -> Parsed]
       ELSE \/ shown = Unread
            \/ shown \in [Fields -> Seq((Fields \X (1 .. Width)) \cup {Junk})]

-----------------------------------------------------------------------------
Send ==
    /\ client = "start"
    /\ client' = "sent"
    /\ toServer' = IF program = "var" THEN TextMessage ELSE FixedMessage
    /\ UNCHANGED <<choiceVars, server, ends, shown>>

(* close(), or a client killed before it sent anything.                    *)
Close ==
    /\ client \in {"start", "sent"}
    /\ client' = "closed"
    /\ UNCHANGED <<choiceVars, server, toServer, ends, shown>>

Taken == CHOOSE e \in ends : \A d \in ends : d <= e

(* A read() that returns n bytes of what was sent.                         *)
Read(n) ==
    /\ server = "reading"
    /\ n \in 1 .. Len(toServer) - Taken
    /\ cut \/ n = Len(toServer) - Taken
    /\ ends' = ends \cup {Taken + n}
    /\ UNCHANGED <<choiceVars, client, toServer>>

Finish == server' = "done"

AtEnd ==
    /\ server = "reading"
    /\ client = "closed" /\ Taken = Len(toServer)
    /\ UNCHANGED <<choiceVars, client, toServer, ends>>

(* Member f of the struct when bytes has been copied to its start.         *)
Member(bytes, f) ==
    NetworkOrder([b \in 1 .. Width |->
        LET at == (f - 1) * Width + b
        IN  IF at <= Len(bytes) THEN bytes[at] ELSE Junk])

(* server.c: one read() into the struct, whatever it returns.              *)
ReadStruct ==
    /\ program = "fixed_c"
    /\ \E n \in 1 .. Len(toServer) :
        /\ Read(n)
        /\ shown' = [f \in Fields |-> Member(SubSeq(toServer, 1, n), f)]
    /\ Finish

(* server.c: read() returned 0.                                            *)
ReadNothing ==
    /\ program = "fixed_c"
    /\ AtEnd /\ Finish /\ UNCHANGED shown

(* Mutation variant: read() in place of read_exact().                      *)
ReadOnce ==
    /\ program = "fixed_rs"
    /\ \E n \in 1 .. Len(toServer) :
        /\ Read(n)
        /\ shown' = [f \in Fields |-> Member(SubSeq(toServer, 1, n), f)]
    /\ Finish

(* rserver.rs: read_exact() reads until it has all bytes of the message.   *)
ReadExact ==
    /\ program = "fixed_rs"
    /\ \E n \in 1 .. Len(toServer) :
        /\ Read(n)
        /\ IF Taken + n = NumFields * Width
           THEN Finish /\ shown' = [f \in Fields |-> Member(toServer, f)]
           ELSE UNCHANGED <<server, shown>>

(* rserver.rs: the stream ends before that.                                *)
ReadFails ==
    /\ program = "fixed_rs"
    /\ AtEnd /\ Finish /\ UNCHANGED shown

(* strtok() and sscanf() on the lines of a chunk: a value is read as far   *)
(* as it goes; a line without its key is skipped.                          *)
ParseLines(chunk, msg) ==
    [f \in Fields |->
        IF Contains(chunk, <<f, "=">>) /\ Contains(chunk, <<f, "d">>)
        THEN IF Contains(chunk, <<f, "dd\n">>) THEN "value" ELSE "short"
        ELSE msg[f]]

(* Mutation variant: msg is initialised for each chunk.                    *)
ReadTextAnew ==
    /\ program = "var"
    /\ \E n \in 1 .. Len(toServer) :
        LET chunk == SubSeq(toServer, Taken + 1, Taken + n)
        IN  /\ Read(n)
            /\ IF Contains(chunk, End[1]) /\ Contains(chunk, End[2])
               THEN Finish /\ UNCHANGED shown
               ELSE /\ shown' = ParseLines(chunk, [f \in Fields |-> "0"])
                    /\ UNCHANGED server

(* var_server.c: a chunk with END in it ends the loop before it is parsed. *)
ReadText ==
    /\ program = "var"
    /\ \E n \in 1 .. Len(toServer) :
        LET chunk == SubSeq(toServer, Taken + 1, Taken + n)
        IN  /\ Read(n)
            /\ IF Contains(chunk, End[1]) /\ Contains(chunk, End[2])
               THEN Finish /\ UNCHANGED shown
               ELSE shown' = ParseLines(chunk, shown) /\ UNCHANGED server

(* var_server.c: read() <= 0.                                              *)
ReadTextEnd ==
    /\ program = "var"
    /\ AtEnd /\ Finish /\ UNCHANGED shown

ServerRuns == \/ ReadStruct \/ ReadNothing
              \/ ReadExact \/ ReadFails
              \/ ReadText \/ ReadTextEnd

Next == Send \/ Close \/ ServerRuns

-----------------------------------------------------------------------------
(* A fixed message is shown as it was sent.  With read_exact() always;     *)
(* with one read() when it is not cut, and else each member is right or    *)
(* holds a byte nobody sent.                                               *)
FixedExact ==
    program # "var" /\ shown # Unread =>
        /\ program = "fixed_rs" \/ ~cut => shown = Sent
        /\ \A f \in Fields : shown[f] = Sent[f] \/ Contains(shown[f], Junk)

(* No read() ended between two positions of the stream.                    *)
Together(p, q) == \A e \in ends : ~(p <= e /\ e < q)

(* var_server.c:44-64: a line that comes whole, in a read that did not     *)
(* also bring all of END, is in the message for good, whatever comes with  *)
(* later reads.  A value is taken only from a whole line, a part of one    *)
(* only where a read ended inside it, and nothing where one ended before   *)
(* its first digit.                                                        *)
LinesKept ==
    program = "var" =>
        \A f \in Fields :
            LET key == 3 * f - 2
            IN  /\ /\ Together(key, key + 2)
                   /\ \E e \in ends : key + 2 <= e /\ e < Len(TextMessage)
                   => shown[f] = "value"
                /\ shown[f] = "value" => Together(key, key + 2)
                /\ shown[f] = "short" => ~Together(key + 1, key + 2)
                /\ shown[f] # "0" => Together(key, key + 1)

(* var_server.c:52-53, "receive variable-length data, parse key=value",    *)
(* and 66, "Parsed Message": what is shown of a message that was sent and  *)
(* came in one piece are its values.                                       *)
TextParsed ==
    program = "var" /\ ~cut /\ server = "done" /\ toServer # <<>> =>
        \A f \in Fields : shown[f] = "value"
=============================================================================
