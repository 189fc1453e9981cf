----------------------------- MODULE LineClient -----------------------------
(***************************************************************************)
(* The line-by-line TCP clients of weeks 2 and 3 and the connection they   *)
(* share with a server (TcpEcho, CommandServer): type a line, write it,    *)
(* call read() once, print what it returned.  Nothing frames a line or an  *)
(* answer.  A program is a client with the server of its directory:        *)
(*   "c2"  week2 and week2_Prac, C       "r2"  week2, Rust                 *)
(*   "c3"  week3, C    "c3p"  week3_Prac, C    "r3"  week3, Rust           *)
(*                                                                         *)
(* A stream is a sequence of bytes (of pieces of text, where the size does *)
(* not matter).  With cut FALSE a read takes all that has arrived and fits *)
(* its buffer, as on the loopback device these programs name; with cut     *)
(* TRUE it may take less.                                                  *)
(*                                                                         *)
(* The C programs end what they read with buf[n] = 0.  For n = -1, and for *)
(* n = 1024 where the whole buffer was offered to read(), that is outside  *)
(* buf: overrun becomes TRUE and the model stops there.                    *)
(***************************************************************************)
EXTENDS Integers, Sequences

CONSTANTS
    Lines,      \* what the user may type, newline included
    Garbage,    \* what a buffer nobody wrote to may hold, as a string
    Cap,        \* sizeof(buf), 1024
    MaxLines    \* lines a client writes at most (bounds the model)

LineAssumption ==
    /\ Cap \in Nat \ {0, 1}
    /\ MaxLines \in Nat
    /\ Lines \subseteq Seq(STRING) \ {<<>>}
    /\ Garbage \subseteq Seq(STRING)

VARIABLES
    program,    \* the client and server that run
    cut,        \* a read may return less than what has arrived
    client,     \* what the client does next
    stdin,      \* its input has not ended
    asked,      \* the lines it has written
    shown,      \* what each of its reads returned
    server,     \* "reading", "ended" with its connection, or "killed"
    toServer,   \* bytes on their way to the server
    toClient,   \* bytes on their way to the client
    overrun     \* a byte outside a buffer was written

choiceVars == <<program, cut>>
clientVars == <<client, stdin, asked, shown>>
connVars == <<server, toServer, toClient>>
vars == <<choiceVars, clientVars, connVars, overrun>>

Init ==
    /\ cut \in BOOLEAN
    /\ client = "typing" /\ stdin = TRUE
    /\ asked = <<>> /\ shown = <<>>
    /\ server = "reading"
    /\ toServer = <<>> /\ toClient = <<>>
    /\ overrun = FALSE

LineTypeOK ==
    /\ client \in {"typing", "waiting", "ended"}
    /\ stdin \in BOOLEAN /\ cut \in BOOLEAN /\ overrun \in BOOLEAN
    /\ server \in {"reading", "ended", "killed"}
    /\ Len(asked) <= MaxLines
    /\ \A k \in 1 .. Len(shown) : Len(shown[k]) <= Cap

-----------------------------------------------------------------------------
(* Mutation variant: the read is told of a larger buffer than there is.    *)
ChunksUnbounded(stream, room) ==
    {n \in 1 .. Len(stream) : cut \/ n = Len(stream)}

(* The lengths one read() of up to room bytes can return.                  *)
Chunks(stream, room) ==
    {n \in 1 .. Len(stream) : /\ n <= room
                              /\ cut \/ n = room \/ n = Len(stream)}

Prefix(s, n) == SubSeq(s, 1, n)
Rest(s, n) == SubSeq(s, n + 1, Len(s))

(* Mutation variant: the client does not wait for the answer.              *)
WriteAhead(line) ==
    /\ Len(asked) < MaxLines
    /\ asked' = Append(asked, line)
    /\ client' \in {"typing", "waiting"}
    /\ toServer' = IF server = "reading" THEN toServer \o line ELSE toServer
    /\ UNCHANGED <<choiceVars, shown, server, toClient, overrun>>

(* write() of line, then on to the read.  The server may be gone: then the *)
(* bytes are lost, or the write fails and with it the client.              *)
Write(line) ==
    /\ Len(asked) < MaxLines
    /\ asked' = Append(asked, line)
    /\ \/ client' = "waiting"
       \/ server = "killed" /\ client' = "ended"
    /\ toServer' = IF server = "reading" THEN toServer \o line ELSE toServer
    /\ UNCHANGED <<choiceVars, shown, server, toClient, overrun>>

(* fgets() takes Cap - 1 bytes at most, and what a longer line has then is *)
(* the next; read_line() takes lines of any length.                        *)
TypeLine ==
    /\ client = "typing" /\ stdin
    /\ \E line \in Lines :
        /\ program \in {"r2", "r3"} \/ Len(line) < Cap
        /\ Write(line)
    /\ UNCHANGED stdin

(* q, QUIT, or the end of the input where the client looks for it; what    *)
(* week2/client.c sends again at its end may be a q, too.                  *)
Quit ==
    /\ client = "typing"
    /\ stdin \/ program \in {"c2", "c3", "c3p"}
    /\ client' = "ended"
    /\ UNCHANGED <<choiceVars, stdin, asked, shown, connVars, overrun>>

EndOfInput ==
    /\ stdin /\ stdin' = FALSE
    /\ UNCHANGED <<choiceVars, client, asked, shown, connVars, overrun>>

(* week2/client.c:19 ignores the NULL of fgets(): what is still in buf,    *)
(* the last answer or, before there was one, anything, is sent as the next *)
(* line.                                                                   *)
WriteStale ==
    /\ client = "typing" /\ ~stdin /\ program = "c2"
    /\ \E line \in IF shown # <<>> THEN {shown[Len(shown)]} ELSE Garbage :
            Write(line)
    /\ UNCHANGED stdin

(* The Rust clients take the end of the input for an empty line: nothing   *)
(* is written and the read waits.                                          *)
WriteNothing ==
    /\ client = "typing" /\ ~stdin /\ program \in {"r2", "r3"}
    /\ client' = "waiting"
    /\ UNCHANGED <<choiceVars, stdin, asked, shown, connVars, overrun>>

(* What the client offers to read().                                       *)
Room == IF program \in {"c3", "c3p"} THEN Cap - 1 ELSE Cap

(* The terminator of n bytes read falls outside the buffer.                *)
Outside(n) == program \notin {"r2", "r3"} /\ n \notin 0 .. Cap - 1

ReadAnswer ==
    /\ client = "waiting"
    /\ \E n \in Chunks(toClient, Room) :
        /\ shown' = Append(shown, Prefix(toClient, n))
        /\ toClient' = Rest(toClient, n)
        /\ overrun' = Outside(n)
    /\ client' = "typing"
    /\ UNCHANGED <<choiceVars, stdin, asked, server, toServer>>

(* read() returns 0, or -1 after a reset, and the client ends.  That of    *)
(* week 2 in C prints an empty answer and goes on, and takes -1 for data.  *)
ReadEnd ==
    /\ client = "waiting" /\ server = "killed" /\ toClient = <<>>
    /\ \/ /\ program # "c2"
          /\ client' = "ended" /\ UNCHANGED <<shown, overrun>>
       \/ /\ program = "c2"
          /\ client' = "typing" /\ shown' = Append(shown, <<>>)
          /\ overrun' \in BOOLEAN
    /\ UNCHANGED <<choiceVars, stdin, asked, connVars>>

(* Ctrl+C, also while the client waits for its answer.                     *)
KillClient ==
    /\ client # "ended"
    /\ client' = "ended"
    /\ UNCHANGED <<choiceVars, stdin, asked, shown, connVars, overrun>>

(* Everything the client does without its user.                            *)
ClientRuns == ReadAnswer \/ ReadEnd \/ WriteStale \/ WriteNothing

ClientNext == TypeLine \/ Quit \/ EndOfInput \/ KillClient \/ ClientRuns

-----------------------------------------------------------------------------
(* Mutation variant: the terminator is written too.                        *)
ServeTerminated(n, answer) ==
    /\ server = "reading"
    /\ toServer' = Rest(toServer, n)
    /\ toClient' = toClient \o answer \o <<"">>
    /\ overrun' = Outside(n)
    /\ UNCHANGED <<choiceVars, clientVars, server>>

(* One turn of the server: read() n bytes, print them, write the answer.   *)
(* The write fails when the client has ended, and the server with it.      *)
Serve(n, answer) ==
    /\ server = "reading"
    /\ toServer' = Rest(toServer, n)
    /\ toClient' = toClient \o answer
    /\ overrun' = Outside(n)
    /\ \/ UNCHANGED server
       \/ client = "ended" /\ answer # <<>> /\ server' = "ended"
    /\ UNCHANGED <<choiceVars, clientVars>>

(* read() returns 0, or -1 when the client left an answer unread: that     *)
(* ends each server but the one of week 2 in C, which takes -1 for data.   *)
EndConnection ==
    /\ server = "reading" /\ client = "ended" /\ toServer = <<>>
    /\ server' = "ended"
    /\ overrun' = (program = "c2" /\ toClient # <<>>)
    /\ UNCHANGED <<choiceVars, clientVars, toServer, toClient>>

KillServer ==
    /\ server = "reading"
    /\ server' = "killed"
    /\ toServer' = <<>>
    /\ UNCHANGED <<choiceVars, clientVars, toClient, overrun>>

-----------------------------------------------------------------------------
(* When reads are not cut and no line is longer than the buffers, each     *)
(* answer shown is the one expected for the line before it, although       *)
(* nothing in the stream says so (week2/client.c:22-26, week3/client.c).   *)
(* The Rust clients do not bound a line (week2/rclient.rs:10): after a     *)
(* longer one they show the rest of its echo as the next answer.           *)
InStep(expected) ==
    /\ ~cut /\ server # "killed"
    /\ \A k \in 1 .. Len(asked) : Len(asked[k]) <= Cap
    => \A k \in 1 .. Len(shown) : shown[k] = expected[k]

(* The terminator of a read stays inside its buffer (week2/server.c:27,    *)
(* week3/server.c:52) because at most one line is on its way, but for four *)
(* ways out: a read is cut; the server is killed; week2/client.c sends an  *)
(* uninitialised buffer that fills the next; or that client is killed      *)
(* while it waits, and the read of its server returns -1.                  *)
TerminatorInside ==
    overrun =>
        \/ cut \/ server = "killed"
        \/ \E k \in 1 .. Len(asked) : Len(asked[k]) >= Cap
        \/ program = "c2" /\ client = "ended" /\ Len(shown) < Len(asked)
=============================================================================
