---------------------------- MODULE FileTransfer ----------------------------
(***************************************************************************)
(* The file server of week 5: src/week5/Iserver.c, Iclient.c and Icommon.h.*)
(*                                                                         *)
(* The server takes one connection at a time and answers each command line *)
(* with lines that end in the COMMANDS line, the client's next prompt.     *)
(* Both sides are sequential and block in recv() and, when the socket is   *)
(* full, in send(); each receive and each send is an action.               *)
(*                                                                         *)
(* A file is a sequence of pieces, each what one fgets() returns: a line   *)
(* with its newline, or at the end of a file one without (Open).  From     *)
(* client to server they travel as raw data of the announced size, counted *)
(* in pieces; from server to client as lines between START and END, cut at *)
(* a NUL and each with a newline (Line).  recv_line() returns at most 0    *)
(* for an empty line and for a closed connection, and no caller tells the  *)
(* two apart: both are received as the empty line.                         *)
(*                                                                         *)
(* Left out: lines of BUF_SIZE - 1 characters and more, which send_line()  *)
(* mutilates; files of more than INT_MAX bytes; and texts, typed or in a   *)
(* file, that are themselves a command or a number.                        *)
(***************************************************************************)
EXTENDS Integers, Sequences, SequencesExt

CONSTANTS
    Clients, NoClient,
    Names,          \* file names a user may ask for
    Contents,       \* contents files may have, sequences of pieces
    Open,           \* pieces without a newline
    Line,           \* of each piece, the line the server makes of it
    NoFile,         \* the file does not exist or cannot be read
    Room,           \* lines a socket buffers in one direction
    MaxCommands     \* bound: commands one user enters

(* What recv_line() leaves in the buffer for an empty line, and at the end *)
(* of the connection.                                                      *)
Nothing == ""

(* Typed lines that are no command, and data that once was one.            *)
Other == "hello"

Text == (UNION {ToSet(f) : f \in Contents}) \cup {Nothing, Other}

ASSUME FileAssumption ==
    /\ NoClient \notin Clients /\ NoFile \notin Contents \cup Names
    /\ Names \subseteq STRING \ {Nothing} /\ IsFiniteSet(Names)
    /\ Contents \subseteq Seq(STRING)
    /\ Open \subseteq Text \ {Nothing, Other}
    /\ Line \in [Text -> STRING]
    /\ Room \in Nat \ {0} /\ MaxCommands \in Nat

(* Lines the server sends, and lines or data the client sends.             *)
Replies ==
    {"COMMANDS", "Files:", "Failed to open directory", "File not found",
     "START", "END", "READY", "FAILED", "UPLOAD DONE", "Unknown command",
     Nothing} \cup Names \cup {Line[t] : t \in Text}

Requests ==
    ({"list", "quit"} \X {"list", "quit"}) \cup ({"get", "load"} \X Names)
        \cup ({"size"} \X {Len(f) : f \in Contents})
        \cup ({"text"} \X Text)

VARIABLES
    pc,         \* of each client: the receive or send it is at
    entered,    \* commands its user has entered
    arg,        \* file name in the last get or load
    local,      \* the user's own files
    copy,       \* downloaded_<arg>, as written so far
    todo,       \* data still to be sent
    astray,     \* history: clients that left a reply unread, or were sent one
                \* with a line they mistake for its end or without an end,
                \* or sent more data than they had announced
    uneven,     \* history: clients whose data did not come to its size
    up, down,   \* the two directions of each connection
    backlog,    \* connected, not accepted
    closed,     \* connections the server has closed
    files,      \* the directory ./Files
    serving,    \* client being served
    at,         \* what the server receives next: "command", "size" or "data"
    begun,      \* what it has read is the beginning of a line
    out,        \* lines it sends before that
    filename, left,     \* of an upload: file and data to come
    dropped,    \* history: fwrite() has failed in the last upload
    alive       \* the server has not been killed by SIGPIPE

userVars == <<pc, entered, arg, local, copy, todo>>
wireVars == <<up, down, backlog, closed>>
serverVars == <<files, serving, at, begun, out, filename, left, dropped, alive>>
vars == <<userVars, astray, uneven, wireVars, serverVars>>

(* Types; at most the rest of an upload is outstanding.                    *)
TypeOK ==
    /\ pc \in [Clients -> {"start", "prompt", "input", "list", "get", "ready",
                           "send", "answer", "gone"}]
    /\ entered \in [Clients -> 0 .. MaxCommands]
    /\ arg \in [Clients -> Names \cup {NoFile}]
    /\ local \in [Clients -> [Names -> Contents \cup {NoFile}]]
    /\ copy \in [Clients -> Seq(Replies)]
    /\ todo \in [Clients -> Seq(Text)]
    /\ astray \subseteq Clients /\ uneven \subseteq Clients
    /\ closed \subseteq Clients
    /\ up \in [Clients -> Seq(Requests)]
    /\ down \in [Clients -> Seq(Replies)]
    /\ backlog \in Seq(Clients)
    /\ \A n \in Names : files[n] = NoFile \/ files[n] \in Seq(Text)
    /\ serving \in Clients \cup {NoClient}
    /\ at \in {"command", "size", "data"}
    /\ begun \in BOOLEAN /\ dropped \in BOOLEAN
    /\ out \in Seq(Replies)
    /\ filename \in Names \cup {NoFile}
    /\ left \in Nat /\ (left > 0 <=> at = "data")
    /\ alive \in BOOLEAN

Init ==
    /\ pc = [c \in Clients |-> "start"]
    /\ entered = [c \in Clients |-> 0]
    /\ arg = [c \in Clients |-> NoFile]
    /\ local \in [Clients -> [Names -> Contents \cup {NoFile}]]
    /\ copy = [c \in Clients |-> <<>>]
    /\ todo = [c \in Clients |-> <<>>]
    /\ astray = {} /\ uneven = {} /\ closed = {}
    /\ up = [c \in Clients |-> <<>>]
    /\ down = [c \in Clients |-> <<>>]
    /\ backlog = <<>>
    /\ files \in [Names -> Contents \cup {NoFile}]
    /\ serving = NoClient /\ at = "command" /\ out = <<>>
    /\ filename = NoFile /\ left = 0
    /\ begun = FALSE /\ dropped = FALSE
    /\ alive = TRUE

-----------------------------------------------------------------------------
(* The client.                                                             *)

(* recv_line() in the client.                                              *)
Receive(c, l) ==
    \/ /\ down[c] # <<>> /\ l = Head(down[c])
       /\ down' = [down EXCEPT ![c] = Tail(@)]
    \/ /\ down[c] = <<>> /\ c \in closed
       /\ l = Nothing
       /\ UNCHANGED down

(* send() in the client; it is lost on a connection the server closed.     *)
Send(c, r) ==
    \/ c \in closed /\ UNCHANGED up
    \/ /\ c \notin closed /\ Len(up[c]) < Room
       /\ up' = [up EXCEPT ![c] = Append(@, r)]

Goto(c, from, to) ==
    /\ pc[c] = from
    /\ pc' = [pc EXCEPT ![c] = to]

Connect(c) ==
    /\ Goto(c, "start", "prompt")
    /\ backlog' = Append(backlog, c)
    /\ UNCHANGED <<entered, arg, local, copy, todo, astray, uneven, up, down, closed,
                   serverVars>>

Prompt(c) ==
    /\ \E l \in Replies : Receive(c, l) /\
        Goto(c, "prompt", IF l = Nothing THEN "gone" ELSE "input")
    /\ UNCHANGED <<entered, arg, local, copy, todo, astray, uneven, up, backlog,
                   closed, serverVars>>

(* The user enters a command and the client goes to its receive.           *)
Enter(c, to) ==
    /\ Goto(c, "input", to)
    /\ entered[c] < MaxCommands
    /\ entered' = [entered EXCEPT ![c] = @ + 1]
    /\ UNCHANGED <<local, todo, uneven, down, backlog, closed, serverVars>>

Quit(c) ==
    /\ Enter(c, "gone")
    /\ Send(c, <<"quit", "quit">>)
    /\ UNCHANGED <<arg, copy, astray>>

List(c) ==
    /\ Enter(c, "list")
    /\ Send(c, <<"list", "list">>)
    /\ UNCHANGED <<arg, copy, astray>>

(* The local file is opened after the command is sent; when that fails,    *)
(* the reply stays unread.                                                 *)
Get(c) ==
    \E n \in Names :
        /\ Send(c, <<"get", n>>)
        /\ arg' = [arg EXCEPT ![c] = n]
        /\ \/ /\ Enter(c, "get")
              /\ copy' = [copy EXCEPT ![c] = <<>>]
              /\ UNCHANGED astray
           \/ /\ Enter(c, "prompt")
              /\ astray' = astray \cup {c}
              /\ UNCHANGED copy

(* Nothing is sent when there is no such local file, but the client goes   *)
(* back to wait for a prompt all the same.                                 *)
Load(c) ==
    \E n \in Names :
        /\ arg' = [arg EXCEPT ![c] = n]
        /\ \/ /\ local[c][n] = NoFile
              /\ Enter(c, "prompt")
              /\ UNCHANGED up
           \/ /\ local[c][n] # NoFile
              /\ Enter(c, "ready")
              /\ Send(c, <<"load", n>>)
        /\ UNCHANGED <<copy, astray>>

(* Mutation variant: the reply to a command it does not know is not read.  *)
TalkUnread(c) ==
    /\ Enter(c, "prompt")
    /\ \E t \in {Other, Nothing} : Send(c, <<"text", t>>)
    /\ UNCHANGED <<arg, copy, astray>>

(* Any other line, the empty one too.                                      *)
Talk(c) ==
    /\ Enter(c, "answer")
    /\ \E t \in {Other, Nothing} : Send(c, <<"text", t>>)
    /\ UNCHANGED <<arg, copy, astray>>

Listing(c) ==
    /\ \E l \in Replies : Receive(c, l) /\
        Goto(c, "list", IF l \in {Nothing, "END"} THEN "prompt" ELSE "list")
    /\ UNCHANGED <<entered, arg, local, copy, todo, astray, uneven, up, backlog,
                   closed, serverVars>>

(* Mutation variant: START is written to the file.                         *)
DownloadingAll(c) ==
    /\ \E l \in Replies :
        /\ Receive(c, l)
        /\ Goto(c, "get", IF l \in {Nothing, "END"} THEN "prompt" ELSE "get")
        /\ copy' = IF l \in {Nothing, "END"} THEN copy
                   ELSE [copy EXCEPT ![c] = Append(@, l)]
    /\ UNCHANGED <<entered, arg, local, todo, astray, uneven, up, backlog, closed,
                   serverVars>>

Downloading(c) ==
    /\ \E l \in Replies :
        /\ Receive(c, l)
        /\ Goto(c, "get", IF l \in {Nothing, "END"} THEN "prompt" ELSE "get")
        /\ copy' = IF l \in {Nothing, "START", "END"} THEN copy
                   ELSE [copy EXCEPT ![c] = Append(@, l)]
    /\ UNCHANGED <<entered, arg, local, todo, astray, uneven, up, backlog, closed,
                   serverVars>>

(* What the reads of a file return that was data when it was measured: all *)
(* of it, less when fread() fails (a directory) or the file has shrunk, or *)
(* more when it has grown.                                                 *)
Reads(data) ==
    {SubSeq(data, 1, k) : k \in 0 .. Len(data)} \cup {data \o g : g \in Contents}

(* The size is sent, and the reads begin.                                  *)
Measure(c) ==
    \E data \in {local[c][arg[c]]} : \E read \in Reads(data) :
        /\ Send(c, <<"size", Len(data)>>)
        /\ todo' = [todo EXCEPT ![c] = read]
        /\ Goto(c, "ready", IF read = <<>> THEN "answer" ELSE "send")
        /\ uneven' = IF Len(read) = Len(data) THEN uneven
                     ELSE uneven \cup {c}
        /\ astray' = IF Len(read) > Len(data) THEN astray \cup {c}
                     ELSE astray

(* The answer to load: READY, after which the size is sent unless the file *)
(* cannot be measured, or anything else, or a closed connection.           *)
Ready(c) ==
    /\ \E l \in Replies :
        /\ Receive(c, l)
        /\ \/ /\ l = Nothing
              /\ Goto(c, "ready", "gone")
              /\ UNCHANGED <<up, todo, astray, uneven>>
           \/ /\ l # Nothing
              /\ Goto(c, "ready", "prompt")
              /\ UNCHANGED <<up, todo, astray, uneven>>
           \/ l = "READY" /\ Measure(c)
    /\ UNCHANGED <<entered, arg, local, copy, backlog, closed, serverVars>>

Uploading(c) ==
    /\ Goto(c, "send", IF Len(todo[c]) = 1 THEN "answer" ELSE "send")
    /\ Send(c, <<"text", Head(todo[c])>>)
    /\ todo' = [todo EXCEPT ![c] = Tail(@)]
    /\ UNCHANGED <<entered, arg, local, copy, astray, uneven, down, backlog, closed,
                   serverVars>>

Answer(c) ==
    /\ Goto(c, "answer", "prompt")
    /\ \E l \in Replies : Receive(c, l)
    /\ UNCHANGED <<entered, arg, local, copy, todo, astray, uneven, up, backlog,
                   closed, serverVars>>

(* A kill at any time, or no more input at the prompt.                     *)
Leave(c) ==
    /\ pc[c] \notin {"start", "gone"}
    /\ pc' = [pc EXCEPT ![c] = "gone"]
    /\ UNCHANGED <<entered, arg, local, copy, todo, astray, uneven, wireVars,
                   serverVars>>

-----------------------------------------------------------------------------
(* The server.                                                             *)

Accept ==
    /\ serving = NoClient /\ backlog # <<>>
    /\ serving' = Head(backlog)
    /\ backlog' = Tail(backlog)
    /\ at' = "command"
    /\ begun' = FALSE
    /\ out' = <<"COMMANDS">>
    /\ UNCHANGED <<userVars, astray, uneven, up, down, closed, files, filename,
                   left, dropped, alive>>

(* One send_line(): it blocks while the socket is full, and raises SIGPIPE *)
(* once the client is known to be gone.                                    *)
SendLine ==
    /\ serving # NoClient /\ out # <<>>
    /\ out' = Tail(out)
    /\ \/ /\ pc[serving] = "gone"
          /\ alive' \in BOOLEAN
          /\ UNCHANGED down
       \/ /\ pc[serving] # "gone" /\ Len(down[serving]) < Room
          /\ down' = [down EXCEPT ![serving] = Append(@, Head(out))]
          /\ UNCHANGED alive
    /\ UNCHANGED <<userVars, astray, uneven, up, backlog, closed, files, serving,
                   at, begun, filename, left, dropped>>

(* The server receives next, and r is what comes.                          *)
Arrives(r) ==
    /\ serving # NoClient /\ out = <<>>
    /\ up[serving] # <<>> /\ r = Head(up[serving])
    /\ up' = [up EXCEPT ![serving] = Tail(@)]

(* The server receives next, but the connection has ended.                 *)
Ended ==
    /\ serving # NoClient /\ out = <<>>
    /\ up[serving] = <<>> /\ pc[serving] = "gone"
    /\ UNCHANGED up

receiverVars == <<userVars, uneven, down, backlog, alive>>

(* recv_line() in the server reads to a newline: what ends in none is the  *)
(* beginning of the next line, which is then neither empty nor a command.  *)
Unterminated(r) == r[1] = "text" /\ r[2] \in Open

BeginLine ==
    /\ at \in {"command", "size"}
    /\ \E r \in Requests : Arrives(r) /\ Unterminated(r)
    /\ begun' = TRUE
    /\ UNCHANGED <<receiverVars, astray, closed, files, serving, at, out,
                   filename, left, dropped>>

Request(r) ==
    /\ \/ /\ ~begun /\ ~Unterminated(r)
          /\ Arrives(r)
       \/ /\ begun /\ r = <<"text", Other>>
          /\ \E end \in Requests : Arrives(end) /\ ~Unterminated(end)
       \/ /\ r = <<"text", Nothing>>
          /\ Ended
    /\ begun' = FALSE
    /\ UNCHANGED receiverVars

Command(r) == at = "command" /\ Request(r)

Reply(lines) == out' = lines /\ UNCHANGED <<serving, closed>>

Present == {n \in Names : files[n] # NoFile}

(* Mutation variant: the list does not end with END.                       *)
CmdListOpen ==
    /\ Command(<<"list", "list">>)
    /\ \/ /\ Reply(<<"Failed to open directory", "COMMANDS">>)
          /\ astray' = astray \cup {serving}
       \/ /\ astray' = IF "END" \in Present THEN astray \cup {serving}
                       ELSE astray
          /\ \E s \in SetToSeqs(Present) :
                Reply(<<"Files:">> \o s \o <<"COMMANDS">>)
    /\ UNCHANGED <<files, at, filename, left, dropped>>

(* cmd_list(): readdir() gives the names in any order; one that looks like *)
(* the end of the list is taken for it.                                    *)
CmdList ==
    /\ Command(<<"list", "list">>)
    /\ \/ /\ Reply(<<"Failed to open directory", "COMMANDS">>)
          /\ astray' = astray \cup {serving}
       \/ /\ astray' = IF "END" \in Present THEN astray \cup {serving}
                       ELSE astray
          /\ \E s \in SetToSeqs(Present) :
                Reply(<<"Files:">> \o s \o <<"END", "COMMANDS">>)
    /\ UNCHANGED <<files, at, filename, left, dropped>>

(* A file as cmd_get() sends it: each piece cut at a NUL or at its newline,*)
(* and a newline after each.  (Only an uneven client that lost step can    *)
(* leave a piece without newline in the midst of a file; it stands for a   *)
(* line of its own there.)                                                 *)
Lines(f) == [k \in 1 .. Len(f) |-> Line[f[k]]]

(* cmd_get().                                                              *)
CmdGet ==
    \E n \in Names :
        /\ Command(<<"get", n>>)
        /\ \/ /\ files[n] = NoFile
              /\ Reply(<<"File not found", "COMMANDS">>)
              /\ UNCHANGED astray
           \/ /\ files[n] # NoFile
              /\ Reply(<<"START">> \o Lines(files[n]) \o <<"END", "COMMANDS">>)
              /\ astray' =
                    IF ToSet(Lines(files[n])) \cap {Nothing, "START", "END"} = {}
                    THEN astray ELSE astray \cup {serving}
        /\ UNCHANGED <<files, at, filename, left, dropped>>

(* Mutation variant: fopen(filepath, "ab").                                *)
CmdLoadAppend ==
    \E n \in Names :
        /\ Command(<<"load", n>>)
        /\ \/ /\ Reply(<<"FAILED", "COMMANDS">>)
              /\ UNCHANGED <<files, at, filename, dropped>>
           \/ /\ files' = [files EXCEPT ![n] = IF @ = NoFile THEN <<>> ELSE @]
              /\ filename' = n
              /\ at' = "size"
              /\ dropped' = FALSE
              /\ Reply(<<"READY">>)
        /\ UNCHANGED <<astray, left>>

(* cmd_uplode() up to its first receive: the file is truncated.            *)
CmdLoad ==
    \E n \in Names :
        /\ Command(<<"load", n>>)
        /\ \/ /\ Reply(<<"FAILED", "COMMANDS">>)
              /\ UNCHANGED <<files, at, filename, dropped>>
           \/ /\ files' = [files EXCEPT ![n] = <<>>]
              /\ filename' = n
              /\ at' = "size"
              /\ dropped' = FALSE
              /\ Reply(<<"READY">>)
        /\ UNCHANGED <<astray, left>>

(* The size; atol() of anything that is not a number is 0.                 *)
RecvSize ==
    /\ at = "size"
    /\ \E r \in Requests :
        /\ Request(r)
        /\ \/ /\ r = <<"text", Nothing>>
              /\ at' = "command"
              /\ Reply(<<"COMMANDS">>)
              /\ UNCHANGED left
           \/ /\ r # <<"text", Nothing>> /\ (r[1] = "size" => r[2] = 0)
              /\ at' = "command"
              /\ Reply(<<"FAILED", "COMMANDS">>)
              /\ UNCHANGED left
           \/ /\ r[1] = "size" /\ r[2] > 0
              /\ at' = "data"
              /\ left' = r[2]
              /\ Reply(<<>>)
    /\ UNCHANGED <<astray, files, filename, dropped>>

(* Data as it is stored; what was sent as something else is a text, too.   *)
Stored(r) == IF r[1] = "text" THEN r[2] ELSE Other

(* Mutation variant: <= for < in the loop's condition.                     *)
RecvDataLong ==
    /\ at = "data"
    /\ \E r \in Requests :
        /\ Arrives(r)
        /\ files' = [files EXCEPT ![filename] = Append(@, Stored(r))]
    /\ left' = left - 1
    /\ at' = IF left = 0 THEN "command" ELSE "data"
    /\ Reply(IF left = 0 THEN <<"UPLOAD DONE", "COMMANDS">> ELSE <<>>)
    /\ UNCHANGED <<receiverVars, astray, begun, filename, dropped>>

(* One recv() of the data and fwrite(), which may fail and is not checked. *)
RecvData ==
    /\ at = "data"
    /\ \E r \in Requests :
        /\ Arrives(r)
        /\ \/ /\ files' = [files EXCEPT ![filename] = Append(@, Stored(r))]
              /\ UNCHANGED dropped
           \/ /\ dropped' = TRUE
              /\ UNCHANGED files
    /\ left' = left - 1
    /\ at' = IF left = 1 THEN "command" ELSE "data"
    /\ Reply(IF left = 1 THEN <<"UPLOAD DONE", "COMMANDS">> ELSE <<>>)
    /\ UNCHANGED <<receiverVars, astray, begun, filename>>

(* The connection ends in the midst of the data.                           *)
UploadFails ==
    /\ at = "data" /\ Ended
    /\ at' = "command" /\ left' = 0
    /\ Reply(<<"COMMANDS">>)
    /\ UNCHANGED <<receiverVars, astray, begun, files, filename, dropped>>

(* Mutation variant: no command list after an unknown command.             *)
UnknownBare ==
    /\ \E r \in Requests :
        /\ Command(r)
        /\ r[1] = "size" \/ (r[1] = "text" /\ r[2] # Nothing)
    /\ Reply(<<"Unknown command">>)
    /\ UNCHANGED <<astray, files, at, filename, left, dropped>>

Unknown ==
    /\ \E r \in Requests :
        /\ Command(r)
        /\ r[1] = "size" \/ (r[1] = "text" /\ r[2] # Nothing)
    /\ Reply(<<"Unknown command", "COMMANDS">>)
    /\ UNCHANGED <<astray, files, at, filename, left, dropped>>

(* quit, an empty line or the end of the connection.                       *)
HangUp ==
    /\ \E r \in {<<"quit", "quit">>, <<"text", Nothing>>} : Command(r)
    /\ serving' = NoClient
    /\ closed' = closed \cup {serving}
    /\ UNCHANGED <<astray, files, at, out, filename, left, dropped>>

-----------------------------------------------------------------------------
Server ==
    alive /\ (Accept \/ SendLine \/ BeginLine \/ CmdList \/ CmdGet \/ CmdLoad
              \/ RecvSize \/ RecvData \/ UploadFails \/ Unknown \/ HangUp)

Client(c) ==
    alive /\ (Prompt(c) \/ Listing(c) \/ Downloading(c) \/ Ready(c)
              \/ Uploading(c) \/ Answer(c))

User(c) ==
    alive /\ (Connect(c) \/ Quit(c) \/ List(c) \/ Get(c) \/ Load(c)
              \/ Talk(c) \/ Leave(c))

Next == Server \/ \E c \in Clients : Client(c) \/ User(c)

SafeSpec == Init /\ [][Next]_vars

(* Both programs run; a user need not enter anything or leave.             *)
Spec == SafeSpec /\ WF_vars(Server) /\ \A c \in Clients : WF_vars(Client(c))

-----------------------------------------------------------------------------
(* Iserver.c:122-178 with Iclient.c:79-155: an upload the server is about  *)
(* to call done is the whole of the client's file as it was measured, also *)
(* after the two have lost step, when data may reach the server as         *)
(* commands and commands as a size; but for an fwrite() that failed, and a *)
(* client that once sent less or more data than it announced.              *)
UploadStored ==
    out = <<"UPLOAD DONE", "COMMANDS">> /\ ~dropped /\ serving \notin uneven =>
        files[filename] = local[serving][filename]

(* Iclient.c:19, Iserver.c:57: at the prompt nothing is under way, so the  *)
(* next reply is that to the next command.                                 *)
Lockstep ==
    \A c \in Clients \ astray : pc[c] = "input" =>
        /\ serving = c /\ at = "command"
        /\ out = <<>> /\ up[c] = <<>> /\ down[c] = <<>>

(* Iclient.c:61-77, Iserver.c:100-120: once the client has its prompt back *)
(* after get, the copy has the lines of the server's file, all and in      *)
(* order, each up to a NUL and with a newline behind it, also the last if  *)
(* the file has none there.                                                *)
DownloadExact ==
    \A c \in Clients \ astray :
        pc[c] = "get" /\ down[c] # <<>> /\ Head(down[c]) = "END" =>
            copy[c] = Lines(files[arg[c]])

(* Each end of the connection waits for the other, to receive or to send.  *)
Hung(c) ==
    /\ serving = c
    /\ IF out = <<>> THEN up[c] = <<>> ELSE Len(down[c]) = Room
    /\ \/ pc[c] \in {"prompt", "list", "get", "ready", "answer"} /\ down[c] = <<>>
       \/ pc[c] = "send" /\ Len(up[c]) = Room

(* The ways to a deadlock with a client that is not astray: get of a file  *)
(* the server does not have, whose reply has no END; load of a file the    *)
(* client does not have, for which no command is sent; load of one it      *)
(* cannot measure, for which no size is sent; and load of one of which     *)
(* less is read than was measured (Iclient.c:138), when the client waits   *)
(* for the answer and the server for the rest.                             *)
Unanswered(c) ==
    \/ pc[c] = "get" /\ files[arg[c]] = NoFile
    \/ pc[c] = "prompt" /\ arg[c] # NoFile /\ local[c][arg[c]] = NoFile
    \/ pc[c] = "prompt" /\ at = "size"
    \/ pc[c] = "answer" /\ at = "data" /\ c \in uneven

(* Iserver.c:57-77: there is no other deadlock of client and server.       *)
HangsKnown == \A c \in Clients \ astray : Hung(c) => Unanswered(c)

(* Iserver.c:57-77, Iclient.c:18-166: the client being served gets its     *)
(* prompt back, but for the known deadlocks.                               *)
Prompted ==
    \A c \in Clients :
        serving = c /\ pc[c] # "gone" ~>
            \/ pc[c] \in {"input", "gone"} \/ ~alive
            \/ c \in astray \/ Unanswered(c)
=============================================================================
