# Game-Network: specifications, model checking and proofs

The repository is a course on network programming: each week is a directory
with small servers and clients in C, Rust and C#. They are real concurrent
programs: an epoll loop, an I/O completion port, threads around a mutex, a
line protocol over TCP. This project models those whose behaviour depends on
who runs when, checks them with TLC, and proves the game servers, the chats and
the file server correct for every number of clients, descriptors and seats and
for all files with TLAPS.

Contents: 1 inventory, 2 modules and how they follow the code, 3 runs,
4 fairness, 5 proofs, 6 what is only checked and what is left out, 7 plan.

## 1. Inventory

### Week 13: a game server in five versions

A client (`client.c`, `client.cs`) connects by TCP, sends a *Login*, takes the
first packet that comes back as the answer and keeps its `player_id`, starts a
thread that prints what arrives, then sends one *Move* by UDP and one *Attack*,
*Item* and *Logout* by TCP. A server keeps a table of `MAX_PLAYERS` seats.

| part | state | operations | hard behaviour |
|---|---|---|---|
| `lserver.c` | `players[]`, descriptors, events of one `epoll_wait` | accept, datagram, packet (login, logout, relay), disconnect | stale events, descriptor reuse, late datagrams, full table, SIGPIPE |
| `wserver.c` | the same table, one `IOContext` per connection, completion port | accept thread, worker thread, posting of receives | a receive that fails at once and unnoticed, contexts freed under way, socket reuse |
| `server.rs` | `Vec<Player>` behind a `Mutex`, `my_id` of each thread | thread per connection, UDP thread | what other threads do between two critical sections |
| `server.cs` | `players` behind `stateLock`, `myId` of each task | tasks with `await` | the same, with concurrent writes to one stream |
| `client.c`, `client.cs` | `my_id`, the two sockets | the fixed sequence above | which packet comes first |

Correct means: the id a client plays under is that of a seat the server keeps
for it; a seat belongs to one live connection at most; nobody is evicted; the
seat of a client that left or died comes back; a Move reaches the table and is
never left on the seat of one player by another who still plays; a login is
answered.

### Week 7: multithreaded chat (`server.c`, `client.c`)

State: `client_socks[]` and `client_count` behind a mutex, one thread per
connection. `main()` registers a connection, then starts its thread, and takes
the registration back when that fails. A thread reads, broadcasts under the
mutex, unregisters, closes. A client has a sending and a receiving thread.
Correct means: the table lists each open registered connection once; all
clients see the same messages in the same order, although a broadcast is a
series of writes that may block; a slow reader delays but does not stop the
others. `thread.c` is a separate exercise.

### Week 11: event-driven chat (`epoll_server.c`, `epoll_client.c`)

State: `client_sockets[]`, the events of one wait, the current broadcast. The
client is single-threaded too. Neither the result of `accept()` nor the size
of the array is checked. Correct means the same as in week 7, except
that an author does not hear itself. The drafts with `select()`
(`select_*_P.c`, `s_*_p2.c`) are incomplete.

### Week 5: file server (`Iserver.c`, `Iclient.c`, `Icommon.h`)

An iterative server with the commands `list`, `get`, `load` and `quit`, framed
by lines; uploads are raw data after an announced size. State: the directory
`Files`, the command being executed, the lines and data in the sockets, where
the client's `main()` is. Correct means: the two sides keep step, a finished
upload is the whole file, a download has every line of the file, and the user
gets the prompt back.

### The smaller programs

| part | content | hard behaviour |
|---|---|---|
| week 2, 3, `_Prac` | TCP echo in C and Rust; `TIME` and `NAME` commands | `recv()` cuts and merges messages; -1 taken for a length; the end of the input |
| week 9 | UDP echo for Linux, Windows and in Rust | loss, copies, order; a port that is gone |
| week 6 | a drawing message as a struct or as `key=value` lines | partial reads, an `END` that is looked for before parsing |
| week 4, 10, `rust_test`, week 7 `thread.c` | name lookup, byte order, socket options, first steps | none: straight-line calls |

Correct means: the bytes that come back are the bytes sent; an answer belongs
to the question before it; a message is shown as it was sent or not at all;
nobody waits for an answer that will not come.

`PROJECT.json` lists every part with its files under `components`, and under
`hazards` each place in the code where something can go wrong that a test
would hardly reach, with the properties that watch it.

### How the parts interact

Programs of different weeks never meet. Inside a week, clients and server
share TCP connections (two FIFO streams), the listening queue, and in week 13
UDP datagrams. Threads of one process share the table and its lock. The kernel
contributes: descriptors are reused after `close()`, a killed process closes
its sockets, a full socket blocks the writer, a write to a closed peer may
raise SIGPIPE.

## 2. Modules

```
GameClient --- GameTable --- LServer --- LServerProof        PlayerRegistry
          \              \-- WServer --- WServerProof         (abstract)
           \-- LockTable --- RServer                          ^ refined by
                          \- CsServer                         | all four servers
ChatRoom (abstract) <- refined by - ChatServer, EpollChat
FileTransfer
LineClient --- TcpEcho, CommandServer -\
                       Drawing, UdpEcho --- Exercises --- ExercisesProof
```

Proof modules: `LServerProof` and `WServerProof` on `GameLemmas`,
`MonitorProof` on `MCMonitor`, `ChatServerProof`, `EpollChatProof`,
`FileTransferProof` and `ExercisesProof`.

MC modules hold symmetry and inputs for TLC. Four modules compose:
**MCGameTable** runs `LServer` and `WServer`, **MCMonitor** `RServer` and
`CsServer`, **MCGameLiveness** `LServer`, `RServer` and `CsServer`,
**Exercises** the programs of weeks 2, 3, 6 and 9 (`MCExercises` has the lines
that are typed in its run).
A behaviour there is one of the programs, picked in the initial state; a
variable the program does not have keeps its value. So one run asks the same
question of programs that answer it alike.

**GameClient** is one run of `client.c` per element of `Clients`: `phase` is
the place in `main()`, each send and the one receive is an action, and
`KillClient` may strike at any time after the connect. The stream from the
server is reduced to `reply`, the first packet the client has not yet taken
for its login response; `recv_loop` only prints the rest. The streams to the
server (`tcp`), the datagrams (`udp`, a set: any order, any delay) and the
listening queue (`backlog`) live here because all servers share them.

**GameTable** is the table and the handlers `lserver.c` and `wserver.c` have
in common, line for line: `alloc_player` (`Allocated`), `free_player`
(`FreePlayer`, first slot that holds the descriptor), `broadcast_tcp`
(`BroadcastFds`, `Send`), `on_tcp` (`OnLogin`, `OnLogout`, `OnRelay`) and
`on_udp`. A login writes the response and then broadcasts it; both are one
`Send`, since no other step of the single table-owning thread lies between.
`alive` becomes FALSE when a send to a closed peer raises SIGPIPE. The module
also states the properties common to the two servers.

**LServer** adds the loop of `main()`: `EpollWait` fills `batch`, and each
event in it is handled by exactly one of `Accept`, `RecvUdp`, `RecvTcp`,
`HangUp`. A datagram may be missed by any number of waits (delay or loss).

**WServer** adds the completion port: `posted` are the contexts with a receive
the kernel has not completed, `port` the queue of completions, in order.
`CompleteTcp` and `CompleteUdp` are the kernel; `HandlePacket`, `HandleClose`
and `HandleUdp` are the turns of `worker_thread`; `Accept` is a turn of
`main()`. `WSARecv` on a reset connection and `WSARecvFrom` after an
unreachable datagram may fail at once, and then no completion ever comes.
Winsock has no SIGPIPE, so `alive` stays TRUE.

**LockTable** is what `server.rs` and `server.cs` have in common: one action
per critical section of the table's lock, with the thread-local work before
it. A login is `TakeSeat` (read and `alloc_player`), `Respond` (write, no
lock), `Announce` (`broadcast_tcp`); a logout is `FreeNamed` and `Farewell`.
**RServer** and **CsServer** put them together with what is different. In Rust
`my_id` is set with the seat, a failed write is ignored, and an unread packet
is read before the end of the stream. In C# `OnTcp` returns the id only after
its broadcast (`ReturnId`), the write of the response may throw and end the
task with the seat still taken (`WriteResponse`, thread state `"failed"`), a
reset discards what is unread, and the UDP task ends for good when a
`ReceiveAsync` throws after a datagram that found no port (`UdpThrows`).
`InOrder` restricts a server to steps in which no broadcast overtakes a
pending response. The condition is not part of the code; it separates the race
(run `monitor_race`) from everything else the two servers do.

**PlayerRegistry** is what all servers promise: seats are given, kept and taken
back. `LServer`, `WServer`, `RServer` and `CsServer` are shown to refine it, with `owner`
mapped to the client at the other end of an active seat's descriptor and
`leaving` to the clients that sent *Logout* or are gone.

**ChatServer** has `main()` as the sequence accept, register, spawn, undo and
each connection's thread as read, lock, send, remove, close. Only the loop of
`send_msg` is split into its writes, because only they block while the mutex
is held. **EpollChat** is the event loop of week 11 with the same split; when
all descriptors are in use `accept()` fails, its -1 becomes an entry of the
array, and the connection stays in the queue to be tried again at once. An
entry more than the array has is written outside it, where the model stops
(`server = "overrun"`).
**ChatRoom** is the abstract room: a message reaches all members at one
instant. The refinement mapping gives each member what it has printed, what is
in its socket, and the message of the broadcast that has not reached it yet.
The operator constant `Hears` says whether an author hears itself.

**FileTransfer** has one action per receive and per send of both programs. A
file is a sequence of pieces, each what one `fgets()` returns; the unit of an
upload's size is a piece instead of a byte. `Open` are the pieces without a
newline, which a file can only end in, and `Line` gives the line that
`Iserver.c` sends for a piece: up to a NUL, a newline behind it in any case. So
a download of `Files/Hello.txt`, 11 bytes without a last newline, has 12, as
the repository's `downloaded_Hello.txt` has. `recv_line()` returns 0 for an
empty line and -1 at the end of the connection, and all callers test `> 0` or
`<= 0`: both are received as the empty line. The announced size is what
`ftell()` said, and the data what `fread()` finds: `Uploading` may end before
the size (the file has shrunk, or is a directory, or a read fails) or, with
the last block, past it (the file has grown). `fwrite()` in the server may
fail, which the code does not look at. Three history variables record what the
programs do not know: `astray`, clients that lost step with the server in one
of the ways the code allows (see 3), about which the properties of the
undisturbed protocol say nothing; `uneven`, clients that sent less or more than
they announced; `dropped`, that a write of the last upload failed.

**LineClient** is the client that weeks 2 and 3 share in five variants
(`program`), and its connection: type a line, write it, one `read()`, print.
It also has the turn of the servers, `Serve`. **TcpEcho** and
**CommandServer** add what is answered. Streams are sequences of bytes, or of
half commands where only the place of a cut matters; `cut` says whether reads
may return less than has arrived. `buf[n] = 0` outside `buf` (n = -1, or n =
the buffer's size) sets `overrun` and stops the model. In C a line is at most
what `fgets()` returns, in Rust `read_line()` has no bound. `Garbage` is what
the buffer of `week2/client.c` may hold if the input ends before the first
answer. Server and client may be killed at any time (`KillServer`,
`KillClient`).

**Drawing** has the message of week 6 byte by byte, in host and in network
order: one `read()` into the struct in C, `read_exact()` in Rust, and the text
variant chunk by chunk with `END` looked for first, as `var_server.c` does. A
text line is its key and two pieces of its value, so that every kind of cut
exists; `ends` records where the reads ended, the reference to compare with.

**UdpEcho** has the three programs of week 9 over a network that loses, copies
and reorders datagrams and, but for the Linux sockets, reports a missing port
to the sender's next `recvfrom()`. `Long` are the questions longer than the
server's buffer, which Windows does not cut but reports as an error.

## 3. Runs

All model-checked properties hold for the small instances named here; each
property has a mutant in `PROJECT.json` that breaks it.

| run | instance | what it shows |
|---|---|---|
| `game_table` | epoll: 3 clients, 3 descriptors, 2 seats, queue of 2; completion port: 2 of the clients | types; `SeatsMatchConnections`, `IdAgreement`, `PositionsKeptApart`; refinement of `PlayerRegistry`; `EventsStayReady` and `MovesKept` (epoll), `ReceiveOutstanding` (completion port) |
| `lserver_full` | 2 clients, 2 descriptors, 1 seat | **violation**: a login that meets a full table is never answered |
| `monitor_ordered` | 3 clients, 2 seats, Rust and C# | in order: `AssignedId`, `SeatsBelongToThreads`, refinement of `PlayerRegistry` |
| `monitor_race` | 2 clients, 2 seats, Rust and C# | **violation**: a broadcast between `alloc_player` and the response gives a client another player's id |
| `game_liveness` | epoll: 3 clients, 1 descriptor, 1 seat; Rust and C#: 2 clients, 2 seats, in order | `LoginsAnswered` (epoll), `SeatsComeBack` (all three) |
| `chat_safety` | 3 clients, 3 descriptors, table of 2, sockets of 1, 1 message each | `TableConsistent`; `send_msg` is an atomic broadcast (refinement of `ChatRoom`) |
| `chat_liveness` | 2 clients, 2 descriptors, 2 messages each | what is sent on a served connection is printed by everyone who stays |
| `epoll_chat` | 4 clients, 3 descriptors, array of 4, 2 messages | `ArrayMatchesSockets`, also with -1 between the entries; each message is an atomic broadcast to all but its author |
| `epoll_jam` | 2 clients, 4 messages | **violation**: server and client block in writes to each other |
| `file_transfer` | 1 client, 3 commands, sockets of 2 lines, 4 contents: empty; with a NUL and no last newline; with an empty line; with `END` | `UploadStored`, `Lockstep`, `DownloadExact`, `HangsKnown`, `Prompted` |
| `exercises` | 1 connection with 3 lines and a buffer of 3, one line longer than it; 3 members of 2 bytes; 2 UDP clients with 2 questions, one too long for the server, 1 loss, 1 copy | the nine properties of weeks 2, 3, 6 and 9, see below |
| `exercises_text` | the same | **violation**: a text message that came in one piece is not parsed |

### What the violations mean

* `lserver_full`: `on_tcp` returns without a word when `alloc_player` fails
  (`lserver.c:138`); the connection stays open and `client.c:51` waits for
  good. With no more descriptors than seats (`game_liveness`) the property
  holds, so the full table is the only cause.
* `monitor_race`: the seat is taken under the lock but the response is written
  after it is dropped (`server.rs:153-156`, `server.cs:144-148`).
* `epoll_jam`: `write()` in `epoll_server.c:61` and `epoll_client.c:36` block,
  and a blocked program reads nothing. In week 7, where the client receives in
  a thread of its own, the same property holds (`chat_liveness`).
* `exercises_text`: `var_server.c` looks for `END` before it parses, and leaves
  its loop; the comment at 52-53 and the output at 66 speak of a parsed
  message. `var_client.c` sends the whole message with one call, so on one
  host this is the normal case.

### The deadlocks of week 5

`HangsKnown` says exactly when client and server of week 5 wait for each other
although they never lost step. There are four ways: after `get` of a file the
server does not have (the reply has no `END`); after `load` of a file the
client does not have (no command is sent, but a prompt is awaited); when the
file cannot be measured after `READY`; and when `fread()` (`Iclient.c:138`)
ends before the announced size, so that the client waits for the answer and
the server for the rest. The last is what `load` of a directory does, which
`fopen()` opens for reading and `fread()` does not read.

`astray` covers the rest: `get` whose local file cannot be opened, a directory
that cannot be read, a file whose name is taken for the end of the list, file
contents with an empty line, `START` or `END`, and more data than was
announced, the surplus of which the server takes for commands. Even a client
that is astray never gets an "UPLOAD DONE" for a file that is not its own,
unless its data did not come to its size or a write failed (`UploadStored`):
`Iserver.c:166` drops the result of `fwrite()`, and 176-177 report the upload
as complete whatever it was.

### Losses the code has, and the properties name

A property that holds says under which condition; these are the conditions.

* `SeatsComeBack`: a SIGPIPE that ends the epoll server; a C# task whose
  response could not be written (`server.cs:148`), whose seat is lost for good.
* `PositionsKeptApart`: a Move that comes late overwrites the position and the
  address of whoever has the seat by then (`lserver.c:170`, `wserver.c:183`).
  The property says that this is the only way: its sender has left the game.
  `MovesKept` adds that a player whose Move is no longer on its way has one.
* `EchoIntegrity` holds through every cut and every end of the input.
  `InStep` (the k-th answer belongs to the k-th line) holds because a client
  has one line on its way; it needs that no read is cut, that the server is
  not killed, and that no line is longer than a buffer, which only the Rust
  clients can send. `TerminatorInside` holds for the same reason and fails in
  four ways: a read is cut; the server is killed; `week2/client.c` sends an
  uninitialised buffer that fills the server's; or it is killed while it
  waits for its answer, and the server's `read()` returns -1.
* `FixedExact`: with one `read()` a cut leaves members with bytes nobody sent.
* `LinesKept`: `var_server.c` keeps a line that came whole in a read that did
  not also bring `END`; a line that is cut is taken in part or not at all.
* `AnswersQuestion`: copies of a datagram make answers lag behind for good.
  `ServerOutlives`: the servers but that for Linux end in two ways: a client
  leaves before its echo, or sends a datagram longer than the buffer, which
  on Windows `recvfrom()` reports as an error.
* `NobodyWaits`: a Rust client at the end of its input waits for the answer to
  nothing, `week3_Prac/server.c` is silent on an unknown command, and no UDP
  program times out.

### Bounds

* `Clients`, `Fds`, `MaxPlayers`, `MaxClient`: three clients suffice for one
  that leaves, one that takes its place and one that watches; one descriptor
  or seat fewer than clients forces reuse and a full table. The proofs remove
  these and the bounds below from all safety properties. No more than `Few` (2)
  clients connect to `WServer`, since completions in flight multiply its
  states; two still reuse each other's sockets and seats, but its table is
  never full and accept() never lacks a socket.
* `MaxSockets` (4 for 100) with fewer descriptors than clients: the array gets
  one -1 while all are connected, more after a departure, and overflows.
* `Cap` (3 for 1024) is filled by one line and its terminator, passed by the
  longest line, which is echoed in two reads, and by two lines together; `Width` 2 and `NumFields` 3 have a first, a middle and a last member
  and every cut inside and between them; one loss and one copy are the
  smallest faults, and two questions the fewest answers that can lag.
* `Backlog`: connections queued before `accept()`, 1 or 2 instead of 5; a
  longer queue only delays.
* `Room`: what a socket buffers in one direction, in messages or lines. 1 or 2
  makes every write block at some point, which real buffers do only later.
* `MaxSay`, `MaxSaid`, `MaxCommands`: input of the users, otherwise unbounded.
  Two messages per client are the first that can be reordered, three commands
  let a download go astray, an upload follow, and a command after it. Four
  messages are the fewest that fill both directions and the hands of both
  programs in `epoll_jam`.
* Symmetry (clients, descriptors) is used in safety runs only.
* Deadlock checking is off everywhere: users need not do anything, and a
  system in which all clients are gone rests.

## 4. Fairness

* `LServer`, `EpollChat`, `FileTransfer`: weak fairness of the server's next
  step and of each client's. The server is one thread that never stops by
  itself, and a blocked call continues once the kernel has data or room.
* `ChatServer`: weak fairness of `main()`, of each thread and of each
  receiver. A mutex gives no more than that. It suffices here because each
  client sends a bounded number of messages, so a waiting thread cannot be
  overtaken for ever; with endless traffic it would need a fair mutex, which
  `pthread_mutex_t` does not promise.
* `MCGameLiveness`: for `RServer` and `CsServer` weak fairness of accept, of
  each thread or task, and of each client: they are scheduled by the system,
  and no lock is held across a blocking call in the model. For `LServer` as
  above.
* `Exercises`: weak fairness of each program's step that waits for nobody
  but its peer. Typing, faults and cuts are not forced; with `cut` a read
  returns at least a byte, so every stream is read in the end.
* Nothing forces a user to type, to leave, or a process to be killed, and no
  datagram is forced to arrive.
* A server killed by SIGPIPE stops: liveness is stated up to `~alive`.

## 5. Proofs

Every safety property that a passing run checks is proved, the refinements
included, for every value of the constants that satisfies the named assumptions:
the special values (`NoClient`, `NoFd`, `NoPacket`, `Udp`, `Listen`, `Server`)
are none of the ordinary ones, and numbers of seats, places, messages and bytes
are natural numbers, positive where the code's constants are. What is typed in
the exercises is any set of nonempty lines of any length (`LineAssumption`),
of which the C clients take those that fit; for the commands, which the model
sends in two halves, `buf` has room for a command or an answer and the
terminator (`CommandAssumption`). No set needs to be
finite but the file names of week 5, which one listing holds.

| module | theorem | statement |
|---|---|---|
| `LServerProof` | `TypeCorrect` | `SafeSpec => []TypeOK` |
| | `TableCorrect` | `SafeSpec => []SeatsMatchConnections` |
| | `IdsAgree` | `SafeSpec => []IdAgreement` |
| | `EventsReady` | `SafeSpec => []EventsStayReady` |
| | `MovesAreKept` | `SafeSpec => []MovesKept` |
| | `Implements` | `SafeSpec => Registry!Spec` |
| `WServerProof` | `TypeCorrect`, `TableCorrect`, `IdsAgree`, `Implements` | the same of the completion port |
| | `MovesKeptApart` | `SafeSpec => []PositionsKeptApart` |
| | `OneReceive` | `SafeSpec => []ReceiveOutstanding` |
| `MonitorProof` | `TypeCorrect` | `OrderedSpec => []TypeOK` |
| | `IdsAgree` | `OrderedSpec => []AssignedId` |
| | `SeatsAreOwned` | `OrderedSpec => []SeatsBelongToThreads` |
| | `Implements` | `OrderedSpec => Registry!Spec` |
| `ChatServerProof` | `TypeCorrect` | `SafeSpec => []TypeOK` |
| | `TableSound` | `SafeSpec => []TableConsistent` |
| | `Atomic` | `SafeSpec => AtomicBroadcast` (a `ChatRoom`) |
| `EpollChatProof` | `TypeCorrect` | `SafeSpec => []TypeOK` |
| | `ArrayTrue` | `SafeSpec => []ArrayMatchesSockets` |
| | `Atomic` | `SafeSpec => AtomicBroadcast` (a `ChatRoom`) |
| `FileTransferProof` | `TypeCorrect` | `Spec => []TypeOK` |
| | `UploadsWhole` | `Spec => []UploadStored` |
| | `KeepsStep` | `Spec => []Lockstep` |
| | `DownloadsTrue` | `Spec => []DownloadExact` |
| | `HangsAreKnown` | `Spec => []HangsKnown` |
| `ExercisesProof` | `TypeCorrect` | `AnySpec => []TypeOK` |
| | `EchoTrue` | `AnySpec => []EchoIntegrity` |
| | `KeepsStep` | `AnySpec => []InStep` |
| | `TerminatorsInside` | `AnySpec => []TerminatorInside` |
| | `FixedShown` | `AnySpec => []FixedExact` |
| | `LinesAreKept` | `AnySpec => []LinesKept` |
| | `AnswersMatch` | `AnySpec => []AnswersQuestion` |
| | `ServerSurvives` | `AnySpec => []ServerOutlives` |

Each module also has `Invariance`, that its `IInv` holds throughout. None of
the properties is inductive alone; the strengthenings follow.

### Game servers with one table-owning thread

What a handler does depends on packets sent long ago. A Logout clears whatever
slot it names: to know that it names the sender's own, one must know what
every packet on its way may contain. `GameLemmas` has the part that `lserver.c`
and `wserver.c` share, `Lobby`, and one lemma per step of a client and per
handler of the table about it:

* `SeatsMatchConnections`, the property itself;
* `Connections`: a client is on one descriptor or once in the queue, never
  both, so descriptor reuse cannot confuse two clients;
* `Knowledge`: phase by phase, what a client knows of its id and what the
  server holds for it; in particular a waiting client whose reply is there has
  its own seat, and one whose reply is not there has none. This is the
  argument why no broadcast precedes the response in these servers: seat,
  response and broadcast are one handler.

`LServerProof` adds `Streams` (a Login is alone in its stream and its sender
has no seat; any other packet carries the id of a seat its sender owns; a
Logout is the last), `Moves` (a datagram carries the id its sender was given,
a recorded Move was sent by one who had the seat, and the Move of a player is
on its way or recorded, `Heard`) and the property about events. `WServerProof` must say the same of packets
that have left the stream and wait at the port (`Flight`: a Login or Logout
there has nothing behind it in the stream), which is sound only because a
connection has one receive under way: `ReceiveOutstanding` is part of the
induction. A packet of a client that is gone may outlive the seat it names,
if `main()` refused or the worker closed the connection (`Away`); nothing is
then done with it.

### Game servers with a lock

`MonitorProof` is about `MCMonitor`, whose behaviours are those of `RServer`
and of `CsServer`, in order. No thread holds the lock from one step to the
next. `Threads` says what a thread that is between two critical sections may
count on although others have run since: the seat named in the response it is
about to write is still its client's, and after a logout its client has none.
`Knowledge` and `Streams` are as above, with three cases of a waiting client
instead of two: the seat may be given while the response is not yet written.
Without the order this invariant fails at the broadcast, which is the finding
of `monitor_race`: all theorems of `MonitorProof` are about behaviours in which
no broadcast overtakes a pending response, also that seats are owned
(`SeatsAreOwned`), for a client with another's id frees that other's seat.

### The chats

The table of week 7 needs three more facts: who has the mutex (`Locked`: the
one thread that broadcasts), what `main()` has in hand (`InHand`: a registered
connection without a thread is the last entry, for nobody registers but
`main()` and a removal keeps the order), and where each client is
(`Connections`). In week 11 the table needs that pending events are for open
descriptors and that the broadcast's position is past zero while one runs.

The refinement of `ChatRoom` maps a member's history to what it printed, what
is in its socket and the broadcast under way. `Talk` orders messages by the
author's counter: all that has been heard is older than all that is unread.
So a message is new when its broadcast begins, and that step is the room's
`Say`; each `write()` after it moves the message from the third part of the
mapping to the second and stutters.

### The file server

`FileTransferProof` has two invariants, since two kinds of clients are spoken
of.

`Transfer` holds of all, also of those that lost step. There a line of a file
may be read as a command and a command as a size, and `UploadStored` still
holds, for this reason: a client sends a size only right after `load` and the
server's `READY`, so if a size follows `load n` in its stream, it is that of
its file `n`, and the lines of `n` come right behind (`Streams`, `Sized`,
`Follows`; what is not in the stream yet is what the client is still sending).
The server, having read `load n`, either finds that size next or something
that is no size and gives up (`Upload`). The prefix it has stored and
the rest behind it make up the file at every step, unless a write failed
(`dropped`) or the data does not come to its size (`uneven`). `Places` says where a client is: not
connected, in the queue, served, or closed upon.

`Conversation` is about clients that never went astray. For each place of
`main()` in `Iclient.c` it says what the server waits for (`at`), what is on
its way up, and what is on its way down or will be, `down[c] \o out`: taken
together, since `send_line` only moves a line from one to the other. `Closes`
is the shape of an answer the client reads to its end and no further,
`Copying` adds what of the file is in the copy already, and `Pending` that
data sent, data under way and data to be sent add up to the announced size.
`Lockstep`, `DownloadExact` and `HangsKnown` follow from it. A
client whose `fread()` ended short stays in step with `at = "data"` for good,
which is the fourth deadlock. Nothing of the kind holds of a client that went
astray, which is why the two are separate.

The empty line is named `Nothing` in the model: the provers need only that it
is no marker.

### The exercises

`ExercisesProof` has an invariant for each group of programs, and `IInv` is
their disjunction: each names the programs it is about, so a step of one group
leaves the others out.

`Talk` is about the clients that send lines. Unless reads are cut or the
server was killed, and while no line is longer than a buffer (`Fits`), at most
one line, or the answer to it, is on its way (`OneLine`): the client writes
only when it has had its answer, and the server reads only what is there. So a
read never fills a buffer with two lines (`TerminatorInside`), and the k-th
answer is to the k-th line (`InStep`). With cuts only the bytes are left to speak of (`Echoed`): what
was shown, what is on its way back and what is on its way up make up what was
written. `TcpEcho` and `CommandServer` use the same client, so the lemmas are
about a third instance of it, `L`, with the lines of both.

`Message` is about the drawings: the stream is nothing or the whole message,
and reads ended at `ends`. For the struct, byte b of member f is at
(f - 1) * `Width` + b, reversed (`FixedParts`). For the text, `Seen` says what
of a field has been parsed by the reads so far, from `ends` alone; that the
next read leaves it true is `SeenMore`, that it is the property when the
server is done is `SeenAll`, and that what it has of a line parsed whole stays
is `SeenKept`. The last two pieces of the message are `END`: a server that
reads on has not had them in one chunk.

`Network` is about UDP. `PeerSound` counts the datagrams of a client, on their
way to the server and back, against the copies made and the one question it
waits with; each step of the network moves one of them. `ServerSound` says
that a running server is bounced only by somebody who left (`Left`) or sent
more than its buffer holds (`Outsized`).

These invariants speak of the concatenation of any number of sequences
(`FlattenSeq`) and of how many places of a queue are a client's
(`Cardinality`), which are defined by recursion or by choice. The library's
induction theorems take an operator as a parameter, which the provers cannot
instantiate. `WFMin`, that a set of numbers has a least element, does not, and
suffices: `Induction` is stated for a set `T` that holds 0 and with each number
the next, and a fact is proved by taking for `T` the numbers it holds of.
`PartialExists`, `PartialUnique` and `Blocks` are proved so.

### How the proofs are laid out

One lemma per action and invariant part, `NextIInv` and its likes to put them
together, then the theorems. The refinements map each step to one of the
abstract specification or to a stutter; SIGPIPE, which ends the epoll server,
can only strike while a departed client is still seated, as the registry
allows.

## 6. What is only checked, and what is left out

Only model-checked: liveness everywhere, since the prover has no reasoning
about fairness or ENABLED that could carry it, and what the runs that expect a
violation show. No module declares a recursive operator.

Abstracted: packet fields beyond type, id and name; the text of messages;
printing; positions (always assigned together with `udp_addr`, which stands
for them). A read returns one whole packet, message or line. For week 13 this
is what the kernel does with the 84-byte packets of these clients on one host;
for the chats a different cut changes only where text is divided. Sockets of
week 13 never fill, since each player is sent a few packets and reads them.

Not modelled: more than `MAX_EVENTS` (1000) events in one `epoll_wait`, of
which the kernel would return the rest next time; an `accept()` that fails for another reason than a lack of
descriptors; what the epoll chat does after
it wrote outside its array, or an exercise outside its buffer; file names and
lines of `BUF_SIZE` - 1 characters and more in week 5 (`send_line` then reads
beyond its buffer), files of more than `INT_MAX` bytes (the size goes through
an `int`), and texts, typed or in a file, that are themselves a command or a
number; failing `malloc` of the Windows server; what the sockets hold of a line
that a Rust client writes and that is longer than both (`write_all` and the
server's echo then block each other); a `NAME` so long that the answer does not
fit; in week 9, what `gets()` and
`buffer[n] = 0` do with a line that fills the buffer of its program; a drawing
text longer than the buffer of `var_server.c`; the parts marked `not_modelled`
in `PROJECT.json`, each with its reason.

The parts that stay out have no behaviour to model: week 7 `thread.c` (ten
threads that write an element each and are joined), week 4 and week 10 (calls
into the C library, printed), `rust_test`; and the `select()` drafts of week
11, whose servers do not compile.

## 7. Plan

Every program with behaviour of its own is modelled, and every safety property
that a passing run checks is proved. `PROJECT.json` has hazards that no property
covers, each with a note. Most of them are losses the code does nothing to
prevent and nothing in the repository denies: the model has the step and a
property names it as its exception. What would extend the project are those
outside the models: partial packets in week 13 (a read that returns a part of
a `Packet`), a player whose socket is full, and lines and files that pass the
buffers and integers of week 5.

Runs stay few: a run may make place for another when a theorem answers its
question for every instance.
