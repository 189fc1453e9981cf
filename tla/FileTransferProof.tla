------------------------- MODULE FileTransferProof --------------------------
(***************************************************************************)
(* Proofs about the file server and client of week 5 (FileTransfer), for   *)
(* every number of clients, all files and every size of the sockets.       *)
(***************************************************************************)
EXTENDS FileTransfer, SequenceTheorems, FiniteSetTheorems, TLAPS

(* The first entry of a sequence and the rest.                              *)
LEMMA Taken ==
    ASSUME NEW S, NEW s \in Seq(S), s # <<>>
    PROVE  /\ Head(s) = s[1] /\ Head(s) \in S
           /\ Tail(s) \in Seq(S)
           /\ Len(s) \in Nat /\ 1 \in 1 .. Len(s)
           /\ Len(Tail(s)) = Len(s) - 1
           /\ \A k \in 1 .. Len(Tail(s)) : /\ k + 1 \in 1 .. Len(s)
                                           /\ Tail(s)[k] = s[k + 1]
BY HeadTailProperties, EmptySeq, LenProperties

(* An entry at the end of a sequence.                                       *)
LEMMA Added ==
    ASSUME NEW S, NEW s \in Seq(S), NEW e \in S
    PROVE  /\ Append(s, e) \in Seq(S) /\ Append(s, e) # <<>>
           /\ Len(s) \in Nat
           /\ Len(Append(s, e)) = Len(s) + 1
           /\ \A k \in 1 .. Len(s) : Append(s, e)[k] = s[k]
           /\ Append(s, e)[Len(s) + 1] = e
BY AppendProperties, LenProperties

(* A sequence is its first entry and then the rest.                         *)
LEMMA HeadAndTail ==
    ASSUME NEW S, NEW s \in Seq(S), s # <<>>
    PROVE  /\ <<Head(s)>> \in Seq(S) /\ Tail(s) \in Seq(S)
           /\ s = <<Head(s)>> \o Tail(s)
<1>1. Len(s) \in Nat \ {0} /\ Head(s) = s[1] /\ Head(s) \in S /\ Tail(s) \in Seq(S)
  BY EmptySeq, HeadTailProperties
<1>2. PICK n \in Nat \ {0} : n = Len(s) /\ 1 \in 1 .. n /\ n \in 1 .. n
  BY <1>1
<1>3. SubSeq(s, 1, n) = <<s[1]>> \o SubSeq(s, 2, n)
  BY <1>2, SubSeqRecursiveFirst
<1>4. SubSeq(s, 1, n) = s /\ Tail(s) = SubSeq(s, 2, n)
  BY <1>2, SubSeqFull, TailIsSubSeq
<1> QED
  BY <1>1, <1>3, <1>4

(* The first entry of the second part moves to the end of the first.       *)
LEMMA ReceivedInside ==
    ASSUME NEW S, NEW l \in Seq(S), NEW s \in Seq(S), s # <<>>
    PROVE  Append(l, Head(s)) \o Tail(s) = l \o s
<1>1. PICK h \in Seq(S), t \in Seq(S) :
            h = <<Head(s)>> /\ t = Tail(s) /\ s = h \o t
  BY HeadAndTail
<1>2. Append(l, Head(s)) = l \o h
  BY <1>1, HeadTailProperties, AppendIsConcat
<1>3. (l \o h) \o t = l \o (h \o t)
  BY ConcatAssociative
<1> QED
  BY <1>1, <1>2, <1>3

(* What is first is first in the whole.                                    *)
LEMMA FirstOfWhole ==
    ASSUME NEW S, NEW l \in Seq(S), NEW s \in Seq(S), l # <<>>
    PROVE  /\ l \o s \in Seq(S) /\ l \o s # <<>>
           /\ (l \o s)[1] = Head(l)
           /\ Tail(l \o s) = Tail(l) \o s
<1>1. PICK h \in Seq(S), t \in Seq(S) :
            h = <<Head(l)>> /\ t = Tail(l) /\ l = h \o t
  BY HeadAndTail
<1>2. /\ l \o s \in Seq(S) /\ t \o s \in Seq(S)
      /\ l \o s # <<>>
  BY ConcatProperties, ConcatEqualIffEmpty
<1>3. l \o s = h \o (t \o s)
  BY <1>1, ConcatAssociative
<1>4. PICK r \in Seq(S), w \in Seq(S) :
            r = t \o s /\ w = l \o s /\ w = h \o r /\ w # <<>>
  BY <1>2, <1>3
<1>5. /\ <<Head(w)>> \in Seq(S) /\ Tail(w) \in Seq(S)
      /\ w = <<Head(w)>> \o Tail(w)
  BY <1>4, HeadAndTail
<1>6. PICK n \in Nat : n = Len(l) /\ 1 \in 1 .. n
  BY EmptySeq
<1>7. w[1] = l[1]
  <2>1. (l \o s)[1] = IF 1 <= n THEN l[1] ELSE s[1 - n]
    <3>1. 1 \in 1 .. n + Len(s)
      BY <1>6, LenProperties
    <3> QED
      BY <1>6, <3>1, ConcatProperties
  <2>2. (l \o s)[1] = l[1]
    BY <1>6, <2>1
  <2> QED
    BY <1>4, <2>2, Zenon
<1>8. Head(w) = w[1] /\ Head(l) = l[1] /\ <<Head(w)>> = h
  BY <1>1, <1>4, <1>7, HeadTailProperties
<1>9. Tail(w) = r
  BY <1>4, <1>5, <1>8, ConcatSimplifications
<1> QED
  BY <1>1, <1>2, <1>4, <1>7, <1>8, <1>9

-----------------------------------------------------------------------------
Types ==
    /\ TypeOK
    /\ files \in [Names -> Seq(Text) \cup {NoFile}]

-----------------------------------------------------------------------------
(* Connections.                                                            *)

Waiting(c) == \E k \in 1 .. Len(backlog) : backlog[k] = c

Places ==
    /\ \A j, k \in 1 .. Len(backlog) : backlog[j] = backlog[k] => j = k
    /\ \A c \in Clients : Waiting(c) =>
            /\ pc[c] \in {"prompt", "gone"} /\ c # serving /\ c \notin closed
            /\ up[c] = <<>> /\ down[c] = <<>>
    /\ serving # NoClient => pc[serving] # "start" /\ serving \notin closed
    /\ serving = NoClient => out = <<>> /\ at = "command"
    /\ \A c \in Clients :
            IF pc[c] = "start"
            THEN c \notin closed /\ up[c] = <<>> /\ down[c] = <<>>
            ELSE Waiting(c) \/ serving = c \/ c \in closed

-----------------------------------------------------------------------------
(* Uploads.                                                                *)

(* Behind place k of what c has sent come the last m lines of its file n,  *)
(* as far as they are sent; the rest c is sending, unless it is gone.      *)
Follows(c, k, n, m) ==
    LET data == local[c][n]
    IN  /\ data # NoFile /\ m <= Len(data)
        /\ \A j \in 1 .. m : k + j <= Len(up[c]) =>
                up[c][k + j] = <<"text", data[Len(data) - m + j]>>
        /\ k + m > Len(up[c]) /\ pc[c] # "gone" =>
                /\ pc[c] = "send" /\ Len(todo[c]) = k + m - Len(up[c])
                /\ \A j \in 1 .. Len(todo[c]) :
                        todo[c][j] = data[Len(data) - Len(todo[c]) + j]

(* Place k holds the size of file n, and the file follows.                 *)
Sized(c, k, n) ==
    /\ up[c][k] = <<"size", Len(local[c][n])>>
    /\ Follows(c, k, n, Len(local[c][n]))

(* A size is sent only behind load, and is that of the file then named,    *)
(* which follows, as far as the reads of a file come to its size.          *)
Streams(c) ==
    /\ pc[c] = "ready" => arg[c] \in Names /\ local[c][arg[c]] # NoFile
    /\ pc[c] = "send" => todo[c] # <<>>
    /\ c \notin closed =>
        /\ pc[c] = "ready" /\ up[c] # <<>> =>
                up[c][Len(up[c])] = <<"load", arg[c]>>
        /\ c \notin uneven =>
            \A k \in 1 .. Len(up[c]) - 1 : \A n \in Names :
                up[c][k] = <<"load", n>> /\ up[c][k + 1][1] = "size" =>
                    Sized(c, k + 1, n)

(* The size has not come, and is that of the file the server expects.      *)
Announced ==
    IF up[serving] = <<>>
    THEN pc[serving] = "ready" => filename = arg[serving]
    ELSE up[serving][1][1] = "size" => Sized(serving, 1, filename)

(* The data is that of the file from where the server's copy ends.         *)
Continues ==
    LET data == local[serving][filename]
    IN  /\ Follows(serving, 0, filename, left)
        /\ ~dropped =>
            /\ Len(files[filename]) = Len(data) - left
            /\ \A j \in 1 .. Len(data) - left : files[filename][j] = data[j]

(* What the server has of the upload it is receiving, and has yet to get.  *)
Upload ==
    /\ at = "size" =>
        /\ filename \in Names /\ files[filename] = <<>>
        /\ ~begun /\ serving \notin uneven => Announced
    /\ at = "data" =>
        /\ filename \in Names /\ files[filename] \in Seq(Text)
        /\ serving \notin uneven => Continues
    /\ at # "command" => Len(out) < 2
    /\ Len(out) > 2 => out[Len(out) - 1] = "END"
    /\ out = <<"UPLOAD DONE", "COMMANDS">> =>
        /\ filename \in Names
        /\ ~dropped /\ serving \notin uneven =>
                files[filename] = local[serving][filename]

(* The server takes what the client has sent, or learns of the end.        *)
Takes ==
    /\ serving # NoClient /\ out = <<>>
    /\ \/ /\ up[serving] # <<>>
          /\ up' = [up EXCEPT ![serving] = Tail(@)]
       \/ /\ up[serving] = <<>> /\ pc[serving] = "gone"
          /\ UNCHANGED up
    /\ UNCHANGED <<pc, entered, arg, local, copy, todo, uneven, down, backlog,
                   alive>>

Transfer == Types /\ Places /\ (\A c \in Clients : Streams(c)) /\ Upload

-----------------------------------------------------------------------------
(* A client that is in step with the server.                               *)

(* n pieces are all that is to come, m; or fewer, of an uneven client.     *)
Covers(c, n, m) == n <= m /\ (c \notin uneven => n = m)

(* t more items of an upload are still to be sent.                         *)
Pending(c, t) ==
    \/ /\ at = "size" /\ up[c] # <<>> /\ up[c][1][1] = "size"
       /\ Covers(c, Len(up[c]) + t, 1 + up[c][1][2])
    \/ at = "data" /\ Covers(c, Len(up[c]) + t, left)

(* s ends a listing or a file, and no line before is taken for its end.    *)
Closes(s) ==
    /\ Len(s) >= 2 /\ s[Len(s)] = "COMMANDS" /\ s[Len(s) - 1] = "END"
    /\ \A k \in 1 .. Len(s) - 2 : s[k] \notin {Nothing, "END"}

AtPrompt(c, s) ==
    /\ up[c] = <<>>
    /\ \/ at = "command" /\ s = <<"COMMANDS">>
       \/ /\ at = "command" /\ s = <<>>
          /\ arg[c] \in Names /\ local[c][arg[c]] = NoFile
       \/ at = "size" /\ s = <<>>

AtList(c, s) ==
    /\ at = "command"
    /\ \/ up[c] = <<<<"list", "list">>>> /\ s = <<>>
       \/ up[c] = <<>> /\ Closes(s)

(* w, then s without its end, is the file.                                 *)
Rest(data, w, s) ==
    /\ Len(s) = Len(data) - Len(w) + 2
    /\ \A j \in 1 .. Len(data) :
            /\ data[j] # "START"
            /\ data[j] = IF j <= Len(w) THEN w[j] ELSE s[j - Len(w)]

(* START, the file and the end: what is not in s any more is in the copy.  *)
Copying(c, s) ==
    LET data == Lines(files[arg[c]])
    IN  /\ files[arg[c]] # NoFile /\ Closes(s)
        /\ \/ /\ Len(s) = Len(data) + 3 /\ s[1] = "START" /\ copy[c] = <<>>
              /\ \A j \in 1 .. Len(data) : data[j] = s[j + 1] /\ data[j] # "START"
           \/ Rest(data, copy[c], s)

AtGet(c, s) ==
    /\ at = "command" /\ arg[c] \in Names
    /\ \/ up[c] = <<<<"get", arg[c]>>>> /\ s = <<>> /\ copy[c] = <<>>
       \/ /\ up[c] = <<>> /\ files[arg[c]] = NoFile
          /\ \A k \in 1 .. Len(s) : s[k] \notin {Nothing, "END"}
       \/ up[c] = <<>> /\ Copying(c, s)

AtReady(c, s) ==
    \/ up[c] = <<<<"load", arg[c]>>>> /\ at = "command" /\ s = <<>>
    \/ up[c] = <<>> /\ at = "size" /\ s = <<"READY">>
    \/ up[c] = <<>> /\ at = "command" /\ s = <<"FAILED", "COMMANDS">>

AtAnswer(c, s) ==
    \/ /\ up[c] # <<>> /\ up[c][1][1] = "text" /\ Tail(up[c]) = <<>>
       /\ ~Unterminated(up[c][1])
       /\ at = "command" /\ s = <<>>
    \/ Pending(c, 0) /\ s = <<>>
    \/ /\ up[c] = <<>> /\ at = "command"
       /\ Len(s) = 2 /\ s[1] # Nothing /\ s[2] = "COMMANDS"

InStep(c, s) ==
    /\ pc[c] = "prompt" => AtPrompt(c, s)
    /\ pc[c] = "input" => up[c] = <<>> /\ s = <<>> /\ at = "command"
    /\ pc[c] = "list" => AtList(c, s)
    /\ pc[c] = "get" => AtGet(c, s)
    /\ pc[c] = "ready" => AtReady(c, s)
    /\ pc[c] = "send" => s = <<>> /\ Pending(c, Len(todo[c]))
    /\ pc[c] = "answer" => AtAnswer(c, s)

Talks(c) ==
    pc[c] # "gone" =>
        /\ serving = c => ~begun /\ InStep(c, down[c] \o out)
        /\ c \in closed => pc[c] \in {"answer", "prompt"} /\ down[c] = <<>>

Conversation == \A c \in Clients \ astray : Talks(c)

IInv == Transfer /\ Conversation

-----------------------------------------------------------------------------
(* Types.                                                                  *)

LEMMA TextOfContents ==
    ASSUME NEW f \in Contents
    PROVE  /\ f \in Seq(Text) /\ f # NoFile /\ Len(f) \in Nat
           /\ \A k \in 1 .. Len(f) : f[k] \in Text
           /\ <<"size", Len(f)>> \in Requests
<1>1. f \in Seq(STRING) /\ f # NoFile /\ Len(f) \in Nat
  BY FileAssumption, LenProperties
<1>2. ASSUME NEW k \in 1 .. Len(f) PROVE f[k] \in Text
  <2>1. f[k] \in ToSet(f)
    BY <1>1, <1>2, LenProperties DEF ToSet
  <2>2. f[k] \in UNION {ToSet(g) : g \in Contents}
    BY <2>1, Zenon
  <2> QED
    BY <2>2, Zenon DEF Text
<1>3. f \in Seq(Text)
  BY <1>1, <1>2, SeqDef, LenProperties
<1> QED
  BY <1>1, <1>2, <1>3 DEF Requests

LEMMA RequestKinds ==
    ASSUME NEW r \in Requests
    PROVE  /\ r = <<r[1], r[2]>>
           /\ r[1] \in {"list", "quit", "get", "load", "size", "text"}
           /\ r[1] = "size" => r[2] \in Nat
           /\ r[1] \in {"get", "load"} => r[2] \in Names
           /\ r[1] = "text" => r[2] \in Text
<1>1. \A f \in Contents : Len(f) \in Nat
  BY TextOfContents
<1>2. CASE r \in {"list", "quit"} \X {"list", "quit"}
  <2>1. PICK x \in {"list", "quit"}, y \in {"list", "quit"} : r = <<x, y>>
    BY <1>2
  <2> QED
    BY <2>1
<1>3. CASE r \in {"get", "load"} \X Names
  <2>1. PICK x \in {"get", "load"}, y \in Names : r = <<x, y>>
    BY <1>3
  <2> QED
    BY <2>1
<1>4. CASE r \in {"size"} \X {Len(f) : f \in Contents}
  <2>1. PICK f \in Contents : r = <<"size", Len(f)>>
    BY <1>4
  <2>2. r[1] = "size" /\ r[2] = Len(f) /\ r = <<r[1], r[2]>>
    BY <2>1
  <2>3. r[2] \in Nat
    BY <1>1, <2>2
  <2>4. ~(r[1] \in {"get", "load"}) /\ r[1] # "text"
    BY <2>2
  <2> QED
    BY <2>2, <2>3, <2>4
<1>5. CASE r \in {"text"} \X Text
  <2>1. PICK y \in Text : r = <<"text", y>>
    BY <1>5
  <2> QED
    BY <2>1
<1> QED
  BY <1>2, <1>3, <1>4, <1>5 DEF Requests

LEMMA RepliesAre ==
    /\ Names \subseteq Replies /\ {Line[t] : t \in Text} \subseteq Replies
    /\ {"COMMANDS", "Files:", "Failed to open directory", "File not found",
        "START", "END", "READY", "FAILED", "UPLOAD DONE", "Unknown command",
        Nothing} \subseteq Replies
BY DEF Replies

(* The texts a user types.                                                 *)
LEMMA TypedTexts ==
    \A t \in {Other, Nothing} :
        /\ t \in Text /\ <<"text", t>> \in Requests
        /\ ~Unterminated(<<"text", t>>)
<1> SUFFICES ASSUME NEW t \in {Other, Nothing}
             PROVE  /\ t \in Text /\ <<"text", t>> \in Requests
                    /\ ~Unterminated(<<"text", t>>)
  OBVIOUS
<1>1. t \in Text
  <2>1. {Nothing, Other} \subseteq Text
    BY Zenon DEF Text
  <2> QED
    BY <2>1, Zenon
<1>2. <<"text", t>> \in Requests
  BY <1>1 DEF Requests
<1>3. t \notin Open
  BY FileAssumption
<1> QED
  BY <1>1, <1>2, <1>3 DEF Unterminated

(* The lines the server makes of a file, one of each piece.                *)
LEMMA LinesOf ==
    ASSUME NEW f \in Seq(Text)
    PROVE  /\ Lines(f) \in Seq(Replies)
           /\ Len(f) \in Nat /\ Len(Lines(f)) = Len(f)
<1>1. PICK n \in Nat : n = Len(f)
  BY LenProperties
<1>2. \A k \in 1 .. n : f[k] \in Text
  BY <1>1, ElementOfSeq
<1>3. \A k \in 1 .. n : Line[f[k]] \in Replies
  BY <1>2, RepliesAre
<1>4. Lines(f) = [k \in 1 .. n |-> Line[f[k]]]
  BY <1>1 DEF Lines
<1>5. Lines(f) \in [1 .. n -> Replies]
  BY <1>3, <1>4
<1>6. Lines(f) \in Seq(Replies)
  BY <1>5, SeqDef
<1>7. Len(Lines(f)) = n
  BY <1>5, <1>6, LenProperties
<1> QED
  BY <1>1, <1>6, <1>7



LEMMA InitTypes == Init => Types
<1> SUFFICES ASSUME Init PROVE Types
  OBVIOUS
<1>1. \A f \in Contents : f \in Seq(Text) /\ f # NoFile
  BY TextOfContents
<1>2. files \in [Names -> Seq(Text) \cup {NoFile}]
  BY <1>1 DEF Init
<1>3. <<>> \in Seq(Replies) /\ <<>> \in Seq(Text) /\ <<>> \in Seq(Requests)
      /\ <<>> \in Seq(Clients)
  BY EmptySeq
<1>4. /\ pc \in [Clients -> {"start"}] /\ entered \in [Clients -> {0}]
      /\ arg \in [Clients -> {NoFile}]
      /\ copy \in [Clients -> Seq(Replies)] /\ todo \in [Clients -> Seq(Text)]
      /\ up \in [Clients -> Seq(Requests)]
      /\ down \in [Clients -> Seq(Replies)]
      /\ backlog \in Seq(Clients) /\ out \in Seq(Replies)
  BY <1>3 DEF Init
<1>5. /\ local \in [Clients -> [Names -> Contents \cup {NoFile}]]
      /\ serving = NoClient /\ at = "command" /\ filename = NoFile
      /\ left = 0 /\ astray = {} /\ closed = {} /\ uneven = {}
      /\ begun = FALSE /\ dropped = FALSE
  BY DEF Init
<1>6. /\ \A n \in Names : files[n] = NoFile \/ files[n] \in Seq(Text)
      /\ pc \in [Clients -> {"start", "prompt", "input", "list", "get",
                             "ready", "send", "answer", "gone"}]
      /\ entered \in [Clients -> 0 .. MaxCommands]
      /\ arg \in [Clients -> Names \cup {NoFile}]
      /\ left \in Nat /\ (left > 0 <=> at = "data")
  <2>1. 0 \in 0 .. MaxCommands
    BY FileAssumption
  <2>2. left \in Nat /\ ~(left > 0) /\ at # "data"
    BY <1>5
  <2>3. entered \in [Clients -> 0 .. MaxCommands]
    BY <1>4, <2>1
  <2>4. /\ \A n \in Names : files[n] = NoFile \/ files[n] \in Seq(Text)
        /\ pc \in [Clients -> {"start", "prompt", "input", "list", "get",
                               "ready", "send", "answer", "gone"}]
        /\ arg \in [Clients -> Names \cup {NoFile}]
    BY <1>2, <1>4
  <2> QED
    BY <2>2, <2>3, <2>4
<1>7. TypeOK
  <2>1. alive \in BOOLEAN
    BY DEF Init
  <2> QED
    BY <1>4, <1>5, <1>6, <2>1 DEF TypeOK
<1> QED
  BY <1>2, <1>7 DEF Types

(* What a client receives.                                                 *)
LEMMA ReceiveTypes ==
    ASSUME Types, NEW c \in Clients, NEW l \in Replies, Receive(c, l)
    PROVE  down' \in [Clients -> Seq(Replies)]
<1>1. down \in [Clients -> Seq(Replies)]
  BY DEF Types, TypeOK
<1>2. CASE down[c] # <<>> /\ down' = [down EXCEPT ![c] = Tail(@)]
  <2>1. Tail(down[c]) \in Seq(Replies)
    BY <1>1, <1>2, Taken
  <2> QED
    BY <1>1, <1>2, <2>1
<1> QED
  BY <1>1, <1>2 DEF Receive

LEMMA SendTypes ==
    ASSUME Types, NEW c \in Clients, NEW r \in Requests, Send(c, r)
    PROVE  up' \in [Clients -> Seq(Requests)]
<1>1. up \in [Clients -> Seq(Requests)]
  BY DEF Types, TypeOK
<1>2. CASE up' = [up EXCEPT ![c] = Append(@, r)]
  <2>1. Append(up[c], r) \in Seq(Requests)
    BY <1>1, Added
  <2> QED
    BY <1>1, <1>2, <2>1
<1> QED
  BY <1>1, <1>2 DEF Send

(* The server receives: the first of what the client has sent, or the end. *)
LEMMA Receives ==
    /\ \A r : Arrives(r) /\ UNCHANGED receiverVars => Takes
    /\ Ended /\ UNCHANGED receiverVars => Takes
    /\ \A r : Request(r) => Takes
<1>1. \A r : Arrives(r) /\ UNCHANGED receiverVars => Takes
  BY DEF Arrives, Takes, receiverVars, userVars
<1>2. Ended /\ UNCHANGED receiverVars => Takes
  BY DEF Ended, Takes, receiverVars, userVars
<1>3. ASSUME NEW r, Request(r) PROVE Takes
  BY <1>1, <1>2, <1>3 DEF Request
<1> QED
  BY <1>1, <1>2, <1>3

LEMMA TakesTypes ==
    ASSUME Types, Takes
    PROVE  up' \in [Clients -> Seq(Requests)] /\ serving \in Clients
<1>1. up \in [Clients -> Seq(Requests)] /\ serving \in Clients
  BY DEF Types, TypeOK, Takes
<1>2. CASE up[serving] # <<>> /\ up' = [up EXCEPT ![serving] = Tail(@)]
  <2>1. Tail(up[serving]) \in Seq(Requests)
    BY <1>1, <1>2, Taken
  <2> QED
    BY <1>1, <1>2, <2>1
<1> QED
  BY <1>1, <1>2 DEF Takes

LEMMA RequestTypes ==
    ASSUME Types, NEW r, Request(r)
    PROVE  /\ up' \in [Clients -> Seq(Requests)]
           /\ serving \in Clients
           /\ r \in Requests
<1>1. up' \in [Clients -> Seq(Requests)] /\ serving \in Clients
  BY Receives, TakesTypes
<1>2. CASE Arrives(r)
  <2>1. up[serving] \in Seq(Requests)
    BY <1>1 DEF Types, TypeOK
  <2> QED
    BY <1>1, <1>2, <2>1, Taken DEF Arrives
<1>3. <<"text", Nothing>> \in Requests /\ <<"text", Other>> \in Requests
  BY TypedTexts
<1> QED
  BY <1>1, <1>2, <1>3 DEF Request

(* What is read of a file is a part of it, the whole or more.              *)
LEMMA ReadsOf ==
    ASSUME NEW data \in Contents, NEW read \in Reads(data)
    PROVE  /\ data \in Seq(Text) /\ read \in Seq(Text)
           /\ Len(data) \in Nat /\ Len(read) \in Nat
           /\ Len(read) = Len(data) => read = data
<1>1. data \in Seq(Text) /\ Len(data) \in Nat
  BY TextOfContents
<1>2. PICK n \in Nat : n = Len(data)
  BY <1>1
<1>3. ASSUME NEW k \in 0 .. n, read = SubSeq(data, 1, k)
      PROVE  /\ read \in Seq(Text) /\ Len(read) \in Nat
             /\ Len(read) = n => read = data
  <2>1. k \in 1 - 1 .. Len(data)
    BY <1>2
  <2>2. /\ SubSeq(data, 1, k) \in Seq(Text)
        /\ Len(SubSeq(data, 1, k)) = IF 1 <= k THEN k - 1 + 1 ELSE 0
    <3>1. \A i \in 1 .. k : data[i] \in Text
      BY <1>1, <1>2, ElementOfSeq
    <3> QED
      BY <1>1, <1>2, <3>1, SubSeqProperties
  <2>3. Len(read) = k
    BY <1>2, <1>3, <2>2
  <2>4. SubSeq(data, 1, n) = data
    BY <1>1, <1>2, SubSeqFull
  <2> QED
    BY <1>2, <1>3, <2>2, <2>3, <2>4
<1>4. ASSUME NEW g \in Contents, read = data \o g
      PROVE  /\ read \in Seq(Text) /\ Len(read) \in Nat
             /\ Len(read) = n => read = data
  <2>1. g \in Seq(Text) /\ Len(g) \in Nat
    BY TextOfContents
  <2>2. data \o g \in Seq(Text) /\ Len(data \o g) = Len(data) + Len(g)
    BY <1>1, <2>1, ConcatProperties
  <2>3. ASSUME Len(read) = n PROVE read = data
    <3>1. Len(g) = 0
      BY <1>2, <1>4, <2>1, <2>2, <2>3
    <3>2. g = <<>>
      BY <2>1, <3>1, EmptySeq
    <3> QED
      BY <1>1, <1>4, <3>2, ConcatEmptySeq
  <2> QED
    BY <1>2, <1>4, <2>1, <2>2, <2>3
<1>5. read \in {SubSeq(data, 1, k) : k \in 0 .. n} \/ read \in {data \o g : g \in Contents}
  BY <1>2 DEF Reads
<1> QED
  BY <1>1, <1>2, <1>3, <1>4, <1>5

LEMMA UserTypes ==
    ASSUME Types, NEW c \in Clients,
           Connect(c) \/ Quit(c) \/ List(c) \/ Get(c) \/ Load(c) \/ Talk(c)
              \/ Leave(c)
    PROVE  Types'
<1> USE DEF Goto, userVars, wireVars, serverVars
<1>1. /\ files \in [Names -> Seq(Text) \cup {NoFile}]
      /\ \A n \in Names : files[n] = NoFile \/ files[n] \in Seq(Text)
      /\ TypeOK
  BY DEF Types, TypeOK
<1>2. CASE Connect(c)
  <2>1. backlog' \in Seq(Clients)
    BY <1>1, <1>2, Added DEF TypeOK, Connect
  <2>2. TypeOK'
    BY <1>1, <1>2, <2>1 DEF TypeOK, Connect
  <2> QED
    BY <1>1, <1>2, <2>2 DEF Types, Connect
<1>3. CASE Leave(c)
  BY <1>1, <1>3 DEF Types, TypeOK, Leave
<1>4. ASSUME NEW to \in {"gone", "list", "get", "prompt", "ready", "answer"},
             Enter(c, to), up' \in [Clients -> Seq(Requests)],
             arg' \in [Clients -> Names \cup {NoFile}],
             copy' \in [Clients -> Seq(Replies)], astray' \subseteq Clients
      PROVE  Types'
  <2>1. MaxCommands \in Nat
    BY FileAssumption
  <2>2. entered' \in [Clients -> 0 .. MaxCommands]
    <3>1. /\ entered \in [Clients -> 0 .. MaxCommands]
          /\ entered[c] < MaxCommands
          /\ entered' = [entered EXCEPT ![c] = @ + 1]
      BY <1>1, <1>4 DEF Enter, TypeOK
    <3>2. entered[c] + 1 \in 0 .. MaxCommands
      BY <2>1, <3>1
    <3> QED
      BY <3>1, <3>2
  <2>3. TypeOK'
    BY <1>1, <1>4, <2>2 DEF Enter, TypeOK
  <2> QED
    BY <1>1, <1>4, <2>3 DEF Types, Enter
<1>5. /\ <<"quit", "quit">> \in Requests /\ <<"list", "list">> \in Requests
      /\ \A t \in {Other, Nothing} : <<"text", t>> \in Requests
      /\ \A n \in Names :
            <<"get", n>> \in Requests /\ <<"load", n>> \in Requests
  BY TypedTexts DEF Requests
<1>6. /\ arg \in [Clients -> Names \cup {NoFile}]
      /\ copy \in [Clients -> Seq(Replies)] /\ astray \subseteq Clients
      /\ up \in [Clients -> Seq(Requests)]
      /\ <<>> \in Seq(Replies)
  BY <1>1, EmptySeq DEF TypeOK
<1>7. CASE Quit(c)
  <2>1. up' \in [Clients -> Seq(Requests)]
    BY <1>5, <1>7, SendTypes DEF Quit
  <2> QED
    BY <1>4, <1>6, <1>7, <2>1 DEF Quit
<1>8. CASE List(c)
  <2>1. up' \in [Clients -> Seq(Requests)]
    BY <1>5, <1>8, SendTypes DEF List
  <2> QED
    BY <1>4, <1>6, <1>8, <2>1 DEF List
<1>9. CASE Talk(c)
  <2>1. up' \in [Clients -> Seq(Requests)]
    BY <1>5, <1>9, SendTypes DEF Talk
  <2> QED
    BY <1>4, <1>6, <1>9, <2>1 DEF Talk
<1>10. CASE Get(c)
  <2>1. PICK n \in Names :
          /\ Send(c, <<"get", n>>)
          /\ arg' = [arg EXCEPT ![c] = n]
          /\ \/ /\ Enter(c, "get")
                /\ copy' = [copy EXCEPT ![c] = <<>>]
                /\ UNCHANGED astray
             \/ /\ Enter(c, "prompt")
                /\ astray' = astray \cup {c}
                /\ UNCHANGED copy
    BY <1>10 DEF Get
  <2>2. up' \in [Clients -> Seq(Requests)]
    BY <1>5, <2>1, SendTypes
  <2>3. /\ arg' \in [Clients -> Names \cup {NoFile}]
        /\ copy' \in [Clients -> Seq(Replies)] /\ astray' \subseteq Clients
    BY <1>6, <2>1
  <2> QED
    BY <1>4, <2>1, <2>2, <2>3
<1>11. CASE Load(c)
  <2>1. PICK n \in Names :
          /\ arg' = [arg EXCEPT ![c] = n]
          /\ \/ /\ Enter(c, "prompt")
                /\ UNCHANGED up
             \/ /\ Enter(c, "ready")
                /\ Send(c, <<"load", n>>)
          /\ UNCHANGED <<copy, astray>>
    BY <1>11 DEF Load
  <2>2. up' \in [Clients -> Seq(Requests)]
    BY <1>5, <1>6, <2>1, SendTypes
  <2>3. arg' \in [Clients -> Names \cup {NoFile}]
    BY <1>6, <2>1
  <2> QED
    BY <1>4, <1>6, <2>1, <2>2, <2>3
<1> QED
  BY <1>2, <1>3, <1>7, <1>8, <1>9, <1>10, <1>11

LEMMA ClientTypes ==
    ASSUME Types, NEW c \in Clients, Streams(c),
           Prompt(c) \/ Listing(c) \/ Downloading(c) \/ Ready(c)
              \/ Uploading(c) \/ Answer(c)
    PROVE  Types'
<1> USE DEF Goto, userVars, wireVars, serverVars
<1>1. /\ files \in [Names -> Seq(Text) \cup {NoFile}]
      /\ \A n \in Names : files[n] = NoFile \/ files[n] \in Seq(Text)
      /\ TypeOK
  BY DEF Types, TypeOK
<1>2. ASSUME NEW l \in Replies, Receive(c, l),
             NEW to \in {"prompt", "gone", "input", "list"},
             pc' = [pc EXCEPT ![c] = to],
             UNCHANGED <<entered, arg, local, copy, todo, astray, uneven, up,
                         backlog, closed, serverVars>>
      PROVE  Types'
  <2>1. down' \in [Clients -> Seq(Replies)]
    BY <1>2, ReceiveTypes
  <2>2. TypeOK'
    BY <1>1, <1>2, <2>1 DEF TypeOK
  <2> QED
    BY <1>1, <1>2, <2>2 DEF Types
<1>3. CASE Prompt(c) \/ Listing(c) \/ Answer(c)
  BY <1>2, <1>3 DEF Prompt, Listing, Answer
<1>4. CASE Downloading(c)
  <2>1. PICK l \in Replies :
          /\ Receive(c, l)
          /\ Goto(c, "get", IF l \in {Nothing, "END"} THEN "prompt" ELSE "get")
          /\ copy' = IF l \in {Nothing, "START", "END"} THEN copy
                     ELSE [copy EXCEPT ![c] = Append(@, l)]
    BY <1>4 DEF Downloading
  <2>2. down' \in [Clients -> Seq(Replies)]
    BY <2>1, ReceiveTypes
  <2>3. Append(copy[c], l) \in Seq(Replies)
    BY <1>1, Added DEF TypeOK
  <2>4. copy' \in [Clients -> Seq(Replies)]
    BY <1>1, <2>1, <2>3 DEF TypeOK
  <2>5. TypeOK'
    BY <1>1, <1>4, <2>1, <2>2, <2>4 DEF TypeOK, Downloading
  <2> QED
    BY <1>1, <1>4, <2>5 DEF Types, Downloading
<1>5. CASE Ready(c)
  <2>1. PICK l \in Replies :
          /\ Receive(c, l)
          /\ \/ /\ Goto(c, "ready", "gone") \/ Goto(c, "ready", "prompt")
                /\ UNCHANGED <<up, todo, astray, uneven>>
             \/ Measure(c)
    BY <1>5 DEF Ready
  <2>2. down' \in [Clients -> Seq(Replies)] /\ pc[c] = "ready"
    BY <2>1, ReceiveTypes DEF Measure
  <2>3. local[c][arg[c]] \in Contents
    BY <1>1, <2>2 DEF Streams, TypeOK
  <2>4. /\ up' \in [Clients -> Seq(Requests)]
        /\ todo' \in [Clients -> Seq(Text)]
        /\ astray' \subseteq Clients /\ uneven' \subseteq Clients
        /\ \/ pc' = [pc EXCEPT ![c] = "gone"] \/ pc' = [pc EXCEPT ![c] = "prompt"]
           \/ pc' = [pc EXCEPT ![c] = "send"] \/ pc' = [pc EXCEPT ![c] = "answer"]
    <3>1. CASE /\ Goto(c, "ready", "gone") \/ Goto(c, "ready", "prompt")
               /\ UNCHANGED <<up, todo, astray, uneven>>
      BY <1>1, <3>1 DEF TypeOK
    <3>2. CASE Measure(c)
      <4>7. PICK f \in Contents : f = local[c][arg[c]]
        BY <2>3
      <4>1. PICK read \in Reads(f) :
              /\ Send(c, <<"size", Len(f)>>)
              /\ todo' = [todo EXCEPT ![c] = read]
              /\ Goto(c, "ready", IF read = <<>> THEN "answer" ELSE "send")
              /\ uneven' = IF Len(read) = Len(f) THEN uneven
                           ELSE uneven \cup {c}
              /\ astray' = IF Len(read) > Len(f) THEN astray \cup {c}
                           ELSE astray
        BY <3>2, <4>7 DEF Measure
      <4>2. read \in Seq(Text) /\ <<"size", Len(f)>> \in Requests
        BY ReadsOf, TextOfContents
      <4>3. up' \in [Clients -> Seq(Requests)]
        BY <1>1, <4>1, <4>2, SendTypes
      <4>4. todo' \in [Clients -> Seq(Text)]
        BY <1>1, <4>1, <4>2 DEF TypeOK
      <4>5. astray' \subseteq Clients /\ uneven' \subseteq Clients
        BY <1>1, <4>1, Zenon DEF TypeOK
      <4>6. pc' = [pc EXCEPT ![c] = "send"] \/ pc' = [pc EXCEPT ![c] = "answer"]
        BY <4>1
      <4> QED
        BY <4>3, <4>4, <4>5, <4>6
    <3> QED
      BY <2>1, <3>1, <3>2
  <2>5. TypeOK'
    BY <1>1, <1>5, <2>2, <2>4 DEF TypeOK, Ready
  <2> QED
    BY <1>1, <1>5, <2>5 DEF Types, Ready
<1>6. CASE Uploading(c)
  <2>1. todo[c] \in Seq(Text) /\ todo[c] # <<>>
    BY <1>1, <1>6 DEF Streams, Uploading, TypeOK
  <2>2. Head(todo[c]) \in Text /\ Tail(todo[c]) \in Seq(Text)
    BY <2>1, Taken
  <2>3. <<"text", Head(todo[c])>> \in Requests
    BY <2>2 DEF Requests
  <2>4. up' \in [Clients -> Seq(Requests)]
    BY <1>6, <2>3, SendTypes DEF Uploading
  <2>5. todo' \in [Clients -> Seq(Text)]
    BY <1>1, <1>6, <2>2 DEF TypeOK, Uploading
  <2>6. pc' = [pc EXCEPT ![c] = "send"] \/ pc' = [pc EXCEPT ![c] = "answer"]
    BY <1>6 DEF Uploading
  <2>7. TypeOK'
    BY <1>1, <1>6, <2>4, <2>5, <2>6 DEF TypeOK, Uploading
  <2> QED
    BY <1>1, <1>6, <2>7 DEF Types, Uploading
<1> QED
  BY <1>3, <1>4, <1>5, <1>6

LEMMA ShortReplies ==
    /\ <<>> \in Seq(Replies) /\ <<"COMMANDS">> \in Seq(Replies)
    /\ <<"READY">> \in Seq(Replies)
    /\ \A x \in {"Failed to open directory", "File not found", "FAILED",
                 "UPLOAD DONE", "Unknown command"} :
            <<x, "COMMANDS">> \in Seq(Replies)
<1>1. /\ "COMMANDS" \in Replies /\ "READY" \in Replies
      /\ \A x \in {"Failed to open directory", "File not found", "FAILED",
                   "UPLOAD DONE", "Unknown command"} : x \in Replies
  BY RepliesAre
<1>2. \A x, y \in Replies : <<x>> \in Seq(Replies) /\ <<x, y>> \in Seq(Replies)
  OBVIOUS
<1> QED
  BY <1>1, <1>2, EmptySeq

(* What cmd_list() and cmd_get() send around the names and lines.          *)
LEMMA Framed ==
    ASSUME NEW S, NEW a \in S, NEW b \in S, NEW e \in S, NEW s \in Seq(S)
    PROVE  /\ <<a>> \o s \o <<b, e>> \in Seq(S)
           /\ Len(s) \in Nat
           /\ Len(<<a>> \o s \o <<b, e>>) = Len(s) + 3
           /\ (<<a>> \o s \o <<b, e>>)[1] = a
           /\ \A k \in 1 .. Len(s) : (<<a>> \o s \o <<b, e>>)[k + 1] = s[k]
           /\ (<<a>> \o s \o <<b, e>>)[Len(s) + 2] = b
           /\ (<<a>> \o s \o <<b, e>>)[Len(s) + 3] = e
<1>1. PICK p, q : p = <<a>> /\ q = <<b, e>>
  OBVIOUS
<1>2. /\ p \in Seq(S) /\ Len(p) = 1 /\ p[1] = a
      /\ q \in Seq(S) /\ Len(q) = 2 /\ q[1] = b /\ q[2] = e
  BY <1>1
<1>3. PICK n \in Nat : n = Len(s)
  BY LenProperties
<1>4. /\ p \o s \in Seq(S) /\ Len(p \o s) = 1 + n
      /\ \A k \in 1 .. 1 + n : (p \o s)[k] = IF k <= 1 THEN p[k] ELSE s[k - 1]
  <2>1. /\ p \o s \in Seq(S) /\ Len(p \o s) = Len(p) + Len(s)
        /\ \A k \in 1 .. Len(p) + Len(s) :
              (p \o s)[k] = IF k <= Len(p) THEN p[k] ELSE s[k - Len(p)]
    BY <1>2, ConcatProperties
  <2> QED
    BY <1>2, <1>3, <2>1
<1>5. PICK t \in Seq(S) : t = p \o s
  BY <1>4
<1>6. /\ t \o q \in Seq(S) /\ Len(t \o q) = Len(t) + Len(q)
      /\ \A k \in 1 .. Len(t) + Len(q) :
            (t \o q)[k] = IF k <= Len(t) THEN t[k] ELSE q[k - Len(t)]
  BY <1>2, ConcatProperties
<1>7. /\ Len(t) = n + 1 /\ Len(t \o q) = n + 3
      /\ \A k \in 1 .. n + 3 :
            (t \o q)[k] = IF k <= n + 1 THEN t[k] ELSE q[k - (n + 1)]
  BY <1>2, <1>3, <1>4, <1>5, <1>6
<1>8. (t \o q)[1] = a
  BY <1>2, <1>3, <1>4, <1>5, <1>7
<1>9. ASSUME NEW k \in 1 .. n PROVE (t \o q)[k + 1] = s[k]
  <2>1. /\ k + 1 \in 1 .. n + 1 /\ k + 1 \in 1 .. n + 3 /\ ~(k + 1 <= 1)
        /\ k + 1 - 1 = k
    BY <1>3
  <2>2. t[k + 1] = s[k]
    BY <1>3, <1>4, <1>5, <2>1
  <2> QED
    BY <1>3, <1>7, <2>1, <2>2
<1>10. (t \o q)[n + 2] = b /\ (t \o q)[n + 3] = e
  <2>1. /\ n + 2 \in 1 .. n + 3 /\ n + 3 \in 1 .. n + 3
        /\ ~(n + 2 <= n + 1) /\ ~(n + 3 <= n + 1)
        /\ n + 2 - (n + 1) = 1 /\ n + 3 - (n + 1) = 2
    BY <1>3
  <2> QED
    BY <1>2, <1>7, <2>1
<1>11. t \o q = <<a>> \o s \o <<b, e>>
  BY <1>1, <1>5
<1> QED
  BY <1>3, <1>6, <1>7, <1>8, <1>9, <1>10, <1>11

(* readdir() gives every name once.                                        *)
LEMMA NamesInOrder ==
    ASSUME NEW s \in SetToSeqs(Present)
    PROVE  s \in Seq(Names) /\ \A k \in 1 .. Len(s) : s[k] \in Present
<1>1. Present \subseteq Names
  BY DEF Present
<1>2. IsFiniteSet(Present)
  BY <1>1, FileAssumption, FS_Subset
<1>3. PICK m \in Nat : m = Cardinality(Present)
  BY <1>2, FS_CardinalityType
<1>4. s \in [1 .. m -> Present]
  BY <1>3 DEF SetToSeqs
<1>5. s \in Seq(Present)
  BY <1>3, <1>4, SeqDef
<1>6. Len(s) = m
  BY <1>3, <1>4
<1>7. s \in Seq(Names)
  BY <1>1, <1>5, SeqMonotonic
<1> QED
  BY <1>4, <1>6, <1>7

(* What the server stores are texts, whatever it receives.                 *)
LEMMA StoredTexts ==
    ASSUME NEW r \in Requests
    PROVE  Stored(r) \in Text
BY RequestKinds, TypedTexts DEF Stored

(* What the server receives of an upload is the next line of the file.     *)
LEMMA NextOfFile ==
    ASSUME Types, Upload, at = "data", serving \in Clients, up[serving] # <<>>,
           serving \notin uneven
    PROVE  /\ filename \in Names /\ files[filename] \in Seq(Text)
           /\ local[serving][filename] \in Contents
           /\ left \in 1 .. Len(local[serving][filename])
           /\ Len(local[serving][filename]) \in Nat
           /\ local[serving][filename][Len(local[serving][filename]) - left + 1]
                \in Text
           /\ Head(up[serving]) =
                <<"text", local[serving][filename]
                            [Len(local[serving][filename]) - left + 1]>>
           /\ ~dropped => Len(files[filename]) = Len(local[serving][filename]) - left
<1>1. /\ filename \in Names /\ Follows(serving, 0, filename, left)
      /\ files[filename] \in Seq(Text)
      /\ ~dropped => Len(files[filename]) = Len(local[serving][filename]) - left
  BY DEF Upload, Continues
<1>2. local[serving][filename] \in Contents
  BY <1>1 DEF Follows, Types, TypeOK
<1>3. PICK data \in Contents : data = local[serving][filename]
  BY <1>2
<1>4. /\ Len(data) \in Nat /\ \A k \in 1 .. Len(data) : data[k] \in Text
  BY TextOfContents
<1>5. /\ left \in Nat /\ left > 0 /\ left <= Len(data)
      /\ files[filename] \in Seq(Text) /\ up[serving] \in Seq(Requests)
  BY <1>1, <1>3 DEF Types, TypeOK, Follows
<1>6. Head(up[serving]) = up[serving][1] /\ Len(up[serving]) \in Nat
      /\ 1 \in 1 .. Len(up[serving])
  BY <1>5, Taken
<1>7. up[serving][0 + 1] = <<"text", data[Len(data) - left + 1]>>
  BY <1>1, <1>3, <1>5, <1>6 DEF Follows
<1>8. Len(data) - left + 1 \in 1 .. Len(data)
  BY <1>4, <1>5
<1> QED
  BY <1>1, <1>2, <1>3, <1>4, <1>5, <1>6, <1>7, <1>8

LEMMA ServerTypes ==
    ASSUME Types, Places, Upload, Server
    PROVE  Types'
<1> USE DEF userVars
<1>1. /\ files \in [Names -> Seq(Text) \cup {NoFile}]
      /\ \A n \in Names : files[n] = NoFile \/ files[n] \in Seq(Text)
      /\ TypeOK
  BY DEF Types, TypeOK
<1>2. CASE Accept
  <2>1. /\ backlog' \in Seq(Clients) /\ serving' \in Clients
        /\ out' \in Seq(Replies)
    BY <1>1, <1>2, Taken, ShortReplies DEF TypeOK, Accept
  <2>2. left \in Nat /\ left' = left /\ ~(left > 0) /\ at' = "command"
    BY <1>1, <1>2 DEF TypeOK, Accept, Places
  <2>3. left' \in Nat /\ (left' > 0 <=> at' = "data")
    BY <2>2
  <2>4. TypeOK'
    BY <1>1, <1>2, <2>1, <2>2, <2>3 DEF TypeOK, Accept
  <2> QED
    BY <1>1, <1>2, <2>4 DEF Types, Accept
<1>3. CASE SendLine
  <2>1. /\ out \in Seq(Replies) /\ out # <<>> /\ serving \in Clients
        /\ down \in [Clients -> Seq(Replies)]
    BY <1>1, <1>3 DEF TypeOK, SendLine
  <2>2. Tail(out) \in Seq(Replies) /\ Head(out) \in Replies
    BY <2>1, Taken
  <2>3. Append(down[serving], Head(out)) \in Seq(Replies)
    BY <2>1, <2>2, Added
  <2>4. down' \in [Clients -> Seq(Replies)]
    BY <1>3, <2>1, <2>3 DEF SendLine
  <2>5. alive' \in BOOLEAN
    BY <1>1, <1>3 DEF SendLine, TypeOK
  <2>6. TypeOK'
    BY <1>1, <1>3, <2>2, <2>4, <2>5 DEF TypeOK, SendLine
  <2> QED
    BY <1>1, <1>3, <2>6 DEF Types, SendLine
<1>4. ASSUME Takes, astray' \subseteq Clients, closed' \subseteq Clients,
             files' \in [Names -> Seq(Text) \cup {NoFile}],
             serving' \in Clients \cup {NoClient},
             at' \in {"command", "size", "data"}, out' \in Seq(Replies),
             filename' \in Names \cup {NoFile},
             begun' \in BOOLEAN, dropped' \in BOOLEAN,
             left' \in Nat, left' > 0 <=> at' = "data"
      PROVE  Types'
  <2>1. up' \in [Clients -> Seq(Requests)]
    BY <1>4, TakesTypes
  <2>2. \A n \in Names : files'[n] = NoFile \/ files'[n] \in Seq(Text)
    BY <1>4
  <2>3. /\ pc' = pc /\ entered' = entered /\ arg' = arg /\ local' = local
        /\ copy' = copy /\ todo' = todo /\ uneven' = uneven /\ down' = down
        /\ backlog' = backlog /\ alive' = alive
    BY <1>4 DEF Takes
  <2>4. TypeOK'
    BY <1>1, <1>4, <2>1, <2>2, <2>3 DEF TypeOK
  <2> QED
    BY <1>4, <2>4 DEF Types
<1>5. /\ left \in Nat /\ (left > 0 <=> at = "data")
      /\ filename \in Names \cup {NoFile}
      /\ astray \subseteq Clients /\ closed \subseteq Clients
      /\ serving \in Clients \cup {NoClient}
      /\ at \in {"command", "size", "data"} /\ out \in Seq(Replies)
      /\ begun \in BOOLEAN /\ dropped \in BOOLEAN
  BY <1>1 DEF TypeOK
<1>13. ASSUME NEW r, Request(r)
       PROVE  /\ Takes /\ begun' \in BOOLEAN
              /\ serving \in Clients /\ serving # NoClient
  BY <1>13, Receives, RequestTypes DEF Request, Takes
<1>6. CASE CmdList
  <2>1. Request(<<"list", "list">>) /\ at = "command" /\ serving # NoClient
    BY <1>6, <1>13 DEF CmdList, Command
  <2>2. out' \in Seq(Replies)
    <3>1. CASE out' = <<"Failed to open directory", "COMMANDS">>
      BY <3>1, ShortReplies
    <3>2. ASSUME NEW s \in SetToSeqs(Present),
                 out' = <<"Files:">> \o s \o <<"END", "COMMANDS">>
          PROVE  out' \in Seq(Replies)
      <4>1. s \in Seq(Names)
        BY NamesInOrder
      <4>2. s \in Seq(Replies)
        BY <4>1, RepliesAre, SeqMonotonic
      <4> QED
        BY <3>2, <4>2, RepliesAre, Framed
    <3> QED
      BY <1>6, <3>1, <3>2 DEF CmdList, Reply
  <2>3. astray' \subseteq Clients /\ UNCHANGED <<serving, closed>>
    BY <1>5, <1>6, <2>1 DEF CmdList, Reply
  <2> QED
    BY <1>1, <1>4, <1>5, <1>6, <1>13, <2>1, <2>2, <2>3 DEF CmdList
<1>7. CASE CmdGet
  <2>1. PICK n \in Names :
          /\ Command(<<"get", n>>)
          /\ \/ /\ files[n] = NoFile
                /\ Reply(<<"File not found", "COMMANDS">>)
                /\ UNCHANGED astray
             \/ /\ files[n] # NoFile
                /\ Reply(<<"START">> \o Lines(files[n]) \o <<"END", "COMMANDS">>)
                /\ astray' =
                     IF ToSet(Lines(files[n])) \cap {Nothing, "START", "END"} = {}
                     THEN astray ELSE astray \cup {serving}
          /\ UNCHANGED <<files, at, filename, left, dropped>>
    BY <1>7 DEF CmdGet
  <2>2. /\ Takes /\ begun' \in BOOLEAN /\ at = "command"
        /\ serving \in Clients /\ serving # NoClient
    BY <1>13, <2>1 DEF Command
  <2>3. out' \in Seq(Replies)
    <3>1. CASE files[n] = NoFile
      BY <2>1, <3>1, ShortReplies DEF Reply
    <3>2. CASE files[n] # NoFile
      <4>1. files[n] \in Seq(Text)
        BY <1>1, <3>2
      <4>2. Lines(files[n]) \in Seq(Replies)
        BY <4>1, LinesOf
      <4>3. <<"START">> \o Lines(files[n]) \o <<"END", "COMMANDS">> \in Seq(Replies)
        BY <4>2, RepliesAre, Framed
      <4> QED
        BY <2>1, <3>2, <4>3 DEF Reply
    <3> QED
      BY <3>1, <3>2
  <2>4. astray' \subseteq Clients /\ UNCHANGED <<serving, closed>>
    BY <1>5, <2>1, <2>2 DEF Reply
  <2> QED
    BY <1>1, <1>4, <1>5, <2>1, <2>2, <2>3, <2>4
<1>8. CASE CmdLoad
  <2>1. PICK n \in Names :
          /\ Command(<<"load", n>>)
          /\ \/ /\ Reply(<<"FAILED", "COMMANDS">>)
                /\ UNCHANGED <<files, at, filename, dropped>>
             \/ /\ files' = [files EXCEPT ![n] = <<>>]
                /\ filename' = n
                /\ at' = "size"
                /\ dropped' = FALSE
                /\ Reply(<<"READY">>)
          /\ UNCHANGED <<astray, left>>
    BY <1>8 DEF CmdLoad
  <2>2. Takes /\ begun' \in BOOLEAN /\ at = "command" /\ dropped' \in BOOLEAN
    BY <1>5, <1>13, <2>1 DEF Command
  <2>3. out' \in Seq(Replies) /\ UNCHANGED <<serving, closed>>
    BY <2>1, ShortReplies DEF Reply
  <2>4. /\ files' \in [Names -> Seq(Text) \cup {NoFile}]
        /\ filename' \in Names \cup {NoFile}
        /\ at' \in {"command", "size"}
    <3>1. <<>> \in Seq(Text)
      BY EmptySeq
    <3> QED
      BY <1>1, <1>5, <2>1, <2>2, <3>1
  <2> QED
    BY <1>4, <1>5, <2>1, <2>2, <2>3, <2>4
<1>9. CASE RecvSize
  <2>1. PICK r \in Requests :
          /\ Request(r)
          /\ \/ /\ at' = "command"
                /\ Reply(<<"COMMANDS">>) \/ Reply(<<"FAILED", "COMMANDS">>)
                /\ UNCHANGED left
             \/ /\ r[1] = "size" /\ r[2] > 0
                /\ at' = "data"
                /\ left' = r[2]
                /\ Reply(<<>>)
    BY <1>9 DEF RecvSize
  <2>2. /\ at = "size" /\ UNCHANGED <<astray, files, filename, dropped>>
        /\ Takes /\ begun' \in BOOLEAN
    BY <1>9, <1>13, <2>1 DEF RecvSize
  <2>3. out' \in Seq(Replies) /\ UNCHANGED <<serving, closed>>
    BY <2>1, ShortReplies DEF Reply
  <2>4. left' \in Nat /\ (left' > 0 <=> at' = "data")
    <3>1. CASE at' = "command" /\ UNCHANGED left
      BY <1>5, <2>2, <3>1
    <3>2. CASE r[1] = "size" /\ r[2] > 0 /\ at' = "data" /\ left' = r[2]
      <4>1. r[2] \in Nat
        BY <3>2, RequestKinds
      <4> QED
        BY <3>2, <4>1
    <3> QED
      BY <2>1, <3>1, <3>2
  <2> QED
    BY <1>1, <1>4, <1>5, <2>1, <2>2, <2>3, <2>4
<1>10. CASE RecvData
  <2>1. PICK r \in Requests :
          /\ Arrives(r)
          /\ \/ /\ files' = [files EXCEPT ![filename] = Append(@, Stored(r))]
                /\ UNCHANGED dropped
             \/ /\ dropped' = TRUE
                /\ UNCHANGED files
    BY <1>10 DEF RecvData
  <2>2. /\ at = "data" /\ UNCHANGED <<astray, filename, begun>>
        /\ left' = left - 1
        /\ at' = IF left = 1 THEN "command" ELSE "data"
        /\ Reply(IF left = 1 THEN <<"UPLOAD DONE", "COMMANDS">> ELSE <<>>)
        /\ Takes /\ dropped' \in BOOLEAN
    BY <1>5, <1>10, <2>1, Receives DEF RecvData
  <2>3. /\ out' \in Seq(Replies) /\ UNCHANGED <<serving, closed>>
    BY <2>2, ShortReplies DEF Reply
  <2>4. left \in Nat /\ left > 0
    BY <1>5, <2>2
  <2>5. left' \in Nat /\ (left' > 0 <=> at' = "data") /\ at' \in {"command", "data"}
    <3>1. left' = left - 1 /\ at' = IF left = 1 THEN "command" ELSE "data"
      BY <2>2, Zenon
    <3>2. CASE left = 1
      BY <3>1, <3>2
    <3>3. CASE left # 1
      BY <2>4, <3>1, <3>3
    <3> QED
      BY <3>2, <3>3
  <2>6. files' \in [Names -> Seq(Text) \cup {NoFile}]
    <3>1. CASE UNCHANGED files
      BY <1>1, <3>1
    <3>2. CASE files' = [files EXCEPT ![filename] = Append(@, Stored(r))]
      <4>1. /\ filename \in Names /\ files[filename] \in Seq(Text)
            /\ Stored(r) \in Text
        BY <2>2, StoredTexts DEF Upload
      <4>2. Append(files[filename], Stored(r)) \in Seq(Text)
        BY <4>1, Added
      <4> QED
        BY <1>1, <3>2, <4>1, <4>2
    <3> QED
      BY <2>1, <3>1, <3>2
  <2> QED
    BY <1>4, <1>5, <2>2, <2>3, <2>5, <2>6
<1>14. CASE BeginLine
  <2>1. Takes
    BY <1>14, Receives DEF BeginLine
  <2> QED
    BY <1>1, <1>4, <1>5, <1>14, <2>1 DEF BeginLine
<1>15. CASE UploadFails
  <2>1. /\ Takes /\ at' = "command" /\ left' = 0
        /\ out' \in Seq(Replies) /\ UNCHANGED <<serving, closed>>
    BY <1>15, Receives, ShortReplies DEF UploadFails, Reply
  <2>2. left' \in Nat /\ (left' > 0 <=> at' = "data")
    BY <2>1
  <2> QED
    BY <1>1, <1>4, <1>5, <1>15, <2>1, <2>2 DEF UploadFails
<1>11. CASE Unknown
  <2>1. Takes /\ begun' \in BOOLEAN
    BY <1>11, <1>13 DEF Unknown, Command
  <2>2. out' \in Seq(Replies) /\ UNCHANGED <<serving, closed>>
    BY <1>11, ShortReplies DEF Unknown, Reply
  <2> QED
    BY <1>1, <1>4, <1>5, <1>11, <2>1, <2>2 DEF Unknown
<1>12. CASE HangUp
  <2>1. Takes /\ begun' \in BOOLEAN /\ serving \in Clients
    BY <1>12, <1>13 DEF HangUp, Command
  <2> QED
    BY <1>1, <1>4, <1>5, <1>12, <2>1 DEF HangUp
<1> QED
  BY <1>2, <1>3, <1>6, <1>7, <1>8, <1>9, <1>10, <1>11, <1>12, <1>14, <1>15
     DEF Server

-----------------------------------------------------------------------------
(* Connections.                                                            *)

(* What an action of a connected client leaves alone.                      *)
Acts(c) ==
    /\ pc[c] \notin {"start", "gone"} /\ pc'[c] # "start"
    /\ \A d \in Clients \ {c} :
            /\ pc'[d] = pc[d] /\ arg'[d] = arg[d]
            /\ copy'[d] = copy[d] /\ todo'[d] = todo[d]
            /\ up'[d] = up[d] /\ down'[d] = down[d]
    /\ astray \subseteq astray' /\ astray' \subseteq astray \cup {c}
    /\ uneven \subseteq uneven' /\ uneven' \subseteq uneven \cup {c}
    /\ UNCHANGED <<local, backlog, closed, serverVars>>

LEMMA ReceiveFrame ==
    ASSUME Types, NEW c \in Clients, NEW l, Receive(c, l)
    PROVE  \A d \in Clients \ {c} : down'[d] = down[d]
BY DEF Receive, Types, TypeOK

LEMMA SendFrame ==
    ASSUME Types, NEW c \in Clients, NEW r, Send(c, r)
    PROVE  /\ \A d \in Clients \ {c} : up'[d] = up[d]
           /\ IF c \in closed THEN up' = up ELSE up'[c] = Append(up[c], r)
BY DEF Send, Types, TypeOK

LEMMA UserActs ==
    ASSUME Types, NEW c \in Clients,
           Quit(c) \/ List(c) \/ Get(c) \/ Load(c) \/ Talk(c) \/ Leave(c)
    PROVE  Acts(c)
<1>1. /\ pc \in [Clients -> {"start", "prompt", "input", "list", "get",
                             "ready", "send", "answer", "gone"}]
      /\ arg \in [Clients -> Names \cup {NoFile}]
      /\ copy \in [Clients -> Seq(Replies)]
  BY DEF Types, TypeOK
<1>2. CASE Leave(c)
  BY <1>1, <1>2 DEF Leave, Acts, wireVars
<1>3. CASE Quit(c) \/ List(c) \/ Talk(c)
  <2>1. PICK r : Send(c, r)
    BY <1>3 DEF Quit, List, Talk
  <2>2. \A d \in Clients \ {c} : up'[d] = up[d]
    BY <2>1, SendFrame
  <2> QED
    BY <1>1, <1>3, <2>2 DEF Quit, List, Talk, Enter, Goto, Acts
<1>4. CASE Get(c)
  <2>1. PICK r : Send(c, r)
    BY <1>4 DEF Get
  <2>2. \A d \in Clients \ {c} : up'[d] = up[d]
    BY <2>1, SendFrame
  <2> QED
    BY <1>1, <1>4, <2>2 DEF Get, Enter, Goto, Acts
<1>5. CASE Load(c)
  <2>1. up' = up \/ \E r : Send(c, r)
    BY <1>5 DEF Load
  <2>2. \A d \in Clients \ {c} : up'[d] = up[d]
    BY <2>1, SendFrame
  <2> QED
    BY <1>1, <1>5, <2>2 DEF Load, Enter, Goto, Acts
<1> QED
  BY <1>2, <1>3, <1>4, <1>5

LEMMA ClientActs ==
    ASSUME Types, NEW c \in Clients,
           Prompt(c) \/ Listing(c) \/ Downloading(c) \/ Ready(c)
              \/ Uploading(c) \/ Answer(c)
    PROVE  Acts(c)
<1>1. /\ pc \in [Clients -> {"start", "prompt", "input", "list", "get",
                             "ready", "send", "answer", "gone"}]
      /\ copy \in [Clients -> Seq(Replies)]
      /\ todo \in [Clients -> Seq(Text)]
  BY DEF Types, TypeOK
<1>2. CASE Prompt(c) \/ Listing(c) \/ Answer(c)
  <2>1. PICK l : Receive(c, l)
    BY <1>2 DEF Prompt, Listing, Answer
  <2>2. \A d \in Clients \ {c} : down'[d] = down[d]
    BY <2>1, ReceiveFrame
  <2> QED
    BY <1>1, <1>2, <2>2 DEF Prompt, Listing, Answer, Goto, Acts
<1>3. CASE Downloading(c)
  <2>1. PICK l : Receive(c, l)
    BY <1>3 DEF Downloading
  <2>2. \A d \in Clients \ {c} : down'[d] = down[d]
    BY <2>1, ReceiveFrame
  <2> QED
    BY <1>1, <1>3, <2>2 DEF Downloading, Goto, Acts
<1>4. CASE Ready(c)
  <2>1. PICK l : Receive(c, l)
    BY <1>4 DEF Ready
  <2>2. \A d \in Clients \ {c} : down'[d] = down[d]
    BY <2>1, ReceiveFrame
  <2>3. up' = up \/ \E r : Send(c, r)
    BY <1>4 DEF Ready, Measure
  <2>4. \A d \in Clients \ {c} : up'[d] = up[d]
    BY <2>3, SendFrame
  <2> QED
    BY <1>1, <1>4, <2>2, <2>4 DEF Ready, Measure, Goto, Acts
<1>5. CASE Uploading(c)
  <2>1. PICK r : Send(c, r)
    BY <1>5 DEF Uploading
  <2>2. \A d \in Clients \ {c} : up'[d] = up[d]
    BY <2>1, SendFrame
  <2> QED
    BY <1>1, <1>5, <2>2 DEF Uploading, Goto, Acts
<1> QED
  BY <1>2, <1>3, <1>4, <1>5

(* The client of a connection in the backlog can only leave.               *)
LEMMA NotWaiting ==
    ASSUME Types, Places, NEW c \in Clients,
           \/ Quit(c) \/ List(c) \/ Get(c) \/ Load(c) \/ Talk(c)
           \/ Prompt(c) \/ Listing(c) \/ Downloading(c) \/ Ready(c)
           \/ Uploading(c) \/ Answer(c)
    PROVE  ~Waiting(c)
<1>1. CASE Prompt(c)
  <2>1. down[c] # <<>> \/ c \in closed
    BY <1>1 DEF Prompt, Receive
  <2> QED
    BY <2>1 DEF Places
<1>2. CASE pc[c] \in {"input", "list", "get", "ready", "send", "answer"}
  BY <1>2 DEF Places
<1>3. Prompt(c) \/ pc[c] \in {"input", "list", "get", "ready", "send", "answer"}
  BY DEF Quit, List, Get, Load, Talk, Enter, Goto, Listing, Downloading,
         Ready, Measure, Uploading, Answer
<1> QED
  BY <1>1, <1>2, <1>3

LEMMA InitPlaces == Init => Places
BY FileAssumption DEF Init, Places, Waiting

LEMMA ActsPlaces ==
    ASSUME Types, Places, NEW c \in Clients, Acts(c),
           ~Waiting(c) \/ Leave(c)
    PROVE  Places'
<1>1. Waiting(c) => pc'[c] = "gone" /\ up'[c] = up[c] /\ down'[c] = down[c]
  BY DEF Leave, Types, TypeOK, wireVars
<1>2. \A d \in Clients : Waiting(d)' = Waiting(d)
  BY DEF Acts, Waiting
<1>3. UNCHANGED <<backlog, closed, serving, out, at>>
  BY DEF Acts, serverVars
<1>4. serving # NoClient => pc'[serving] # "start"
  BY DEF Acts, Places, Types, TypeOK
<1>5. ASSUME NEW d \in Clients, Waiting(d)
      PROVE  /\ pc'[d] \in {"prompt", "gone"} /\ d # serving /\ d \notin closed
             /\ up'[d] = <<>> /\ down'[d] = <<>>
  <2>1. CASE d = c
    BY <1>1, <1>5, <2>1 DEF Places
  <2>2. CASE d # c
    BY <1>5, <2>2 DEF Places, Acts
  <2> QED
    BY <2>1, <2>2
<1>6. ASSUME NEW d \in Clients
      PROVE  IF pc'[d] = "start"
             THEN d \notin closed /\ up'[d] = <<>> /\ down'[d] = <<>>
             ELSE Waiting(d) \/ serving = d \/ d \in closed
  <2>1. CASE d = c
    BY <2>1 DEF Places, Acts
  <2>2. CASE d # c
    BY <2>2 DEF Places, Acts
  <2> QED
    BY <2>1, <2>2
<1> QED
  BY <1>2, <1>3, <1>4, <1>5, <1>6 DEF Places

LEMMA ConnectPlaces ==
    ASSUME Types, Places, NEW c \in Clients, Connect(c)
    PROVE  Places'
<1>1. /\ pc \in [Clients -> {"start", "prompt", "input", "list", "get",
                             "ready", "send", "answer", "gone"}]
      /\ backlog \in Seq(Clients)
  BY DEF Types, TypeOK
<1>2. /\ pc[c] = "start" /\ pc'[c] = "prompt"
      /\ \A d \in Clients \ {c} : pc'[d] = pc[d]
      /\ UNCHANGED <<up, down, closed, serving, out, at>>
      /\ backlog' = Append(backlog, c)
  BY <1>1 DEF Connect, Goto, serverVars
<1>3. /\ Len(backlog) \in Nat /\ Len(backlog') = Len(backlog) + 1
      /\ \A k \in 1 .. Len(backlog) : backlog'[k] = backlog[k]
      /\ backlog'[Len(backlog) + 1] = c
  BY <1>1, <1>2, Added
<1>4. ~Waiting(c) /\ serving # c /\ c \notin closed
  <2>1. c # NoClient
    BY FileAssumption
  <2> QED
    BY <1>2, <2>1 DEF Places
<1>5. \A d \in Clients : Waiting(d)' <=> (Waiting(d) \/ d = c)
  <2>1. Waiting(c)'
    BY <1>3 DEF Waiting
  <2>2. ASSUME NEW d \in Clients, d # c PROVE Waiting(d)' <=> Waiting(d)
    BY <1>3, <2>2 DEF Waiting
  <2> QED
    BY <2>1, <2>2
<1>6. \A j, k \in 1 .. Len(backlog') : backlog'[j] = backlog'[k] => j = k
  <2>1. \A k \in 1 .. Len(backlog) : backlog[k] # c
    BY <1>4 DEF Waiting
  <2>2. \A j, k \in 1 .. Len(backlog) : backlog[j] = backlog[k] => j = k
    BY DEF Places
  <2> QED
    BY <1>3, <2>1, <2>2
<1>7. serving # NoClient => pc'[serving] # "start" /\ serving \notin closed
  BY <1>2, <1>4 DEF Places, Types, TypeOK
<1>8. ASSUME NEW d \in Clients, Waiting(d) \/ d = c
      PROVE  /\ pc'[d] \in {"prompt", "gone"} /\ d # serving /\ d \notin closed
             /\ up'[d] = <<>> /\ down'[d] = <<>>
  <2>1. CASE d = c
    BY <1>2, <1>4, <2>1 DEF Places
  <2>2. CASE d # c
    BY <1>2, <1>8, <2>2 DEF Places
  <2> QED
    BY <2>1, <2>2
<1>9. ASSUME NEW d \in Clients
      PROVE  IF pc'[d] = "start"
             THEN d \notin closed /\ up'[d] = <<>> /\ down'[d] = <<>>
             ELSE Waiting(d) \/ d = c \/ serving = d \/ d \in closed
  BY <1>2 DEF Places
<1>10. serving = NoClient => out = <<>> /\ at = "command"
  BY DEF Places
<1> QED
  BY <1>2, <1>5, <1>6, <1>7, <1>8, <1>9, <1>10 DEF Places

(* What the server's receive leaves alone; r is the first request, or the  *)
(* end of the connection.                                                  *)
LEMMA TakesFrame ==
    ASSUME Types, Takes
    PROVE  /\ serving \in Clients /\ serving # NoClient /\ out = <<>>
           /\ \A d \in Clients \ {serving} : up'[d] = up[d]
           /\ \/ /\ up[serving] # <<>> /\ up'[serving] = Tail(up[serving])
              \/ /\ up[serving] = <<>> /\ pc[serving] = "gone"
                 /\ up' = up
           /\ UNCHANGED <<userVars, uneven, down, backlog>>
<1>1. up \in [Clients -> Seq(Requests)] /\ serving \in Clients
  BY TakesTypes DEF Types, TypeOK
<1> QED
  BY <1>1 DEF Takes, userVars

LEMMA RequestFrame ==
    ASSUME Types, NEW r, Request(r)
    PROVE  /\ ~begun'
           /\ \/ /\ up[serving] # <<>>
                 /\ IF begun THEN r = <<"text", Other>> ELSE r = up[serving][1]
              \/ up[serving] = <<>> /\ r = <<"text", Nothing>>
<1>1. up[serving] \in Seq(Requests)
  BY RequestTypes DEF Types, TypeOK
<1>2. up[serving] # <<>> => Head(up[serving]) = up[serving][1]
  BY <1>1, Taken
<1> QED
  BY <1>2 DEF Request, Arrives, Ended

LEMMA ServerPlaces ==
    ASSUME Types, Places, Server
    PROVE  Places'
<1>1. CASE Accept
  <2>1. /\ backlog \in Seq(Clients) /\ backlog # <<>> /\ serving = NoClient
        /\ backlog' = Tail(backlog) /\ serving' = Head(backlog)
        /\ UNCHANGED <<userVars, up, down, closed>>
    BY <1>1 DEF Types, TypeOK, Accept
  <2>2. /\ Head(backlog) = backlog[1] /\ Head(backlog) \in Clients
        /\ Len(backlog) \in Nat /\ 1 \in 1 .. Len(backlog)
        /\ Len(backlog') = Len(backlog) - 1
        /\ \A k \in 1 .. Len(backlog') : /\ k + 1 \in 1 .. Len(backlog)
                                         /\ backlog'[k] = backlog[k + 1]
    BY <2>1, Taken
  <2>3. PICK c \in Clients : c = serving' /\ c = backlog[1] /\ Waiting(c)
    BY <2>1, <2>2 DEF Waiting
  <2>4. \A j, k \in 1 .. Len(backlog) : backlog[j] = backlog[k] => j = k
    BY DEF Places
  <2>5. \A d \in Clients : Waiting(d)' <=> (Waiting(d) /\ d # c)
    <3>1. ASSUME NEW d \in Clients, Waiting(d)' PROVE Waiting(d) /\ d # c
      <4>1. PICK k \in 1 .. Len(backlog') : backlog'[k] = d
        BY <3>1 DEF Waiting
      <4>2. k + 1 \in 1 .. Len(backlog) /\ backlog[k + 1] = d /\ k + 1 # 1
        BY <2>2, <4>1
      <4> QED
        BY <2>2, <2>3, <2>4, <4>2 DEF Waiting
    <3>2. ASSUME NEW d \in Clients, Waiting(d), d # c PROVE Waiting(d)'
      <4>1. PICK k \in 1 .. Len(backlog) : backlog[k] = d
        BY <3>2 DEF Waiting
      <4>2. k # 1
        BY <2>3, <3>2, <4>1
      <4>3. k - 1 \in 1 .. Len(backlog') /\ (k - 1) + 1 = k
        BY <2>2, <4>1, <4>2
      <4>4. backlog'[k - 1] = d
        BY <2>2, <4>1, <4>3
      <4> QED
        BY <4>3, <4>4 DEF Waiting
    <3> QED
      BY <3>1, <3>2
  <2>6. \A j, k \in 1 .. Len(backlog') : backlog'[j] = backlog'[k] => j = k
    <3>1. ASSUME NEW j \in 1 .. Len(backlog'), NEW k \in 1 .. Len(backlog'),
                 backlog'[j] = backlog'[k]
          PROVE  j = k
      <4>1. j + 1 = k + 1
        BY <2>2, <2>4, <3>1
      <4>2. j \in Int /\ k \in Int
        OBVIOUS
      <4> QED
        BY <4>1, <4>2
    <3> QED
      BY <3>1
  <2>7. pc' = pc /\ up' = up /\ down' = down /\ closed' = closed
    BY <2>1 DEF userVars
  <2>8. c # NoClient /\ pc[c] \in {"prompt", "gone"} /\ c \notin closed
    BY <2>3, FileAssumption DEF Places
  <2>9. \A d \in Clients : Waiting(d) /\ d # c =>
            /\ pc[d] \in {"prompt", "gone"} /\ d # c /\ d \notin closed
            /\ up[d] = <<>> /\ down[d] = <<>>
    BY DEF Places
  <2>10. ASSUME NEW d \in Clients
         PROVE  IF pc[d] = "start"
                THEN d \notin closed /\ up[d] = <<>> /\ down[d] = <<>>
                ELSE (Waiting(d) /\ d # c) \/ c = d \/ d \in closed
    BY <2>1, FileAssumption DEF Places
  <2> QED
    BY <2>3, <2>5, <2>6, <2>7, <2>8, <2>9, <2>10 DEF Places
<1>2. CASE SendLine
  <2>1. /\ serving \in Clients /\ \A d \in Clients \ {serving} : down'[d] = down[d]
        /\ UNCHANGED <<pc, up, backlog, closed, serving, at>>
        /\ serving # NoClient
    BY <1>2 DEF Types, TypeOK, SendLine, userVars
  <2>2. pc[serving] # "start" /\ ~Waiting(serving)
    BY <2>1 DEF Places
  <2>3. \A d \in Clients : Waiting(d)' = Waiting(d)
    BY <2>1 DEF Waiting
  <2> QED
    BY <2>1, <2>2, <2>3 DEF Places
<1>3. ASSUME Takes, UNCHANGED <<serving, closed>> PROVE Places'
  <2>1. /\ serving \in Clients /\ \A d \in Clients \ {serving} : up'[d] = up[d]
        /\ UNCHANGED <<pc, down, backlog, serving, closed>>
        /\ serving # NoClient
    BY <1>3, TakesFrame DEF userVars
  <2>2. pc[serving] # "start" /\ ~Waiting(serving)
    BY <2>1 DEF Places
  <2>3. \A d \in Clients : Waiting(d)' = Waiting(d)
    BY <2>1 DEF Waiting
  <2> QED
    BY <2>1, <2>2, <2>3 DEF Places
<1>4. CASE HangUp
  <2>1. PICK r : Request(r) /\ at = "command"
    BY <1>4 DEF HangUp, Command
  <2>2. /\ serving \in Clients /\ \A d \in Clients \ {serving} : up'[d] = up[d]
        /\ UNCHANGED <<pc, down, backlog, at, out>> /\ out = <<>>
        /\ serving # NoClient
        /\ serving' = NoClient /\ closed' = closed \cup {serving}
    BY <1>4, <2>1, Receives, TakesFrame DEF HangUp, userVars
  <2>3. pc[serving] # "start" /\ ~Waiting(serving)
    BY <2>2 DEF Places
  <2>4. \A d \in Clients : Waiting(d)' = Waiting(d)
    BY <2>2 DEF Waiting
  <2>5. NoClient \notin Clients
    BY FileAssumption
  <2>6. ASSUME NEW d \in Clients
        PROVE  IF pc[d] = "start"
               THEN d \notin closed' /\ up'[d] = <<>> /\ down[d] = <<>>
               ELSE Waiting(d) \/ d \in closed'
    BY <2>2, <2>3 DEF Places
  <2>7. ASSUME NEW d \in Clients, Waiting(d)
        PROVE  /\ pc[d] \in {"prompt", "gone"} /\ d \notin closed'
               /\ up'[d] = <<>> /\ down[d] = <<>>
    BY <2>2, <2>3, <2>7 DEF Places
  <2>8. \A j, k \in 1 .. Len(backlog) : backlog[j] = backlog[k] => j = k
    BY DEF Places
  <2> QED
    BY <2>1, <2>2, <2>4, <2>5, <2>6, <2>7, <2>8 DEF Places
<1>5. CASE CmdList \/ CmdGet \/ CmdLoad \/ RecvSize \/ Unknown
  <2>1. PICK r : Request(r)
    BY <1>5 DEF CmdList, CmdGet, CmdLoad, RecvSize, Unknown, Command
  <2>2. UNCHANGED <<serving, closed>>
    BY <1>5 DEF CmdList, CmdGet, CmdLoad, RecvSize, Unknown, Reply
  <2> QED
    BY <1>3, <2>1, <2>2, Receives
<1>6. CASE BeginLine \/ RecvData \/ UploadFails
  <2>1. Takes
    BY <1>6, Receives DEF BeginLine, RecvData, UploadFails
  <2>2. UNCHANGED <<serving, closed>>
    BY <1>6 DEF BeginLine, RecvData, UploadFails, Reply
  <2> QED
    BY <1>3, <2>1, <2>2
<1> QED
  BY <1>1, <1>2, <1>4, <1>5, <1>6 DEF Server

-----------------------------------------------------------------------------
(* Uploads.  What follows a place keeps following it.                      *)

Keeps(c) ==
    \A k, m \in Nat : \A n \in Names :
        Follows(c, k, n, m) => Follows(c, k, n, m)'

LEMMA Typed ==
    ASSUME Types, NEW c \in Clients
    PROVE  /\ up[c] \in Seq(Requests) /\ Len(up[c]) \in Nat
           /\ down[c] \in Seq(Replies) /\ Len(down[c]) \in Nat
           /\ todo[c] \in Seq(Text) /\ Len(todo[c]) \in Nat
           /\ copy[c] \in Seq(Replies) /\ Len(copy[c]) \in Nat
           /\ out \in Seq(Replies) /\ Len(out) \in Nat
           /\ left \in Nat /\ (left > 0 <=> at = "data")
           /\ \A n \in Names : local[c][n] # NoFile =>
                local[c][n] \in Contents /\ Len(local[c][n]) \in Nat
           /\ \A n \in Names : files[n] # NoFile =>
                files[n] \in Seq(Text) /\ Len(files[n]) \in Nat
<1>1. /\ up[c] \in Seq(Requests) /\ down[c] \in Seq(Replies)
      /\ todo[c] \in Seq(Text) /\ copy[c] \in Seq(Replies)
      /\ out \in Seq(Replies)
      /\ left \in Nat /\ (left > 0 <=> at = "data")
      /\ \A n \in Names : local[c][n] # NoFile => local[c][n] \in Contents
      /\ \A n \in Names : files[n] # NoFile => files[n] \in Seq(Text)
  BY DEF Types, TypeOK
<1>2. \A n \in Names : local[c][n] # NoFile => Len(local[c][n]) \in Nat
  BY <1>1, TextOfContents
<1>3. \A n \in Names : files[n] # NoFile => Len(files[n]) \in Nat
  BY <1>1, LenProperties
<1> QED
  BY <1>1, <1>2, <1>3, LenProperties

LEMMA FollowsKept ==
    ASSUME NEW c \in Clients, local' = local, up'[c] = up[c],
           pc[c] = "gone" => pc'[c] = "gone",
           pc[c] = "send" => \/ pc'[c] = "gone"
                             \/ pc'[c] = "send" /\ todo'[c] = todo[c]
    PROVE  Keeps(c)
<1>1. ASSUME NEW k \in Nat, NEW m \in Nat, NEW n \in Names,
             Follows(c, k, n, m)
      PROVE  Follows(c, k, n, m)'
  BY <1>1 DEF Follows
<1> QED
  BY <1>1 DEF Keeps

LEMMA FollowsSent ==
    ASSUME Types, NEW c \in Clients, NEW r \in Requests, local' = local,
           up'[c] = Append(up[c], r), pc[c] \notin {"send", "gone"}
    PROVE  Keeps(c)
<1>1. /\ Len(up[c]) \in Nat /\ Len(up'[c]) = Len(up[c]) + 1
      /\ \A k \in 1 .. Len(up[c]) : up'[c][k] = up[c][k]
  BY Typed, Added
<1>2. PICK x \in Nat : x = Len(up[c])
  BY <1>1
<1>3. ASSUME NEW k \in Nat, NEW m \in Nat, NEW n \in Names,
             Follows(c, k, n, m)
      PROVE  Follows(c, k, n, m)'
  <2>0. ~(k + m > Len(up[c]))
    BY <1>3 DEF Follows
  <2>1. k + m <= x
    BY <1>2, <2>0
  <2>2. /\ local[c][n] # NoFile /\ m <= Len(local[c][n])
        /\ \A j \in 1 .. m : k + j <= x =>
                up[c][k + j] =
                    <<"text", local[c][n][Len(local[c][n]) - m + j]>>
    BY <1>2, <1>3 DEF Follows
  <2>3. ASSUME NEW j \in 1 .. m
        PROVE  up'[c][k + j] =
                    <<"text", local[c][n][Len(local[c][n]) - m + j]>>
    <3>1. k + j \in 1 .. x /\ k + j <= x
      BY <2>1
    <3>2. up'[c][k + j] = up[c][k + j]
      BY <1>1, <1>2, <3>1
    <3> QED
      BY <2>2, <3>1, <3>2
  <2>4. ~(k + m > Len(up'[c]))
    BY <1>1, <1>2, <2>1
  <2> QED
    BY <2>2, <2>3, <2>4 DEF Follows
<1> QED
  BY <1>3 DEF Keeps

LEMMA FollowsSending ==
    ASSUME Types, NEW c \in Clients, local' = local, todo[c] # <<>>,
           pc[c] = "send",
           pc'[c] = IF Len(todo[c]) = 1 THEN "answer" ELSE "send",
           up'[c] = Append(up[c], <<"text", Head(todo[c])>>),
           todo'[c] = Tail(todo[c])
    PROVE  Keeps(c)
<1>1. todo[c] \in Seq(Text) /\ up[c] \in Seq(Requests)
  BY Typed
<1>2. /\ Head(todo[c]) = todo[c][1] /\ Head(todo[c]) \in Text
      /\ Len(todo[c]) \in Nat /\ 1 \in 1 .. Len(todo[c])
      /\ Len(todo'[c]) = Len(todo[c]) - 1
      /\ \A k \in 1 .. Len(todo'[c]) : /\ k + 1 \in 1 .. Len(todo[c])
                                       /\ todo'[c][k] = todo[c][k + 1]
  BY <1>1, Taken
<1>3. <<"text", Head(todo[c])>> \in Requests
  BY <1>2 DEF Requests
<1>4. /\ Len(up[c]) \in Nat /\ Len(up'[c]) = Len(up[c]) + 1
      /\ \A k \in 1 .. Len(up[c]) : up'[c][k] = up[c][k]
      /\ up'[c][Len(up[c]) + 1] = <<"text", todo[c][1]>>
  BY <1>1, <1>2, <1>3, Added
<1>5. PICK x \in Nat, y \in Nat : x = Len(up[c]) /\ y = Len(todo[c])
  BY <1>2, <1>4
<1>6. ASSUME NEW k \in Nat, NEW m \in Nat, NEW n \in Names,
             Follows(c, k, n, m)
      PROVE  Follows(c, k, n, m)'
  <2>1. /\ local[c][n] # NoFile /\ m <= Len(local[c][n])
        /\ \A j \in 1 .. m : k + j <= x =>
                up[c][k + j] =
                    <<"text", local[c][n][Len(local[c][n]) - m + j]>>
        /\ k + m > x =>
                /\ y = k + m - x
                /\ \A j \in 1 .. y :
                        todo[c][j] = local[c][n][Len(local[c][n]) - y + j]
    BY <1>5, <1>6 DEF Follows
  <2>2. PICK w \in Nat : w = Len(local[c][n])
    BY <2>1, Typed
  <2>3. ASSUME NEW j \in 1 .. m, k + j <= x + 1
        PROVE  up'[c][k + j] = <<"text", local[c][n][w - m + j]>>
    <3>1. CASE k + j <= x
      <4>1. k + j \in 1 .. x
        BY <3>1
      <4> QED
        BY <1>4, <1>5, <2>1, <2>2, <3>1, <4>1
    <3>2. CASE k + j = x + 1
      <4>1. k + m > x /\ y >= 1
        BY <1>2, <1>5, <3>2
      <4>2. y = k + m - x /\ todo[c][1] = local[c][n][w - y + 1]
        BY <2>1, <2>2, <4>1
      <4>3. y = k + m - x
        BY <4>2
      <4>4. w - y + 1 = w - m + j
        BY <3>2, <4>3
      <4>5. up'[c][k + j] = <<"text", todo[c][1]>>
        BY <1>4, <1>5, <3>2
      <4> QED
        BY <4>2, <4>4, <4>5
    <3>3. k + j <= x \/ k + j = x + 1
      BY <2>3
    <3> QED
      BY <3>1, <3>2, <3>3
  <2>4. ASSUME k + m > x + 1
        PROVE  /\ pc'[c] = "send" /\ Len(todo'[c]) = k + m - (x + 1)
               /\ \A j \in 1 .. Len(todo'[c]) :
                    todo'[c][j] = local[c][n][w - Len(todo'[c]) + j]
    <3>0. y = k + m - x /\ Len(todo'[c]) = y - 1
      <4>1. k + m > x
        BY <2>4
      <4> QED
        BY <1>2, <1>5, <2>1, <4>1
    <3>1. y = k + m - x /\ y # 1 /\ Len(todo'[c]) = y - 1
      BY <2>4, <3>0
    <3>2. ASSUME NEW j \in 1 .. y - 1
          PROVE  todo'[c][j] = local[c][n][w - (y - 1) + j]
      <4>1. /\ j + 1 \in 1 .. y /\ w - y + (j + 1) = w - (y - 1) + j
        BY <3>1
      <4>2. todo'[c][j] = todo[c][j + 1]
        BY <1>2, <1>5, <3>1
      <4>3. k + m > x
        BY <2>4
      <4> QED
        BY <2>1, <2>2, <4>1, <4>2, <4>3
    <3>3. y - 1 = k + m - (x + 1)
      BY <3>1
    <3>4. pc'[c] = "send"
      BY <1>5, <3>1
    <3> QED
      BY <3>1, <3>2, <3>3, <3>4
  <2>5. Len(up'[c]) = x + 1
    BY <1>4, <1>5
  <2> QED
    BY <2>1, <2>2, <2>3, <2>4, <2>5 DEF Follows
<1> QED
  BY <1>6 DEF Keeps

(* The server takes the first request.                                     *)
LEMMA FollowsTaken ==
    ASSUME Types, NEW c \in Clients, local' = local, up[c] # <<>>,
           up'[c] = Tail(up[c]), pc' = pc, todo' = todo
    PROVE  /\ \A k, m \in Nat : \A n \in Names :
                Follows(c, k + 1, n, m) => Follows(c, k, n, m)'
           /\ \A m \in Nat : \A n \in Names :
                Follows(c, 0, n, m + 1) => Follows(c, 0, n, m)'
<1>1. up[c] \in Seq(Requests)
  BY Typed
<1>2. /\ Len(up[c]) \in Nat /\ 1 \in 1 .. Len(up[c])
      /\ Len(up'[c]) = Len(up[c]) - 1
      /\ \A k \in 1 .. Len(up'[c]) : up'[c][k] = up[c][k + 1]
  BY <1>1, Taken
<1>3. PICK x \in Nat : x = Len(up'[c]) /\ Len(up[c]) = x + 1
  <2>1. PICK y \in Nat : y = Len(up[c]) /\ y >= 1
    BY <1>2
  <2>2. y - 1 \in Nat /\ Len(up'[c]) = y - 1 /\ y = (y - 1) + 1
    BY <1>2, <2>1
  <2> QED
    BY <2>1, <2>2
<1>4. PICK y \in Nat : y = Len(todo[c]) /\ y = Len(todo'[c])
  BY Typed
<1>5. ASSUME NEW k \in Nat, NEW m \in Nat, NEW n \in Names,
             Follows(c, k + 1, n, m)
      PROVE  Follows(c, k, n, m)'
  <2>1. /\ local[c][n] # NoFile /\ m <= Len(local[c][n])
        /\ \A j \in 1 .. m : (k + 1) + j <= x + 1 =>
                up[c][(k + 1) + j] =
                    <<"text", local[c][n][Len(local[c][n]) - m + j]>>
        /\ (k + 1) + m > x + 1 /\ pc[c] # "gone" =>
                /\ pc[c] = "send" /\ y = (k + 1) + m - (x + 1)
                /\ \A j \in 1 .. y :
                        todo[c][j] = local[c][n][Len(local[c][n]) - y + j]
    BY <1>3, <1>4, <1>5 DEF Follows
  <2>2. ASSUME NEW j \in 1 .. m, k + j <= x
        PROVE  up'[c][k + j] =
                    <<"text", local[c][n][Len(local[c][n]) - m + j]>>
    <3>1. /\ k + j \in 1 .. x /\ (k + 1) + j = (k + j) + 1
          /\ (k + 1) + j <= x + 1
      BY <2>2
    <3> QED
      BY <1>2, <1>3, <2>1, <3>1
  <2>3. /\ (k + 1) + m - (x + 1) = k + m - x
        /\ (k + 1) + m > x + 1 <=> k + m > x
    OBVIOUS
  <2> QED
    BY <1>3, <1>4, <2>1, <2>2, <2>3 DEF Follows
<1>6. ASSUME NEW m \in Nat, NEW n \in Names, Follows(c, 0, n, m + 1)
      PROVE  Follows(c, 0, n, m)'
  <2>1. /\ local[c][n] # NoFile /\ m + 1 <= Len(local[c][n])
        /\ \A j \in 1 .. m + 1 : 0 + j <= x + 1 =>
                up[c][0 + j] =
                    <<"text", local[c][n][Len(local[c][n]) - (m + 1) + j]>>
        /\ 0 + (m + 1) > x + 1 /\ pc[c] # "gone" =>
                /\ pc[c] = "send" /\ y = 0 + (m + 1) - (x + 1)
                /\ \A j \in 1 .. y :
                        todo[c][j] = local[c][n][Len(local[c][n]) - y + j]
    BY <1>3, <1>4, <1>6 DEF Follows
  <2>2. PICK w \in Nat : w = Len(local[c][n])
    BY <2>1, Typed
  <2>3. ASSUME NEW j \in 1 .. m, 0 + j <= x
        PROVE  up'[c][0 + j] = <<"text", local[c][n][w - m + j]>>
    <3>1. /\ j \in 1 .. x /\ j + 1 \in 1 .. m + 1 /\ 0 + (j + 1) <= x + 1
          /\ 0 + (j + 1) = j + 1 /\ 0 + j = j
          /\ w - (m + 1) + (j + 1) = w - m + j
      BY <2>3
    <3> QED
      BY <1>2, <1>3, <2>1, <2>2, <3>1
  <2>4. /\ 0 + (m + 1) - (x + 1) = 0 + m - x
        /\ 0 + (m + 1) > x + 1 <=> 0 + m > x
        /\ m <= w
    BY <2>1, <2>2
  <2> QED
    BY <1>3, <1>4, <2>1, <2>2, <2>3, <2>4 DEF Follows
<1> QED
  BY <1>5, <1>6

(* Other clients are not concerned.                                        *)
LEMMA StreamsOther ==
    ASSUME Types, NEW c \in Clients, NEW d \in Clients, Streams(d),
           UNCHANGED <<local>>, closed \subseteq closed', uneven \subseteq uneven',
           pc'[d] = pc[d], arg'[d] = arg[d], todo'[d] = todo[d],
           up'[d] = up[d]
    PROVE  Streams(d)'
<1>1. Keeps(d)
  BY FollowsKept
<1>2. PICK x \in Nat : x = Len(up[d])
  BY Typed
<1>3. ASSUME d \notin closed', d \notin uneven',
             NEW k \in 1 .. x - 1, NEW n \in Names,
             up[d][k] = <<"load", n>>, up[d][k + 1][1] = "size"
      PROVE  Sized(d, k + 1, n)'
  <2>1. Sized(d, k + 1, n)
    BY <1>2, <1>3 DEF Streams
  <2>2. k + 1 \in Nat /\ local[d][n] # NoFile
    BY <2>1 DEF Sized, Follows
  <2>3. Len(local[d][n]) \in Nat
    BY <2>2, Typed
  <2> QED
    BY <1>1, <2>1, <2>2, <2>3 DEF Sized, Keeps
<1>4. (d \notin closed' => d \notin closed) /\ (d \notin uneven' => d \notin uneven)
  OBVIOUS
<1> QED
  BY <1>2, <1>3, <1>4 DEF Streams

(* Nothing is sent.                                                        *)
LEMMA StreamsKept ==
    ASSUME Types, NEW c \in Clients, Streams(c), UNCHANGED <<local, closed>>,
           uneven \subseteq uneven',
           up'[c] = up[c], Keeps(c), pc'[c] \notin {"ready", "send"}
    PROVE  Streams(c)'
<1>1. PICK x \in Nat : x = Len(up[c])
  BY Typed
<1>2. ASSUME c \notin closed, c \notin uneven',
             NEW k \in 1 .. x - 1, NEW n \in Names,
             up[c][k] = <<"load", n>>, up[c][k + 1][1] = "size"
      PROVE  Sized(c, k + 1, n)'
  <2>1. Sized(c, k + 1, n)
    BY <1>1, <1>2 DEF Streams
  <2>2. k + 1 \in Nat /\ local[c][n] # NoFile
    BY <2>1 DEF Sized, Follows
  <2>3. Len(local[c][n]) \in Nat
    BY <2>2, Typed
  <2> QED
    BY <2>1, <2>2, <2>3 DEF Sized, Keeps
<1> QED
  BY <1>1, <1>2 DEF Streams

(* r is sent.                                                              *)
LEMMA StreamsSent ==
    ASSUME Types, NEW c \in Clients, NEW r \in Requests, Streams(c),
           UNCHANGED <<local, closed>>, c \notin closed, uneven \subseteq uneven',
           up'[c] = Append(up[c], r), Keeps(c),
           pc'[c] = "ready" => /\ arg'[c] \in Names
                               /\ local[c][arg'[c]] # NoFile
                               /\ r = <<"load", arg'[c]>>,
           pc'[c] = "send" => todo'[c] # <<>>,
           r[1] = "size" =>
                /\ pc[c] = "ready"
                /\ \A k \in Nat : \A n \in Names :
                    k = Len(up[c]) + 1 /\ n = arg[c] /\ c \notin uneven' =>
                        Sized(c, k, n)'
    PROVE  Streams(c)'
<1>1. PICK x \in Nat : x = Len(up[c])
  BY Typed
<1>2. /\ Len(up'[c]) = x + 1 /\ up'[c][x + 1] = r
      /\ \A k \in 1 .. x : up'[c][k] = up[c][k]
  BY <1>1, Typed, Added
<1>3. ASSUME NEW k \in 1 .. x, NEW n \in Names, c \notin uneven',
             up'[c][k] = <<"load", n>>, up'[c][k + 1][1] = "size"
      PROVE  Sized(c, k + 1, n)'
  <2>1. up[c][k] = <<"load", n>>
    BY <1>2, <1>3
  <2>2. CASE k = x
    <3>1. r[1] = "size"
      BY <1>2, <1>3, <2>2
    <3>2. pc[c] = "ready"
      BY <3>1
    <3>3. up[c] # <<>>
      BY <1>1, <2>2
    <3>4. up[c][x] = <<"load", arg[c]>>
      BY <1>1, <3>2, <3>3 DEF Streams
    <3>5. n = arg[c]
      BY <2>1, <2>2, <3>4
    <3>6. k + 1 \in Nat /\ k + 1 = Len(up[c]) + 1
      BY <1>1, <2>2
    <3> QED
      BY <1>3, <3>1, <3>5, <3>6
  <2>3. CASE k # x
    <3>1. k \in 1 .. x - 1 /\ k + 1 \in 1 .. x /\ k + 1 \in Nat
      BY <2>3
    <3>2. up[c][k + 1][1] = "size" /\ up'[c][k + 1] = up[c][k + 1]
      BY <1>2, <1>3, <3>1
    <3>3. Sized(c, k + 1, n)
      BY <1>1, <1>3, <2>1, <3>1, <3>2 DEF Streams
    <3>4. local[c][n] # NoFile
      BY <3>3 DEF Sized, Follows
    <3>5. Len(local[c][n]) \in Nat
      BY <3>4, Typed
    <3> QED
      BY <3>1, <3>2, <3>3, <3>5 DEF Sized, Keeps
  <2> QED
    BY <2>2, <2>3
<1>4. Len(up'[c]) - 1 = x
  BY <1>2
<1>5. pc'[c] = "ready" => up'[c][Len(up'[c])] = <<"load", arg'[c]>>
  BY <1>2
<1>6. /\ pc'[c] = "ready" => arg'[c] \in Names /\ local'[c][arg'[c]] # NoFile
      /\ pc'[c] = "send" => todo'[c] # <<>>
  OBVIOUS
<1> QED
  BY <1>3, <1>4, <1>5, <1>6 DEF Streams

(* What the server is receiving is not disturbed.                          *)
LEMMA UploadOther ==
    ASSUME Types, Places, Upload, NEW c \in Clients, Acts(c), serving # c
    PROVE  Upload'
<1>1. UNCHANGED <<local, files, serving, at, begun, out, filename, left, dropped>>
  BY DEF Acts, serverVars
<1>2. CASE serving = NoClient
  <2>1. out = <<>> /\ at = "command"
    BY <1>2 DEF Places
  <2> QED
    BY <1>1, <2>1 DEF Upload
<1>3. CASE serving \in Clients
  <2>1. PICK d \in Clients : d = serving /\ d # c
    BY <1>3
  <2>2. /\ up'[d] = up[d] /\ pc'[d] = pc[d] /\ arg'[d] = arg[d]
        /\ todo'[d] = todo[d] /\ (d \in uneven' <=> d \in uneven)
    BY <2>1 DEF Acts
  <2>3. \A k, m : \A n \in Names : Follows(d, k, n, m)' <=> Follows(d, k, n, m)
    BY <1>1, <2>2 DEF Follows
  <2>4. \A k : \A n \in Names : Sized(d, k, n)' <=> Sized(d, k, n)
    BY <1>1, <2>2, <2>3 DEF Sized
  <2> HIDE DEF Acts
  <2>5. PICK n : n = filename
    OBVIOUS
  <2>6. PICK l : l = left
    OBVIOUS
  <2>7. at = "size" =>
            /\ n \in Names /\ files[n] = <<>>
            /\ ~begun /\ d \notin uneven =>
               IF up[d] = <<>> THEN pc[d] = "ready" => n = arg[d]
               ELSE up[d][1][1] = "size" => Sized(d, 1, n)
    BY <2>1, <2>5 DEF Upload, Announced
  <2>8. at = "data" =>
            /\ n \in Names /\ files[n] \in Seq(Text)
            /\ d \notin uneven =>
                /\ Follows(d, 0, n, l)
                /\ ~dropped =>
                    /\ Len(files[n]) = Len(local[d][n]) - l
                    /\ \A j \in 1 .. Len(local[d][n]) - l :
                            files[n][j] = local[d][n][j]
    BY <2>1, <2>5, <2>6 DEF Upload, Continues
  <2>9. at' = "size" =>
            /\ n \in Names /\ files'[n] = <<>>
            /\ ~begun' /\ d \notin uneven' =>
               IF up'[d] = <<>> THEN pc'[d] = "ready" => n = arg'[d]
               ELSE up'[d][1][1] = "size" => Sized(d, 1, n)'
    BY <1>1, <2>2, <2>4, <2>7
  <2>10. at' = "data" =>
            /\ n \in Names /\ files'[n] \in Seq(Text)
            /\ d \notin uneven' =>
                /\ Follows(d, 0, n, l)'
                /\ ~dropped' =>
                    /\ Len(files'[n]) = Len(local'[d][n]) - l
                    /\ \A j \in 1 .. Len(local'[d][n]) - l :
                            files'[n][j] = local'[d][n][j]
    BY <1>1, <2>2, <2>3, <2>8
  <2>11. /\ at # "command" => Len(out) < 2
         /\ Len(out) > 2 => out[Len(out) - 1] = "END"
         /\ out = <<"UPLOAD DONE", "COMMANDS">> =>
                /\ filename \in Names
                /\ ~dropped /\ serving \notin uneven =>
                        files[filename] = local[serving][filename]
    BY DEF Upload
  <2>12. /\ filename' = n /\ serving' = d /\ left' = l
         /\ serving \notin uneven' => serving \notin uneven
    BY <1>1, <2>1, <2>2, <2>5, <2>6
  <2> QED
    BY <1>1, <2>1, <2>9, <2>10, <2>11, <2>12 DEF Upload, Announced, Continues
<1> QED
  BY <1>2, <1>3 DEF Types, TypeOK

(* The client being served acts: what remains to show is that the next     *)
(* request is still the one the server expects.                            *)
LEMMA UploadActs ==
    ASSUME Types, Upload, NEW c \in Clients, Acts(c), serving = c, Keeps(c),
           NEW n, n = filename,
           at = "size" /\ ~begun /\ c \notin uneven' =>
              IF up'[c] = <<>> THEN pc'[c] = "ready" => n = arg'[c]
              ELSE up'[c][1][1] = "size" => Sized(c, 1, n)'
    PROVE  Upload'
<1>1. /\ UNCHANGED <<local, files, serving, at, begun, out, filename, left, dropped>>
      /\ c \notin uneven' => c \notin uneven
  BY DEF Acts, serverVars
<1>2. PICK l \in Nat : l = left
  BY Typed
<1>3. at = "size" => n \in Names /\ files[n] = <<>>
  BY DEF Upload
<1>4. at = "data" =>
            /\ n \in Names /\ files[n] \in Seq(Text)
            /\ c \notin uneven =>
                /\ Follows(c, 0, n, l)
                /\ ~dropped =>
                    /\ Len(files[n]) = Len(local[c][n]) - l
                    /\ \A j \in 1 .. Len(local[c][n]) - l :
                            files[n][j] = local[c][n][j]
  BY <1>2 DEF Upload, Continues
<1>5. at = "data" /\ c \notin uneven' => Follows(c, 0, n, l)'
  BY <1>1, <1>2, <1>4 DEF Keeps
<1>6. /\ at # "command" => Len(out) < 2
      /\ Len(out) > 2 => out[Len(out) - 1] = "END"
      /\ out = <<"UPLOAD DONE", "COMMANDS">> =>
            /\ filename \in Names
            /\ ~dropped /\ serving \notin uneven =>
                    files[filename] = local[serving][filename]
  BY DEF Upload
<1>7. /\ filename' = n /\ serving' = c /\ left' = l /\ at' = at /\ out' = out
      /\ files' = files /\ local' = local /\ begun' = begun /\ dropped' = dropped
      /\ c \notin uneven' => c \notin uneven
  BY <1>1, <1>2
<1> HIDE DEF Acts
<1>8. at' = "size" =>
        /\ filename' \in Names /\ files'[filename'] = <<>>
        /\ ~begun' /\ serving' \notin uneven' =>
           IF up'[serving'] = <<>>
           THEN pc'[serving'] = "ready" => filename' = arg'[serving']
           ELSE up'[serving'][1][1] = "size" => Sized(serving, 1, filename)'
  BY <1>3, <1>7
<1>9. at' = "data" =>
        /\ filename' \in Names /\ files'[filename'] \in Seq(Text)
        /\ serving' \notin uneven' =>
            /\ Follows(serving, 0, filename, left)'
            /\ ~dropped' =>
                /\ Len(files'[filename']) = Len(local'[serving'][filename']) - left'
                /\ \A j \in 1 .. Len(local'[serving'][filename']) - left' :
                        files'[filename'][j] = local'[serving'][filename'][j]
  BY <1>4, <1>5, <1>7
<1> QED
  BY <1>6, <1>7, <1>8, <1>9 DEF Upload, Announced, Continues

LEMMA UploadKept ==
    ASSUME Types, Upload, NEW c \in Clients, Acts(c), serving = c, Keeps(c),
           up'[c] = up[c],
           pc'[c] = "ready" => pc[c] = "ready" /\ arg'[c] = arg[c]
    PROVE  Upload'
<1>1. PICK n : n = filename
  OBVIOUS
<1>2. ASSUME at = "size", ~begun, c \notin uneven'
      PROVE  IF up'[c] = <<>> THEN pc'[c] = "ready" => n = arg'[c]
             ELSE up'[c][1][1] = "size" => Sized(c, 1, n)'
  <2>1. /\ n \in Names
        /\ IF up[c] = <<>> THEN pc[c] = "ready" => n = arg[c]
           ELSE up[c][1][1] = "size" => Sized(c, 1, n)
    BY <1>1, <1>2 DEF Upload, Announced, Acts
  <2>2. local' = local
    BY DEF Acts
  <2>3. ASSUME Sized(c, 1, n) PROVE Sized(c, 1, n)'
    <3>1. local[c][n] # NoFile
      BY <2>3 DEF Sized, Follows
    <3>2. Len(local[c][n]) \in Nat
      BY <2>1, <3>1, Typed
    <3> QED
      BY <2>1, <2>2, <2>3, <3>2 DEF Sized, Keeps
  <2> QED
    BY <2>1, <2>3
<1> QED
  BY <1>1, <1>2, UploadActs

LEMMA UploadSent ==
    ASSUME Types, Upload, NEW c \in Clients, Acts(c), serving = c, Keeps(c),
           NEW r \in Requests, up'[c] = Append(up[c], r),
           r[1] = "size" =>
                /\ pc[c] = "ready"
                /\ \A k \in Nat : \A n \in Names :
                    k = Len(up[c]) + 1 /\ n = arg[c] /\ c \notin uneven' =>
                        Sized(c, k, n)'
    PROVE  Upload'
<1>1. PICK n : n = filename
  OBVIOUS
<1>2. PICK x \in Nat : x = Len(up[c])
  BY Typed
<1>3. /\ Len(up'[c]) = x + 1 /\ up'[c][x + 1] = r /\ up'[c] # <<>>
      /\ \A k \in 1 .. x : up'[c][k] = up[c][k]
  <2>1. PICK s \in Seq(Requests) : s = up[c]
    BY Typed
  <2>2. /\ Append(s, r) # <<>> /\ Len(Append(s, r)) = Len(s) + 1
        /\ \A k \in 1 .. Len(s) : Append(s, r)[k] = s[k]
        /\ Append(s, r)[Len(s) + 1] = r
    BY Added
  <2> QED
    BY <1>2, <2>1, <2>2
<1>4. ASSUME at = "size", ~begun, c \notin uneven', up'[c][1][1] = "size"
      PROVE  Sized(c, 1, n)'
  <2>1. /\ n \in Names
        /\ IF up[c] = <<>> THEN pc[c] = "ready" => n = arg[c]
           ELSE up[c][1][1] = "size" => Sized(c, 1, n)
    BY <1>1, <1>4 DEF Upload, Announced, Acts
  <2>2. CASE up[c] = <<>>
    <3>1. x = 0
      BY <1>2, <2>2
    <3>2. r[1] = "size"
      BY <1>3, <1>4, <3>1
    <3>3. n = arg[c]
      BY <2>1, <2>2, <3>2
    <3>4. 1 = Len(up[c]) + 1
      BY <1>2, <3>1
    <3> QED
      BY <1>4, <2>1, <3>2, <3>3, <3>4
  <2>3. CASE up[c] # <<>>
    <3>1. 1 \in 1 .. x
      BY <1>2, <2>3, Typed, Taken
    <3>2. up'[c][1] = up[c][1]
      BY <1>3, <3>1
    <3>3. Sized(c, 1, n)
      BY <1>4, <2>1, <2>3, <3>2
    <3>4. local[c][n] # NoFile
      BY <3>3 DEF Sized, Follows
    <3>5. Len(local[c][n]) \in Nat /\ local' = local
      BY <2>1, <3>4, Typed DEF Acts
    <3> QED
      BY <2>1, <3>2, <3>3, <3>5 DEF Sized, Keeps
  <2> QED
    BY <2>2, <2>3
<1> QED
  BY <1>1, <1>3, <1>4, UploadActs

-----------------------------------------------------------------------------
(* Uploads: the client's actions.                                          *)

LEMMA ActsKept ==
    ASSUME Types, Places, Upload, NEW c \in Clients, Acts(c), Streams(c),
           up'[c] = up[c], pc'[c] \notin {"ready", "send"}, pc[c] # "gone",
           pc[c] = "send" => pc'[c] = "gone"
    PROVE  Streams(c)' /\ Upload'
<1>1. local' = local /\ closed' = closed /\ uneven \subseteq uneven'
  BY DEF Acts
<1>2. Keeps(c)
  BY <1>1, FollowsKept
<1>3. Streams(c)'
  BY <1>1, <1>2, StreamsKept
<1>4. Upload'
  <2>1. CASE serving = c
    BY <1>2, <2>1, UploadKept
  <2>2. CASE serving # c
    BY <2>2, UploadOther
  <2> QED
    BY <2>1, <2>2
<1> QED
  BY <1>3, <1>4

LEMMA ActsSent ==
    ASSUME Types, Places, Upload, NEW c \in Clients, Acts(c), Streams(c),
           NEW r \in Requests, Send(c, r), Keeps(c) \/ c \in closed,
           pc'[c] = "ready" => /\ arg'[c] \in Names
                               /\ local[c][arg'[c]] # NoFile
                               /\ r = <<"load", arg'[c]>>,
           pc'[c] = "send" => todo'[c] # <<>>,
           r[1] = "size" /\ c \notin closed =>
                /\ pc[c] = "ready"
                /\ \A k \in Nat : \A n \in Names :
                    k = Len(up[c]) + 1 /\ n = arg[c] /\ c \notin uneven' =>
                        Sized(c, k, n)'
    PROVE  Streams(c)' /\ Upload'
<1>1. local' = local /\ closed' = closed /\ uneven \subseteq uneven'
  BY DEF Acts
<1>2. CASE c \in closed
  <2>1. Streams(c)'
    BY <1>1, <1>2 DEF Streams
  <2>2. serving # c
    BY <1>2, FileAssumption DEF Places
  <2> QED
    BY <2>1, <2>2, UploadOther
<1>3. CASE c \notin closed
  <2>1. up'[c] = Append(up[c], r)
    BY <1>3, SendFrame
  <2>2. Streams(c)'
    BY <1>1, <1>3, <2>1, StreamsSent
  <2>3. Upload'
    <3>1. CASE serving = c
      BY <1>3, <2>1, <3>1, UploadSent
    <3>2. CASE serving # c
      BY <3>2, UploadOther
    <3> QED
      BY <3>1, <3>2
  <2> QED
    BY <2>2, <2>3
<1> QED
  BY <1>2, <1>3

LEMMA UserStreams ==
    ASSUME Types, Places, Upload, NEW c \in Clients, Streams(c),
           Quit(c) \/ List(c) \/ Get(c) \/ Load(c) \/ Talk(c) \/ Leave(c)
    PROVE  Streams(c)' /\ Upload'
<1>1. Acts(c) /\ local' = local
  BY UserActs DEF Acts
<1>2. pc \in [Clients -> {"start", "prompt", "input", "list", "get",
                          "ready", "send", "answer", "gone"}]
      /\ arg \in [Clients -> Names \cup {NoFile}]
  BY DEF Types, TypeOK
<1>3. CASE Leave(c)
  <2>1. pc'[c] = "gone" /\ up'[c] = up[c] /\ pc[c] # "gone"
    BY <1>2, <1>3 DEF Leave, wireVars
  <2> QED
    BY <1>1, <2>1, ActsKept
<1>4. ASSUME NEW r \in Requests, Send(c, r), pc[c] = "input",
             r[1] # "size",
             pc'[c] = "ready" => /\ arg'[c] \in Names
                                 /\ local[c][arg'[c]] # NoFile
                                 /\ r = <<"load", arg'[c]>>,
             pc'[c] # "send"
      PROVE  Streams(c)' /\ Upload'
  <2>1. c \notin closed => Keeps(c)
    BY <1>1, <1>4, SendFrame, FollowsSent
  <2> QED
    BY <1>1, <1>4, <2>1, ActsSent
<1>5. /\ <<"quit", "quit">> \in Requests /\ <<"list", "list">> \in Requests
      /\ \A t \in {Other, Nothing} : <<"text", t>> \in Requests
      /\ \A n \in Names :
            <<"get", n>> \in Requests /\ <<"load", n>> \in Requests
  BY TypedTexts DEF Requests
<1>6. CASE Quit(c) \/ List(c) \/ Talk(c)
  <2>1. pc[c] = "input" /\ pc'[c] \in {"gone", "list", "answer"}
    BY <1>2, <1>6 DEF Quit, List, Talk, Enter, Goto
  <2>2. \/ Send(c, <<"quit", "quit">>) \/ Send(c, <<"list", "list">>)
        \/ \E t \in {Other, Nothing} : Send(c, <<"text", t>>)
    BY <1>6 DEF Quit, List, Talk
  <2>3. PICK r \in Requests : Send(c, r) /\ r[1] # "size"
    BY <1>5, <2>2
  <2> QED
    BY <1>4, <2>1, <2>3
<1>7. CASE Get(c)
  <2>1. PICK n \in Names : Send(c, <<"get", n>>)
    BY <1>7 DEF Get
  <2>2. pc[c] = "input" /\ pc'[c] \in {"get", "prompt"}
    BY <1>2, <1>7 DEF Get, Enter, Goto
  <2>3. <<"get", n>>[1] # "size"
    OBVIOUS
  <2> QED
    BY <1>4, <1>5, <2>1, <2>2, <2>3
<1>8. CASE Load(c)
  <2>1. PICK n \in Names :
          /\ arg' = [arg EXCEPT ![c] = n]
          /\ \/ /\ local[c][n] = NoFile
                /\ Enter(c, "prompt")
                /\ UNCHANGED up
             \/ /\ local[c][n] # NoFile
                /\ Enter(c, "ready")
                /\ Send(c, <<"load", n>>)
    BY <1>8 DEF Load
  <2>2. arg'[c] = n /\ pc[c] = "input"
    BY <1>2, <2>1 DEF Enter, Goto
  <2>3. CASE Enter(c, "prompt") /\ UNCHANGED up
    <3>1. pc'[c] = "prompt" /\ up'[c] = up[c]
      BY <1>2, <2>3 DEF Enter, Goto
    <3> QED
      BY <1>1, <2>2, <3>1, ActsKept
  <2>4. CASE /\ local[c][n] # NoFile /\ Enter(c, "ready")
             /\ Send(c, <<"load", n>>)
    <3>1. pc'[c] = "ready"
      BY <1>2, <2>4 DEF Enter, Goto
    <3>2. <<"load", n>>[1] # "size"
      OBVIOUS
    <3> QED
      BY <1>4, <1>5, <2>2, <2>4, <3>1, <3>2
  <2> QED
    BY <2>1, <2>3, <2>4
<1> QED
  BY <1>3, <1>6, <1>7, <1>8

(* The size is sent, of the file whose load was sent last.                 *)
LEMMA SizeSent ==
    ASSUME Types, Places, Upload, NEW c \in Clients, Streams(c), Acts(c),
           pc[c] = "ready",
           Send(c, <<"size", Len(local[c][arg[c]])>>),
           NEW read \in Reads(local[c][arg[c]]), todo'[c] = read,
           pc'[c] = IF read = <<>> THEN "answer" ELSE "send",
           Len(read) # Len(local[c][arg[c]]) => c \in uneven'
    PROVE  Streams(c)' /\ Upload'
<1>1. PICK n \in Names : n = arg[c] /\ local[c][n] # NoFile
  BY DEF Streams
<1>2. PICK data \in Contents : data = local[c][n]
  BY <1>1, Typed
<1>3. PICK w \in Nat : w = Len(data) /\ <<"size", w>> \in Requests
  BY TextOfContents
<1>4. Send(c, <<"size", w>>) /\ local' = local
  BY <1>1, <1>2, <1>3 DEF Acts
<1>8. c \notin uneven' => read = data
  <2>1. read \in Reads(data)
    BY <1>1, <1>2
  <2> QED
    BY <1>1, <1>2, <2>1, ReadsOf
<1>9. pc'[c] = "send" => todo'[c] # <<>>
  OBVIOUS
<1>10. pc'[c] # "ready"
  OBVIOUS
<1>5. PICK x \in Nat : x = Len(up[c])
  BY Typed
<1>6. CASE c \in closed
  BY <1>3, <1>4, <1>6, <1>9, <1>10, ActsSent
<1>7. CASE c \notin closed
  <2>1. up'[c] = Append(up[c], <<"size", w>>)
    BY <1>4, <1>7, SendFrame
  <2>2. Keeps(c)
    BY <1>3, <1>4, <2>1, FollowsSent
  <2>3. Len(up'[c]) = x + 1 /\ up'[c][x + 1] = <<"size", w>>
    BY <1>3, <1>5, <2>1, Typed, Added
  <2>4. ASSUME c \notin uneven' PROVE Sized(c, x + 1, n)'
    <3>0. read = data
      BY <1>8, <2>4
    <3>1. w > 0 => pc'[c] = "send"
      BY <1>1, <1>2, <1>3, <3>0
    <3>2. Len(todo'[c]) = w /\ Len(local'[c][n]) = w /\ todo'[c] = local'[c][n]
      BY <1>1, <1>2, <1>3, <1>4, <3>0
    <3>3. (x + 1) + w > x + 1 => w > 0
      OBVIOUS
    <3>4. \A j \in 1 .. w : ~((x + 1) + j <= x + 1)
      OBVIOUS
    <3>5. w = (x + 1) + w - (x + 1) /\ w <= w
      OBVIOUS
    <3>6. \A j \in 1 .. w : w - w + j = j
      OBVIOUS
    <3> QED
      BY <1>1, <1>4, <2>3, <3>1, <3>2, <3>3, <3>4, <3>5, <3>6
      DEF Sized, Follows
  <2>5. ASSUME NEW k \in Nat, NEW m \in Names, k = Len(up[c]) + 1, m = arg[c],
               c \notin uneven'
        PROVE  Sized(c, k, m)'
    <3>1. k = x + 1 /\ m = n
      BY <1>1, <1>5, <2>5
    <3> QED
      BY <2>4, <2>5, <3>1
  <2> QED
    BY <1>3, <1>4, <1>9, <1>10, <2>2, <2>5, ActsSent
<1> QED
  BY <1>6, <1>7

LEMMA ClientStreams ==
    ASSUME Types, Places, Upload, NEW c \in Clients, Streams(c),
           Prompt(c) \/ Listing(c) \/ Downloading(c) \/ Ready(c)
              \/ Uploading(c) \/ Answer(c)
    PROVE  Streams(c)' /\ Upload'
<1>1. Acts(c) /\ local' = local
  BY ClientActs DEF Acts
<1>2. /\ pc \in [Clients -> {"start", "prompt", "input", "list", "get",
                             "ready", "send", "answer", "gone"}]
      /\ todo \in [Clients -> Seq(Text)]
  BY DEF Types, TypeOK
<1>3. CASE Prompt(c) \/ Listing(c) \/ Downloading(c) \/ Answer(c)
  <2>1. /\ up'[c] = up[c] /\ pc'[c] \in {"gone", "input", "prompt", "list", "get"}
        /\ pc[c] \in {"prompt", "list", "get", "answer"}
    BY <1>2, <1>3 DEF Prompt, Listing, Downloading, Answer, Goto
  <2> QED
    BY <1>1, <2>1, ActsKept
<1>4. CASE Ready(c)
  <2>1. \/ /\ Goto(c, "ready", "gone") \/ Goto(c, "ready", "prompt")
           /\ UNCHANGED <<up, todo>>
        \/ Measure(c)
    BY <1>4 DEF Ready
  <2>2. CASE /\ Goto(c, "ready", "gone") \/ Goto(c, "ready", "prompt")
             /\ UNCHANGED <<up, todo>>
    <3>1. /\ up'[c] = up[c] /\ pc'[c] \in {"gone", "prompt"}
          /\ pc[c] = "ready"
      BY <1>2, <2>2 DEF Goto
    <3> QED
      BY <1>1, <3>1, ActsKept
  <2>3. CASE Measure(c)
    <3>1. PICK read \in Reads(local[c][arg[c]]) :
            /\ Send(c, <<"size", Len(local[c][arg[c]])>>)
            /\ todo' = [todo EXCEPT ![c] = read]
            /\ Goto(c, "ready", IF read = <<>> THEN "answer" ELSE "send")
            /\ uneven' = IF Len(read) = Len(local[c][arg[c]]) THEN uneven
                         ELSE uneven \cup {c}
      BY <2>3 DEF Measure
    <3>2. /\ pc[c] = "ready" /\ todo'[c] = read
          /\ pc'[c] = IF read = <<>> THEN "answer" ELSE "send"
          /\ Len(read) # Len(local[c][arg[c]]) => c \in uneven'
      BY <1>2, <3>1 DEF Goto
    <3> QED
      BY <1>1, <3>1, <3>2, SizeSent
  <2> QED
    BY <2>1, <2>2, <2>3
<1>5. CASE Uploading(c)
  <2>1. /\ pc[c] = "send" /\ todo'[c] = Tail(todo[c])
        /\ pc'[c] = IF Len(todo[c]) = 1 THEN "answer" ELSE "send"
        /\ Send(c, <<"text", Head(todo[c])>>)
        /\ todo[c] # <<>>
    BY <1>2, <1>5 DEF Uploading, Goto, Streams
  <2>2. PICK r \in Requests : r = <<"text", Head(todo[c])>>
    <3>1. Head(todo[c]) \in Text
      BY <2>1, Typed, Taken
    <3> QED
      BY <3>1 DEF Requests
  <2>3. c \notin closed => Keeps(c)
    BY <1>1, <2>1, SendFrame, FollowsSending
  <2>4. pc'[c] = "send" => todo'[c] # <<>>
    <3>1. PICK y \in Nat : y = Len(todo[c]) /\ Len(todo'[c]) = y - 1
      BY <2>1, Typed, Taken
    <3>2. ASSUME pc'[c] = "send" PROVE todo'[c] # <<>>
      <4>1. y # 1
        BY <2>1, <3>1, <3>2
      <4>2. Len(todo'[c]) # 0
        BY <3>1, <4>1
      <4> QED
        BY <4>2
    <3> QED
      BY <3>2
  <2>5. r[1] # "size" /\ pc'[c] # "ready"
    BY <2>1, <2>2
  <2> QED
    BY <1>1, <2>1, <2>2, <2>3, <2>4, <2>5, ActsSent
<1> QED
  BY <1>3, <1>4, <1>5

-----------------------------------------------------------------------------
(* Uploads: the server's actions.                                          *)

LEMMA StreamsTaken ==
    ASSUME Types, NEW c \in Clients, Streams(c), closed \subseteq closed',
           UNCHANGED <<userVars, uneven>>, up[c] # <<>>, up'[c] = Tail(up[c])
    PROVE  Streams(c)'
<1> USE DEF userVars
<1>1. PICK x \in Nat : x = Len(up'[c]) /\ Len(up[c]) = x + 1
  <2>1. PICK y \in Nat : y = Len(up[c]) /\ y >= 1 /\ Len(up'[c]) = y - 1
    BY Typed, Taken
  <2>2. y - 1 \in Nat /\ y = (y - 1) + 1
    BY <2>1
  <2> QED
    BY <2>1, <2>2
<1>2. \A k \in 1 .. x : up'[c][k] = up[c][k + 1]
  BY <1>1, Typed, Taken
<1>3. ASSUME c \notin closed', c \notin uneven',
             NEW k \in 1 .. x - 1, NEW n \in Names,
             up'[c][k] = <<"load", n>>, up'[c][k + 1][1] = "size"
      PROVE  Sized(c, k + 1, n)'
  <2>1. /\ k \in 1 .. x /\ k + 1 \in 1 .. x /\ k + 1 \in Nat
        /\ k + 1 \in 1 .. (x + 1) - 1
    OBVIOUS
  <2>2. up[c][k + 1] = <<"load", n>> /\ up[c][(k + 1) + 1][1] = "size"
    BY <1>2, <1>3, <2>1
  <2>3. Sized(c, (k + 1) + 1, n)
    BY <1>1, <1>3, <2>1, <2>2 DEF Streams
  <2>4. local[c][n] # NoFile
    BY <2>3 DEF Sized, Follows
  <2>5. Len(local[c][n]) \in Nat
    BY <2>4, Typed
  <2>6. Follows(c, k + 1, n, Len(local[c][n]))'
    BY <2>1, <2>3, <2>5, FollowsTaken DEF Sized
  <2> QED
    BY <1>2, <2>1, <2>3, <2>6 DEF Sized
<1>4. ASSUME c \notin closed', pc[c] = "ready", up'[c] # <<>>
      PROVE  up'[c][Len(up'[c])] = <<"load", arg[c]>>
  <2>1. up'[c] \in Seq(Requests)
    BY Typed, Taken
  <2>2. x \in 1 .. x
    BY <1>1, <1>4, <2>1
  <2>3. up[c][x + 1] = <<"load", arg[c]>>
    BY <1>1, <1>4 DEF Streams
  <2> QED
    BY <1>1, <1>2, <2>2, <2>3
<1> QED
  BY <1>1, <1>3, <1>4 DEF Streams

LEMMA TakesStreams ==
    ASSUME Types, Takes, closed \subseteq closed',
           NEW c \in Clients, Streams(c)
    PROVE  Streams(c)'
<1>1. /\ \A d \in Clients \ {serving} : up'[d] = up[d]
      /\ \/ up[serving] # <<>> /\ up'[serving] = Tail(up[serving])
         \/ up' = up
      /\ UNCHANGED <<userVars, uneven>>
  BY TakesFrame
<1>2. CASE up'[c] = up[c]
  BY <1>1, <1>2, StreamsOther DEF userVars
<1>3. CASE c = serving /\ up[c] # <<>> /\ up'[c] = Tail(up[c])
  BY <1>1, <1>3, StreamsTaken
<1> QED
  BY <1>1, <1>2, <1>3

LEMMA ServerStreams ==
    ASSUME Types, Server, NEW c \in Clients, Streams(c)
    PROVE  Streams(c)'
<1>1. CASE Accept \/ SendLine
  BY <1>1, StreamsOther DEF Accept, SendLine, userVars
<1>2. CASE CmdList \/ CmdGet \/ CmdLoad \/ RecvSize \/ Unknown \/ HangUp
  <2>1. PICK r : Request(r)
    BY <1>2 DEF CmdList, CmdGet, CmdLoad, RecvSize, Unknown, HangUp, Command
  <2>2. closed \subseteq closed'
    BY <1>2 DEF CmdList, CmdGet, CmdLoad, RecvSize, Unknown, HangUp, Reply
  <2> QED
    BY <2>1, <2>2, Receives, TakesStreams
<1>3. CASE BeginLine \/ RecvData \/ UploadFails
  <2>1. Takes
    BY <1>3, Receives DEF BeginLine, RecvData, UploadFails
  <2>2. closed \subseteq closed'
    BY <1>3 DEF BeginLine, RecvData, UploadFails, Reply
  <2> QED
    BY <2>1, <2>2, TakesStreams
<1> QED
  BY <1>1, <1>2, <1>3 DEF Server

(* A command that starts no upload is answered.                            *)
LEMMA Answered ==
    ASSUME at' = "command", out' \in Seq(Replies),
           Len(out') > 2 => out'[Len(out') - 1] = "END",
           out' # <<"UPLOAD DONE", "COMMANDS">>
    PROVE  Upload'
BY DEF Upload

(* cmd_uplode(): the size the client sends, if any, is that of this file.  *)
LEMMA LoadUpload ==
    ASSUME Types, Places, Upload, \A c \in Clients : Streams(c),
           NEW n \in Names, Request(<<"load", n>>),
           files'[n] = <<>>, filename' = n, at' = "size",
           out' = <<"READY">>, serving' = serving
    PROVE  Upload'
<1>1. /\ serving \in Clients
      /\ up[serving] # <<>> /\ up[serving][1] = <<"load", n>>
      /\ up'[serving] = Tail(up[serving])
      /\ UNCHANGED <<userVars, uneven>>
  <2>1. <<"load", n>> # <<"text", Nothing>> /\ <<"load", n>> # <<"text", Other>>
    OBVIOUS
  <2> QED
    BY <2>1, Receives, TakesFrame, RequestFrame
<1>2. PICK c \in Clients : c = serving /\ c \notin closed
  BY <1>1, FileAssumption DEF Places
<1>3. /\ UNCHANGED <<pc, arg, todo, local>> /\ up'[c] = Tail(up[c])
      /\ up[c] # <<>> /\ up[c][1] = <<"load", n>>
  BY <1>1, <1>2 DEF userVars
<1>4. PICK x \in Nat : x = Len(up[c])
  BY Typed
<1>5. /\ x >= 1 /\ Len(up'[c]) = x - 1
      /\ \A k \in 1 .. x - 1 : up'[c][k] = up[c][k + 1]
  BY <1>3, <1>4, Typed, Taken
<1>6. /\ at' # "data" /\ out' # <<"UPLOAD DONE", "COMMANDS">>
      /\ Len(out') < 2 /\ ~(Len(out') > 2)
  OBVIOUS
<1>7. CASE up'[c] = <<>>
  <2>1. x = 1
    BY <1>4, <1>5, <1>7
  <2>2. ASSUME pc[c] = "ready" PROVE n = arg[c]
    <3>1. up[c][x] = <<"load", arg[c]>>
      BY <1>2, <1>3, <1>4, <2>2 DEF Streams
    <3>2. <<"load", arg[c]>> = <<"load", n>>
      BY <1>3, <2>1, <3>1
    <3> QED
      BY <3>2
  <2>3. at' = "size" =>
          /\ filename' \in Names /\ files'[filename'] = <<>>
          /\ IF up'[serving'] = <<>>
             THEN pc'[serving'] = "ready" => filename' = arg'[serving']
             ELSE up'[serving'][1][1] = "size" => Sized(serving, 1, filename)'
    BY <1>2, <1>3, <1>7, <2>2
  <2> QED
    BY <1>6, <2>3 DEF Upload, Announced
<1>8. CASE up'[c] # <<>>
  <2>1. up'[c] \in Seq(Requests)
    BY <1>3, Typed, Taken
  <2>2. x - 1 # 0 /\ x - 1 \in Nat
    BY <1>4, <1>5, <1>8, <2>1, EmptySeq
  <2>3. 1 \in 1 .. x - 1
    BY <2>2
  <2>4. up'[c][1] = up[c][1 + 1]
    BY <1>5, <2>3
  <2>5. ASSUME up'[c][1][1] = "size", c \notin uneven' PROVE Sized(c, 1, n)'
    <3>1. Sized(c, 1 + 1, n)
      BY <1>1, <1>2, <1>3, <1>4, <2>3, <2>4, <2>5 DEF Streams
    <3>2. local[c][n] # NoFile
      BY <3>1 DEF Sized, Follows
    <3>3. Len(local[c][n]) \in Nat
      BY <3>2, Typed
    <3>4. Follows(c, 1, n, Len(local[c][n]))'
      BY <1>3, <3>1, <3>3, FollowsTaken DEF Sized
    <3> QED
      BY <1>3, <2>4, <3>1, <3>4 DEF Sized
  <2>6. at' = "size" =>
          /\ filename' \in Names /\ files'[filename'] = <<>>
          /\ serving' \notin uneven' =>
             IF up'[serving'] = <<>>
             THEN pc'[serving'] = "ready" => filename' = arg'[serving']
             ELSE up'[serving'][1][1] = "size" => Sized(serving, 1, filename)'
    BY <1>2, <1>8, <2>5
  <2> QED
    BY <1>6, <2>6 DEF Upload, Announced
<1> QED
  BY <1>7, <1>8

(* The size has come: the file follows.                                    *)
LEMMA SizeUpload ==
    ASSUME Types, Places, Upload, at = "size", NEW r, Request(r),
           r[1] = "size", r # <<"text", Nothing>>, r[2] > 0,
           at' = "data", left' = r[2], out' = <<>>,
           UNCHANGED <<files, filename, serving>>
    PROVE  Upload'
<1>1. /\ serving \in Clients /\ ~begun
      /\ up[serving] # <<>> /\ up[serving][1] = r
      /\ up'[serving] = Tail(up[serving])
      /\ UNCHANGED <<userVars, uneven>>
  <2>1. r # <<"text", Other>>
    OBVIOUS
  <2> QED
    BY <2>1, Receives, TakesFrame, RequestFrame
<1>2. PICK c \in Clients, n \in Names : c = serving /\ n = filename
  BY <1>1 DEF Upload
<1>11. /\ at' # "size" /\ out' # <<"UPLOAD DONE", "COMMANDS">>
       /\ Len(out') < 2 /\ ~(Len(out') > 2)
  OBVIOUS
<1>12. files[n] = <<>> /\ files' = files /\ filename' = n /\ serving' = c
       /\ files'[n] \in Seq(Text)
  BY <1>2, EmptySeq DEF Upload
<1>13. CASE serving \in uneven
  <2>1. serving' \in uneven'
    BY <1>1, <1>13
  <2> QED
    BY <1>11, <1>12, <2>1 DEF Upload
<1> SUFFICES ASSUME serving \notin uneven PROVE Upload'
  BY <1>13
<1>3. Sized(c, 1, n)
  BY <1>1, <1>2 DEF Upload, Announced
<1>4. local[c][n] # NoFile
  BY <1>3 DEF Sized, Follows
<1>5. PICK w \in Nat : w = Len(local[c][n])
  BY <1>4, Typed
<1>6. r = <<"size", w>> /\ Follows(c, 1, n, w)
  BY <1>1, <1>2, <1>3, <1>5 DEF Sized
<1>7. Follows(c, 0, n, w)'
  <2>1. Follows(c, 0 + 1, n, w)
    BY <1>6
  <2> QED
    BY <1>1, <1>2, <2>1, FollowsTaken DEF userVars
<1>8. left' = w /\ local' = local
  BY <1>1, <1>6 DEF userVars
<1>9. /\ files'[n] \in Seq(Text) /\ Len(files'[n]) = Len(local'[c][n]) - w
      /\ \A j \in 1 .. Len(local'[c][n]) - w : files'[n][j] = local'[c][n][j]
  <2>2. w - w = 0 /\ Len(files'[n]) = 0 /\ \A j \in 1 .. 0 : FALSE
    BY <1>12
  <2> QED
    BY <1>5, <1>8, <1>12, <2>2
<1>10. at' = "data" =>
        /\ filename' \in Names /\ Follows(serving, 0, filename, left)'
        /\ files'[filename'] \in Seq(Text)
        /\ Len(files'[filename']) = Len(local'[serving'][filename']) - left'
        /\ \A j \in 1 .. Len(local'[serving'][filename']) - left' :
                files'[filename'][j] = local'[serving'][filename'][j]
  BY <1>2, <1>7, <1>8, <1>9
<1> QED
  BY <1>10, <1>11 DEF Upload, Continues

(* The next line of the file, or its last one.                             *)
LEMMA DataExact ==
    ASSUME Types, Places, Upload, RecvData, serving \notin uneven
    PROVE  /\ left # 1 => Continues'
           /\ left = 1 /\ ~dropped' =>
                files'[filename'] = local'[serving'][filename']
<1>1. PICK r \in Requests :
        /\ Arrives(r)
        /\ ~dropped' => /\ files' = [files EXCEPT ![filename] = Append(@, Stored(r))]
                        /\ ~dropped
        /\ left' = left - 1
        /\ UNCHANGED <<filename, serving>> /\ at = "data"
        /\ Takes
  <2>1. PICK r \in Requests :
          /\ Arrives(r)
          /\ \/ /\ files' = [files EXCEPT ![filename] = Append(@, Stored(r))]
                /\ UNCHANGED dropped
             \/ dropped' = TRUE
    BY DEF RecvData
  <2>2. /\ left' = left - 1 /\ at = "data" /\ UNCHANGED <<filename, serving>>
        /\ UNCHANGED receiverVars
    BY DEF RecvData, Reply
  <2> QED
    BY <2>1, <2>2, Receives
<1>2. /\ serving \in Clients /\ up[serving] # <<>> /\ up[serving][1] = r
      /\ up'[serving] = Tail(up[serving])
      /\ UNCHANGED <<userVars, uneven>>
  <2>1. /\ serving \in Clients /\ up[serving] # <<>>
        /\ up'[serving] = Tail(up[serving])
        /\ UNCHANGED <<userVars, uneven>>
    BY <1>1, TakesFrame DEF Arrives
  <2>2. up[serving][1] = r
    BY <1>1, <2>1, Typed, Taken DEF Arrives
  <2> QED
    BY <2>1, <2>2
<1>3. PICK c \in Clients, n \in Names :
        /\ c = serving /\ n = filename /\ c = serving' /\ n = filename'
  BY <1>1, <1>2 DEF Upload
<1>4. PICK data \in Contents : data = local[c][n]
  BY <1>1, <1>2, <1>3, NextOfFile
<1>5. PICK w \in Nat : w = Len(data)
  BY TextOfContents
<1>6. PICK l \in Nat : l = left - 1 /\ left = l + 1
  <2>1. left \in Nat /\ left > 0
    BY <1>1, <1>3, Typed
  <2>2. left - 1 \in Nat /\ left = (left - 1) + 1
    BY <2>1
  <2> QED
    BY <2>2
<1>7. PICK f \in Seq(Text) : f = files[n]
  BY <1>1, <1>2, <1>3, NextOfFile
<1>13. local' = local /\ left' = l
  BY <1>1, <1>2, <1>6 DEF userVars
<1>16. ASSUME ~dropped'
       PROVE  \E g \in Seq(Text) :
                /\ g = files'[n] /\ Len(g) = w - l
                /\ \A j \in 1 .. w - l : g[j] = data[j]
  <2>1. PICK y \in Nat : y = Len(f) /\ y + 1 = w - l /\ w - left = y
    <3>1. Len(f) = w - left /\ Len(f) \in Nat
      BY <1>1, <1>2, <1>3, <1>4, <1>5, <1>7, <1>16, NextOfFile, LenProperties
    <3>2. Len(f) + 1 = w - l
      BY <1>6, <3>1
    <3> QED
      BY <3>1, <3>2
  <2>2. data[y + 1] \in Text /\ Stored(r) = data[y + 1]
    <3>1. /\ data[y + 1] \in Text
          /\ Head(up[serving]) = <<"text", data[y + 1]>>
      <4>1. /\ data[w - left + 1] \in Text
            /\ Head(up[serving]) = <<"text", data[w - left + 1]>>
        BY <1>1, <1>2, <1>3, <1>4, <1>5, NextOfFile
      <4> QED
        BY <2>1, <4>1
    <3>2. Head(up[serving]) = r
      BY <1>2, Typed, Taken
    <3> QED
      BY <3>1, <3>2 DEF Stored
  <2>3. \A j \in 1 .. y : f[j] = data[j]
    <3>1. \A j \in 1 .. w - left : f[j] = data[j]
      BY <1>1, <1>3, <1>4, <1>5, <1>7, <1>16 DEF Upload, Continues
    <3> QED
      BY <2>1, <3>1
  <2>4. PICK g \in Seq(Text) : g = files'[n] /\ g = Append(f, data[y + 1])
    <3>1. files'[n] = Append(f, data[y + 1])
      BY <1>1, <1>3, <1>7, <1>16, <2>2 DEF Types
    <3>2. Append(f, data[y + 1]) \in Seq(Text)
      BY <2>2, Added
    <3> QED
      BY <3>1, <3>2
  <2>5. /\ Len(g) = y + 1 /\ g[y + 1] = data[y + 1]
        /\ \A j \in 1 .. y : g[j] = f[j]
    BY <2>1, <2>2, <2>4, Added
  <2>6. ASSUME NEW j \in 1 .. y + 1 PROVE g[j] = data[j]
    <3>1. j \in 1 .. y \/ j = y + 1
      OBVIOUS
    <3> QED
      BY <2>3, <2>5, <3>1
  <2> QED
    BY <2>1, <2>4, <2>5, <2>6
<1>14. ASSUME left = 1, ~dropped'
       PROVE  files'[filename'] = local'[serving'][filename']
  <2>1. w - l = w
    BY <1>6, <1>14
  <2>2. PICK g \in Seq(Text) :
          /\ g = files'[n] /\ Len(g) = w
          /\ \A j \in 1 .. w : g[j] = data[j]
    BY <1>14, <1>16, <2>1
  <2>3. g = data
    <3>1. data \in Seq(Text)
      BY TextOfContents
    <3> QED
      BY <1>5, <2>2, <3>1, SeqEqual
  <2> QED
    BY <1>3, <1>4, <1>13, <2>2, <2>3
<1>15. ASSUME left # 1 PROVE Continues'
  <2>1. Follows(c, 0, n, l)'
    <3>1. Follows(c, 0, n, l + 1)
      BY <1>1, <1>3, <1>6 DEF Upload, Continues
    <3> QED
      BY <1>2, <1>3, <3>1, FollowsTaken DEF userVars
  <2>2. ~dropped' =>
        /\ Len(files'[filename']) = Len(local'[serving'][filename']) - left'
        /\ \A j \in 1 .. Len(local'[serving'][filename']) - left' :
                files'[filename'][j] = local'[serving'][filename'][j]
    BY <1>3, <1>4, <1>5, <1>13, <1>16
  <2>3. Follows(serving, 0, filename, left)'
    BY <1>3, <1>13, <2>1
  <2> QED
    BY <2>2, <2>3 DEF Continues
<1> QED
  BY <1>14, <1>15

LEMMA DataUpload ==
    ASSUME Types, Places, Upload, RecvData
    PROVE  Upload'
<1>1. PICK r \in Requests :
        /\ Arrives(r)
        /\ \/ files' = [files EXCEPT ![filename] = Append(@, Stored(r))]
           \/ UNCHANGED files
        /\ Takes
  BY Receives DEF RecvData
<1>2. /\ UNCHANGED <<filename, serving>> /\ at = "data"
      /\ at' = IF left = 1 THEN "command" ELSE "data"
      /\ out' = IF left = 1 THEN <<"UPLOAD DONE", "COMMANDS">> ELSE <<>>
  BY DEF RecvData, Reply
<1>3. PICK n \in Names : n = filename /\ files[n] \in Seq(Text)
  BY <1>2 DEF Upload
<1>4. files'[n] \in Seq(Text)
  <2>1. Append(files[n], Stored(r)) \in Seq(Text)
    BY <1>3, StoredTexts, Added
  <2> QED
    BY <1>1, <1>3, <2>1 DEF Types
<1>5. serving' = serving /\ uneven' = uneven /\ filename' = n
  BY <1>1, <1>2, <1>3, TakesFrame
<1>6. CASE left = 1
  <2>1. at' = "command" /\ out' = <<"UPLOAD DONE", "COMMANDS">>
    BY <1>2, <1>6
  <2>2. ~(Len(out') > 2)
    <3>1. Len(<<"UPLOAD DONE", "COMMANDS">>) = 2
      OBVIOUS
    <3>2. Len(out') = 2
      BY <2>1, <3>1
    <3> QED
      BY <3>2
  <2>3. ~dropped' /\ serving' \notin uneven' =>
            files'[filename'] = local'[serving'][filename']
    BY <1>5, <1>6, DataExact
  <2> QED
    BY <1>5, <2>1, <2>2, <2>3 DEF Upload
<1>7. CASE left # 1
  <2>1. at' = "data" /\ out' = <<>>
    BY <1>2, <1>7
  <2>2. /\ Len(out') < 2 /\ ~(Len(out') > 2)
        /\ out' # <<"UPLOAD DONE", "COMMANDS">>
    BY <2>1
  <2>3. serving' \notin uneven' => Continues'
    BY <1>5, <1>7, DataExact
  <2> QED
    BY <1>4, <1>5, <2>1, <2>2, <2>3 DEF Upload
<1> QED
  BY <1>6, <1>7

LEMMA NotMoreThanTwo == ~(1 > 2) /\ ~(2 > 2)
OBVIOUS

(* Two lines and no more: not the end of an upload.                        *)
LEMMA TwoLines ==
    ASSUME NEW x \in {"Failed to open directory", "File not found", "FAILED",
                      "Unknown command"}
    PROVE  /\ Len(<<x, "COMMANDS">>) = 2 /\ ~(Len(<<x, "COMMANDS">>) > 2)
           /\ <<x, "COMMANDS">> # <<"UPLOAD DONE", "COMMANDS">>
           /\ Len(<<"COMMANDS">>) = 1 /\ ~(Len(<<"COMMANDS">>) > 2)
           /\ <<"COMMANDS">> # <<"UPLOAD DONE", "COMMANDS">>
<1>1. Len(<<x, "COMMANDS">>) = 2 /\ Len(<<"COMMANDS">>) = 1
  OBVIOUS
<1>2. ~(Len(<<x, "COMMANDS">>) > 2) /\ ~(Len(<<"COMMANDS">>) > 2)
  BY <1>1, NotMoreThanTwo
<1>3. <<"COMMANDS">> # <<"UPLOAD DONE", "COMMANDS">>
  <2>1. Len(<<"UPLOAD DONE", "COMMANDS">>) = 2
    OBVIOUS
  <2> QED
    BY <1>1, <2>1
<1>4. <<x, "COMMANDS">> # <<"UPLOAD DONE", "COMMANDS">>
  <2>1. <<x, "COMMANDS">>[1] # <<"UPLOAD DONE", "COMMANDS">>[1]
    OBVIOUS
  <2> QED
    BY <2>1
<1> QED
  BY <1>1, <1>2, <1>3, <1>4

(* A list or a file.                                                       *)
LEMMA LongAnswer ==
    ASSUME NEW a \in Replies, NEW s \in Seq(Replies), at' = "command",
           out' = <<a>> \o s \o <<"END", "COMMANDS">>
    PROVE  Upload'
<1>1. PICK n \in Nat : n = Len(s)
  BY LenProperties
<1>2. /\ out' \in Seq(Replies) /\ Len(out') = n + 3
      /\ out'[n + 2] = "END"
  <2>1. "END" \in Replies /\ "COMMANDS" \in Replies
    BY RepliesAre
  <2>2. PICK t : t = <<a>> \o s \o <<"END", "COMMANDS">>
    OBVIOUS
  <2>3. t \in Seq(Replies) /\ Len(t) = Len(s) + 3 /\ t[Len(s) + 2] = "END"
    BY <2>1, <2>2, Framed
  <2> QED
    BY <1>1, <2>2, <2>3
<1>3. Len(out') - 1 = n + 2
  BY <1>2
<1>4. out' # <<"UPLOAD DONE", "COMMANDS">>
  <2>1. Len(<<"UPLOAD DONE", "COMMANDS">>) = 2
    OBVIOUS
  <2>2. Len(out') # 2
    BY <1>2
  <2> QED
    BY <2>1, <2>2
<1> QED
  BY <1>2, <1>3, <1>4, Answered

(* What is left to send is not mistaken for the end of an upload.          *)
LEMMA SendLineUpload ==
    ASSUME Types, Upload, SendLine
    PROVE  Upload'
<1>1. /\ out # <<>> /\ out' = Tail(out) /\ serving \in Clients
      /\ UNCHANGED <<userVars, uneven, up, files, serving, at, begun, filename,
                     left, dropped>>
  BY DEF SendLine, Types, TypeOK
<1>2. PICK x \in Nat : x = Len(out') /\ Len(out) = x + 1
  <2>1. out \in Seq(Replies)
    BY <1>1, Typed
  <2>2. PICK y \in Nat : y = Len(out) /\ y >= 1 /\ Len(out') = y - 1
    BY <1>1, <2>1, Taken
  <2>3. y - 1 \in Nat /\ y = (y - 1) + 1
    BY <2>2
  <2> QED
    BY <2>2, <2>3
<1>3. \A k \in 1 .. x : out'[k] = out[k + 1]
  BY <1>1, <1>2, Typed, Taken
<1>4. ASSUME x >= 2 PROVE out'[x - 1] = "END"
  <2>1. x - 1 \in 1 .. x /\ (x - 1) + 1 = (x + 1) - 1 /\ x + 1 > 2
    BY <1>4
  <2>2. out[(x + 1) - 1] = "END"
    BY <1>2, <2>1 DEF Upload
  <2> QED
    BY <1>3, <2>1, <2>2
<1>5. Len(out') > 2 => out'[Len(out') - 1] = "END"
  BY <1>2, <1>4
<1>6. out' # <<"UPLOAD DONE", "COMMANDS">>
  <2>1. SUFFICES ASSUME out' = <<"UPLOAD DONE", "COMMANDS">> PROVE FALSE
    OBVIOUS
  <2>2. Len(<<"UPLOAD DONE", "COMMANDS">>) = 2
    OBVIOUS
  <2>3. x = 2
    BY <1>2, <2>1, <2>2
  <2>4. out'[1] = "END"
    BY <1>4, <2>3
  <2> QED
    BY <2>1, <2>4
<1>7. at # "command" => Len(out') < 2
  <2>1. at # "command" => x + 1 < 2
    BY <1>2 DEF Upload
  <2> QED
    BY <1>2, <2>1
<1>8. PICK c \in Clients : c = serving
  BY <1>1
<1>9. PICK n, l : n = filename /\ l = left
  OBVIOUS
<1>10. /\ n = filename' /\ l = left' /\ c = serving' /\ at' = at
      /\ UNCHANGED <<pc, arg, todo, local, uneven, up, files, begun, dropped>>
  BY <1>1, <1>8, <1>9 DEF userVars
<1>11. /\ \A k, m : Follows(c, k, n, m)' <=> Follows(c, k, n, m)
       /\ \A k : Sized(c, k, n)' <=> Sized(c, k, n)
  BY <1>10 DEF Follows, Sized
<1>12. at = "size" =>
            /\ n \in Names /\ files[n] = <<>>
            /\ ~begun /\ c \notin uneven =>
               IF up[c] = <<>> THEN pc[c] = "ready" => n = arg[c]
               ELSE up[c][1][1] = "size" => Sized(c, 1, n)
  BY <1>8, <1>9 DEF Upload, Announced
<1>13. at = "data" =>
            /\ n \in Names /\ files[n] \in Seq(Text)
            /\ c \notin uneven =>
                /\ Follows(c, 0, n, l)
                /\ ~dropped =>
                    /\ Len(files[n]) = Len(local[c][n]) - l
                    /\ \A j \in 1 .. Len(local[c][n]) - l :
                            files[n][j] = local[c][n][j]
  BY <1>8, <1>9 DEF Upload, Continues
<1>14. at' = "size" =>
        /\ filename' \in Names /\ files'[filename'] = <<>>
        /\ ~begun' /\ serving' \notin uneven' =>
           IF up'[serving'] = <<>>
           THEN pc'[serving'] = "ready" => filename' = arg'[serving']
           ELSE up'[serving'][1][1] = "size" => Sized(serving, 1, filename)'
  BY <1>10, <1>11, <1>12
<1>15. at' = "data" =>
        /\ filename' \in Names /\ files'[filename'] \in Seq(Text)
        /\ serving' \notin uneven' =>
            /\ Follows(serving, 0, filename, left)'
            /\ ~dropped' =>
                /\ Len(files'[filename']) = Len(local'[serving'][filename']) - left'
                /\ \A j \in 1 .. Len(local'[serving'][filename']) - left' :
                        files'[filename'][j] = local'[serving'][filename'][j]
  BY <1>10, <1>11, <1>13
<1> QED
  BY <1>5, <1>6, <1>7, <1>10, <1>14, <1>15 DEF Upload, Announced, Continues

LEMMA ServerUpload ==
    ASSUME Types, Places, Upload, \A c \in Clients : Streams(c), Server
    PROVE  Upload'
<1>1. Types'
  BY ServerTypes
<1>2. out' \in Seq(Replies)
  BY <1>1 DEF Types, TypeOK
<1>3. ASSUME at' = "command",
             \/ out' = <<"COMMANDS">>
             \/ \E x \in {"Failed to open directory", "File not found",
                          "FAILED", "Unknown command"} : out' = <<x, "COMMANDS">>
      PROVE  Upload'
  <2>1. ~(Len(out') > 2) /\ out' # <<"UPLOAD DONE", "COMMANDS">>
    BY <1>3, TwoLines
  <2> QED
    BY <1>2, <1>3, <2>1, Answered
<1>4. CASE Accept
  BY <1>3, <1>4 DEF Accept
<1>5. CASE SendLine
  BY <1>5, SendLineUpload
<1>6. CASE CmdList
  <2>1. at' = "command"
    BY <1>6 DEF CmdList, Command
  <2>2. CASE out' = <<"Failed to open directory", "COMMANDS">>
    BY <1>3, <2>1, <2>2
  <2>3. ASSUME NEW s \in SetToSeqs(Present),
               out' = <<"Files:">> \o s \o <<"END", "COMMANDS">>
        PROVE  Upload'
    <3>1. s \in Seq(Replies)
      BY NamesInOrder, RepliesAre, SeqMonotonic
    <3> QED
      BY <2>1, <2>3, <3>1, RepliesAre, LongAnswer
  <2> QED
    BY <1>6, <2>2, <2>3 DEF CmdList, Reply
<1>7. CASE CmdGet
  <2>1. PICK n \in Names :
          \/ out' = <<"File not found", "COMMANDS">>
          \/ /\ files[n] # NoFile
             /\ out' = <<"START">> \o Lines(files[n]) \o <<"END", "COMMANDS">>
    BY <1>7 DEF CmdGet, Reply
  <2>2. at' = "command"
    BY <1>7 DEF CmdGet, Command
  <2>3. CASE out' = <<"File not found", "COMMANDS">>
    BY <1>3, <2>2, <2>3
  <2>4. CASE /\ files[n] # NoFile
             /\ out' = <<"START">> \o Lines(files[n]) \o <<"END", "COMMANDS">>
    <3>1. files[n] \in Seq(Text)
      BY <2>4 DEF Types
    <3>2. Lines(files[n]) \in Seq(Replies)
      BY <3>1, LinesOf
    <3> QED
      BY <2>2, <2>4, <3>2, RepliesAre, LongAnswer
  <2> QED
    BY <2>1, <2>3, <2>4
<1>8. CASE CmdLoad
  <2>1. PICK n \in Names :
          /\ Request(<<"load", n>>) /\ at = "command" /\ serving' = serving
          /\ \/ out' = <<"FAILED", "COMMANDS">> /\ at' = at
             \/ /\ files' = [files EXCEPT ![n] = <<>>]
                /\ filename' = n /\ at' = "size" /\ out' = <<"READY">>
    BY <1>8 DEF CmdLoad, Reply, Command
  <2>2. CASE out' = <<"FAILED", "COMMANDS">> /\ at' = at
    BY <1>3, <2>1, <2>2
  <2>3. CASE /\ files' = [files EXCEPT ![n] = <<>>]
             /\ filename' = n /\ at' = "size" /\ out' = <<"READY">>
    <3>1. files'[n] = <<>>
      BY <2>3 DEF Types
    <3> QED
      BY <2>1, <2>3, <3>1, LoadUpload
  <2> QED
    BY <2>1, <2>2, <2>3
<1>9. CASE RecvSize
  <2>1. PICK r \in Requests :
          /\ Request(r)
          /\ \/ /\ at' = "command"
                /\ out' = <<"COMMANDS">> \/ out' = <<"FAILED", "COMMANDS">>
             \/ /\ r[1] = "size" /\ r[2] > 0
                /\ at' = "data" /\ left' = r[2] /\ out' = <<>>
    BY <1>9 DEF RecvSize, Reply
  <2>2. UNCHANGED <<files, filename, serving>> /\ at = "size"
    BY <1>9 DEF RecvSize, Reply
  <2>3. CASE /\ at' = "command"
             /\ out' = <<"COMMANDS">> \/ out' = <<"FAILED", "COMMANDS">>
    BY <1>3, <2>3
  <2>4. CASE /\ r[1] = "size" /\ r[2] > 0
             /\ at' = "data" /\ left' = r[2] /\ out' = <<>>
    <3>1. r # <<"text", Nothing>>
      BY <2>4
    <3> QED
      BY <2>1, <2>2, <2>4, <3>1, SizeUpload
  <2> QED
    BY <2>1, <2>3, <2>4
<1>10. CASE RecvData
  BY <1>10, DataUpload
<1>13. CASE UploadFails
  BY <1>3, <1>13 DEF UploadFails, Reply
<1>14. CASE BeginLine
  <2>1. /\ at \in {"command", "size"} /\ begun' = TRUE /\ out = <<>>
        /\ UNCHANGED <<files, at, out, filename>>
    BY <1>14 DEF BeginLine, Arrives
  <2>2. at' = "size" => filename' \in Names /\ files'[filename'] = <<>>
    BY <2>1 DEF Upload
  <2>3. Len(out') < 2 /\ ~(Len(out') > 2) /\ out' # <<"UPLOAD DONE", "COMMANDS">>
    BY <2>1
  <2> QED
    BY <2>1, <2>2, <2>3 DEF Upload
<1>11. CASE Unknown
  <2>1. at' = "command" /\ out' = <<"Unknown command", "COMMANDS">>
    BY <1>11 DEF Unknown, Command, Reply
  <2> QED
    BY <1>3, <2>1
<1>12. CASE HangUp
  <2>1. PICK r : Request(r) /\ at = "command" /\ UNCHANGED <<at, out>>
    BY <1>12 DEF HangUp, Command
  <2>2. out' = <<>> /\ at' = "command"
    BY <2>1, Receives, TakesFrame
  <2>3. ~(Len(out') > 2) /\ out' # <<"UPLOAD DONE", "COMMANDS">>
    BY <2>2
  <2> QED
    BY <1>2, <2>2, <2>3, Answered
<1> QED
  BY <1>4, <1>5, <1>6, <1>7, <1>8, <1>9, <1>10, <1>11, <1>12, <1>13, <1>14
     DEF Server

-----------------------------------------------------------------------------
LEMMA InitTransfer == Init => Transfer
<1> SUFFICES ASSUME Init PROVE Transfer
  OBVIOUS
<1>1. Types /\ Places
  BY InitTypes, InitPlaces
<1>2. \A c \in Clients : Streams(c)
  <2>1. ASSUME NEW c \in Clients PROVE Streams(c)
    <3>1. pc[c] = "start" /\ up[c] = <<>>
      BY DEF Init
    <3>2. \A k \in 1 .. Len(up[c]) - 1 : FALSE
      BY <3>1
    <3> QED
      BY <3>1, <3>2 DEF Streams
  <2> QED
    BY <2>1
<1>3. Upload
  <2>1. at = "command" /\ out = <<>>
    BY DEF Init
  <2>2. ~(Len(out) > 2) /\ out # <<"UPLOAD DONE", "COMMANDS">>
    BY <2>1
  <2> QED
    BY <2>1, <2>2 DEF Upload
<1> QED
  BY <1>1, <1>2, <1>3 DEF Transfer

LEMMA ConnectUpload ==
    ASSUME Types, Places, Upload, \A d \in Clients : Streams(d),
           NEW c \in Clients, Connect(c)
    PROVE  Upload' /\ \A d \in Clients : Streams(d)'
<1>1. pc \in [Clients -> {"start", "prompt", "input", "list", "get",
                          "ready", "send", "answer", "gone"}]
  BY DEF Types, TypeOK
<1>2. /\ pc[c] = "start" /\ pc'[c] = "prompt"
      /\ \A d \in Clients \ {c} : pc'[d] = pc[d]
      /\ UNCHANGED <<arg, local, todo, uneven, up, closed, serverVars>>
  BY <1>1 DEF Connect, Goto
<1>3. serving # c
  BY <1>2, FileAssumption DEF Places
<1>4. ASSUME NEW d \in Clients PROVE Streams(d)'
  <2>1. CASE d = c
    <3>1. up'[c] = <<>>
      BY <1>2 DEF Places
    <3>2. \A k \in 1 .. Len(up'[c]) - 1 : FALSE
      BY <3>1
    <3> QED
      BY <1>2, <2>1, <3>1, <3>2 DEF Streams
  <2>2. CASE d # c
    BY <1>2, <2>2, StreamsOther
  <2> QED
    BY <2>1, <2>2
<1>5. Upload'
  <2>1. UNCHANGED <<local, uneven, up, arg, todo, files, serving, at, begun, out,
                    filename, left, dropped>>
    BY <1>2 DEF serverVars
  <2>2. CASE serving = NoClient
    <3>1. out = <<>> /\ at = "command"
      BY <2>2 DEF Places
    <3> QED
      BY <2>1, <3>1 DEF Upload
  <2>3. CASE serving \in Clients
    <3>1. PICK d \in Clients : d = serving /\ pc'[d] = pc[d]
      BY <1>2, <1>3, <2>3
    <3>2. PICK n, l : n = filename /\ l = left
      OBVIOUS
    <3>3. /\ n = filename' /\ l = left' /\ d = serving'
      BY <2>1, <3>1, <3>2
    <3>4. /\ \A k, m : Follows(d, k, n, m)' <=> Follows(d, k, n, m)
          /\ \A k : Sized(d, k, n)' <=> Sized(d, k, n)
      BY <2>1, <3>1 DEF Follows, Sized
    <3>5. at' = "size" =>
            /\ filename' \in Names /\ files'[filename'] = <<>>
            /\ ~begun' /\ serving' \notin uneven' =>
               IF up'[serving'] = <<>>
               THEN pc'[serving'] = "ready" => filename' = arg'[serving']
               ELSE up'[serving'][1][1] = "size" => Sized(serving, 1, filename)'
      <4>1. at = "size" =>
            /\ n \in Names /\ files[n] = <<>>
            /\ ~begun /\ d \notin uneven =>
               IF up[d] = <<>> THEN pc[d] = "ready" => n = arg[d]
               ELSE up[d][1][1] = "size" => Sized(d, 1, n)
        BY <3>1, <3>2 DEF Upload, Announced
      <4> QED
        BY <2>1, <3>1, <3>3, <3>4, <4>1
    <3>6. at' = "data" =>
            /\ filename' \in Names /\ files'[filename'] \in Seq(Text)
            /\ serving' \notin uneven' =>
                /\ Follows(serving, 0, filename, left)'
                /\ ~dropped' =>
                    /\ Len(files'[filename']) =
                            Len(local'[serving'][filename']) - left'
                    /\ \A j \in 1 .. Len(local'[serving'][filename']) - left' :
                            files'[filename'][j] = local'[serving'][filename'][j]
      <4>1. at = "data" =>
            /\ n \in Names /\ files[n] \in Seq(Text)
            /\ d \notin uneven =>
                /\ Follows(d, 0, n, l)
                /\ ~dropped =>
                    /\ Len(files[n]) = Len(local[d][n]) - l
                    /\ \A j \in 1 .. Len(local[d][n]) - l :
                            files[n][j] = local[d][n][j]
        BY <3>1, <3>2 DEF Upload, Continues
      <4> QED
        BY <2>1, <3>1, <3>3, <3>4, <4>1
    <3>7. /\ at # "command" => Len(out) < 2
          /\ Len(out) > 2 => out[Len(out) - 1] = "END"
          /\ out = <<"UPLOAD DONE", "COMMANDS">> =>
                /\ filename \in Names
                /\ ~dropped /\ serving \notin uneven =>
                        files[filename] = local[serving][filename]
      BY DEF Upload
    <3> QED
      BY <2>1, <3>5, <3>6, <3>7 DEF Upload, Announced, Continues
  <2> QED
    BY <2>2, <2>3 DEF Types, TypeOK
<1> QED
  BY <1>4, <1>5

LEMMA NextTransfer == Transfer /\ [Next]_vars => Transfer'
<1> SUFFICES ASSUME Transfer, [Next]_vars PROVE Transfer'
  OBVIOUS
<1>1. Types /\ Places /\ Upload /\ \A c \in Clients : Streams(c)
  BY DEF Transfer
<1>2. CASE Server
  <2>1. Types' /\ Places' /\ Upload'
    BY <1>1, <1>2, ServerTypes, ServerPlaces, ServerUpload
  <2>2. \A c \in Clients : Streams(c)'
    BY <1>1, <1>2, ServerStreams
  <2> QED
    BY <2>1, <2>2 DEF Transfer
<1>3. ASSUME NEW c \in Clients, Acts(c), Streams(c)' PROVE \A d \in Clients : Streams(d)'
  <2>1. ASSUME NEW d \in Clients, d # c PROVE Streams(d)'
    <3>1. /\ pc'[d] = pc[d] /\ arg'[d] = arg[d] /\ todo'[d] = todo[d]
          /\ up'[d] = up[d] /\ UNCHANGED <<local, closed>>
          /\ uneven \subseteq uneven'
      BY <1>3, <2>1 DEF Acts
    <3> QED
      BY <1>1, <3>1, StreamsOther
  <2> QED
    BY <1>3, <2>1
<1>4. ASSUME NEW c \in Clients,
             Prompt(c) \/ Listing(c) \/ Downloading(c) \/ Ready(c)
                \/ Uploading(c) \/ Answer(c)
      PROVE  Transfer'
  <2>1. Acts(c) /\ Types' /\ ~Waiting(c)
    BY <1>1, <1>4, ClientActs, ClientTypes, NotWaiting
  <2>2. Places' /\ Streams(c)' /\ Upload'
    BY <1>1, <1>4, <2>1, ActsPlaces, ClientStreams
  <2> QED
    BY <1>3, <2>1, <2>2 DEF Transfer
<1>5. ASSUME NEW c \in Clients,
             Quit(c) \/ List(c) \/ Get(c) \/ Load(c) \/ Talk(c) \/ Leave(c)
      PROVE  Transfer'
  <2>1. Acts(c) /\ Types'
    BY <1>1, <1>5, UserActs, UserTypes
  <2>2. ~Waiting(c) \/ Leave(c)
    BY <1>1, <1>5, NotWaiting
  <2>3. Places' /\ Streams(c)' /\ Upload'
    BY <1>1, <1>5, <2>1, <2>2, ActsPlaces, UserStreams
  <2> QED
    BY <1>3, <2>1, <2>3 DEF Transfer
<1>6. ASSUME NEW c \in Clients, Connect(c) PROVE Transfer'
  BY <1>1, <1>6, UserTypes, ConnectPlaces, ConnectUpload DEF Transfer
<1>7. CASE UNCHANGED vars
  <2>1. UNCHANGED <<pc, entered, arg, local, copy, todo, astray, uneven, up, down,
                    backlog, closed, files, serving, at, begun, out, filename,
                    left, dropped, alive>>
    BY <1>7 DEF vars, userVars, wireVars, serverVars
  <2>2. Types'
    BY <1>1, <2>1 DEF Types, TypeOK
  <2>3. Places'
    BY <1>1, <2>1 DEF Places, Waiting
  <2>4. \A c \in Clients : Streams(c)'
    BY <1>1, <2>1, StreamsOther
  <2>5. Upload'
    BY <1>1, <2>1 DEF Upload, Announced, Continues, Sized, Follows
  <2> QED
    BY <2>2, <2>3, <2>4, <2>5 DEF Transfer
<1> QED
  BY <1>2, <1>4, <1>5, <1>6, <1>7 DEF Next, Client, User

LEMMA NothingElse ==
    /\ Nothing # "COMMANDS" /\ Nothing # "END" /\ Nothing # "READY"
    /\ Nothing # "START" /\ Nothing # "Files:" /\ Nothing # "FAILED"
    /\ Nothing # "File not found" /\ Nothing # "UPLOAD DONE"
    /\ Nothing # "Unknown command"
BY Zenon DEF Nothing

(* The next line the client reads, when the connection is not closed.      *)
LEMMA NextLine ==
    ASSUME Types, NEW c \in Clients, NEW l, Receive(c, l), c \notin closed,
           out' = out, NEW s, s = down[c] \o out
    PROVE  /\ s \in Seq(Replies) /\ s # <<>> /\ l = s[1]
           /\ down'[c] \o out' = Tail(s)
<1>1. down \in [Clients -> Seq(Replies)] /\ out \in Seq(Replies)
  BY DEF Types, TypeOK
<1>2. down[c] # <<>> /\ l = Head(down[c]) /\ down'[c] = Tail(down[c])
  BY <1>1 DEF Receive
<1>3. /\ down[c] \o out \in Seq(Replies) /\ down[c] \o out # <<>>
      /\ (down[c] \o out)[1] = Head(down[c])
      /\ Tail(down[c] \o out) = Tail(down[c]) \o out
  BY <1>1, <1>2, FirstOfWhole
<1> QED
  BY <1>2, <1>3

(* The list or the file ends with END and COMMANDS.                        *)
LEMMA ClosesNext ==
    ASSUME NEW s \in Seq(Replies), Closes(s)
    PROVE  /\ Len(s) \in Nat /\ Len(s) >= 2 /\ s # <<>>
           /\ s[1] \in {Nothing, "END"} <=> Len(s) = 2
           /\ s[1] \in {Nothing, "END"} => Tail(s) = <<"COMMANDS">>
           /\ s[1] \notin {Nothing, "END"} => Closes(Tail(s))
<1>1. PICK n \in Nat : n = Len(s) /\ n >= 2
  BY LenProperties DEF Closes
<1>2. /\ s[n] = "COMMANDS" /\ s[n - 1] = "END"
      /\ \A k \in 1 .. n - 2 : s[k] \notin {Nothing, "END"}
  BY <1>1 DEF Closes
<1>3. s # <<>>
  BY <1>1
<1>4. /\ Tail(s) \in Seq(Replies) /\ Len(Tail(s)) = n - 1
      /\ \A k \in 1 .. n - 1 : Tail(s)[k] = s[k + 1]
  BY <1>1, <1>3, Taken
<1>5. n = 2 => s[1] = "END" /\ Tail(s) = <<"COMMANDS">>
  <2>1. ASSUME n = 2 PROVE s[1] = "END" /\ Len(Tail(s)) = 1 /\ Tail(s)[1] = "COMMANDS"
    <3>1. n - 1 = 1 /\ 1 + 1 = n /\ 1 \in 1 .. n - 1
      BY <2>1
    <3> QED
      BY <1>2, <1>4, <3>1
  <2>2. ASSUME n = 2 PROVE Tail(s) = <<"COMMANDS">>
    <3>1. PICK t \in Seq(Replies) : t = Tail(s) /\ Len(t) = 1 /\ t[1] = "COMMANDS"
      BY <1>4, <2>1, <2>2
    <3>2. <<"COMMANDS">> \in Seq(Replies) /\ Len(<<"COMMANDS">>) = 1
          /\ <<"COMMANDS">>[1] = "COMMANDS"
      BY ShortReplies
    <3>3. \A k \in 1 .. 1 : k = 1
      OBVIOUS
    <3> QED
      BY <3>1, <3>2, <3>3, SeqEqual
  <2> QED
    BY <2>1, <2>2
<1>6. ASSUME n # 2 PROVE s[1] \notin {Nothing, "END"} /\ Closes(Tail(s))
  <2>1. /\ n > 2 /\ 1 \in 1 .. n - 2 /\ n - 1 >= 2
        /\ n - 1 \in 1 .. n - 1 /\ (n - 1) + 1 = n
        /\ (n - 1) - 1 \in 1 .. n - 1 /\ ((n - 1) - 1) + 1 = n - 1
    BY <1>1, <1>6
  <2>2. ASSUME NEW k \in 1 .. (n - 1) - 2
        PROVE  Tail(s)[k] \notin {Nothing, "END"}
    <3>1. k \in 1 .. n - 1 /\ k + 1 \in 1 .. n - 2
      BY <2>1
    <3> QED
      BY <1>2, <1>4, <3>1
  <2>3. Tail(s)[n - 1] = "COMMANDS" /\ Tail(s)[(n - 1) - 1] = "END"
    BY <1>2, <1>4, <2>1
  <2> QED
    BY <1>2, <1>4, <2>1, <2>2, <2>3 DEF Closes
<1> QED
  BY <1>1, <1>3, <1>5, <1>6

-----------------------------------------------------------------------------
(* Clients in step.                                                        *)

LEMMA TalksNow ==
    ASSUME NEW c \in Clients, NEW t, t = down'[c] \o out',
           serving' = c => ~begun' /\ InStep(c, t)',
           c \in closed' => pc'[c] \in {"answer", "prompt"} /\ down'[c] = <<>>
    PROVE  Talks(c)'
BY DEF Talks

(* A client that is in a conversation is being served or was closed upon.  *)
LEMMA Served ==
    ASSUME Types, Places, NEW c \in Clients, Talks(c), ~Waiting(c),
           pc[c] \notin {"start", "gone"}
    PROVE  \/ /\ serving = c /\ c \notin closed /\ ~begun
              /\ InStep(c, down[c] \o out)
           \/ /\ serving # c /\ c \in closed
              /\ pc[c] \in {"answer", "prompt"} /\ down[c] = <<>>
<1>1. serving = c \/ c \in closed
  BY DEF Places
<1>2. serving = c => c \notin closed
  BY FileAssumption DEF Places
<1> QED
  BY <1>1, <1>2 DEF Talks

LEMMA InStepKept ==
    ASSUME NEW c \in Clients, NEW s, InStep(c, s),
           UNCHANGED <<local, files, at, left>>, c \in uneven' <=> c \in uneven,
           pc'[c] = pc[c], arg'[c] = arg[c], copy'[c] = copy[c],
           todo'[c] = todo[c], up'[c] = up[c]
    PROVE  InStep(c, s)'
<1>1. \A k : Pending(c, k) => Pending(c, k)'
  BY DEF Pending, Covers
<1>2. Pending(c, Len(todo[c])) => Pending(c, Len(todo[c]))'
  <2>1. PICK k : k = Len(todo[c])
    OBVIOUS
  <2>2. k = Len(todo'[c])
    BY <2>1
  <2>3. Pending(c, k) => Pending(c, k)'
    BY <1>1
  <2> QED
    BY <2>1, <2>2, <2>3 DEF Pending, Covers
<1>3. /\ AtPrompt(c, s) => AtPrompt(c, s)'
      /\ AtReady(c, s) => AtReady(c, s)'
      /\ AtList(c, s) => AtList(c, s)'
  BY DEF AtPrompt, AtReady, AtList
<1>4. Copying(c, s) => Copying(c, s)'
  BY DEF Copying
<1>5. AtGet(c, s) => AtGet(c, s)'
  BY <1>4 DEF AtGet
<1>6. AtAnswer(c, s) => AtAnswer(c, s)'
  BY <1>1 DEF AtAnswer
<1> QED
  BY <1>2, <1>3, <1>5, <1>6 DEF InStep

(* Other clients are not concerned.                                        *)
LEMMA TalksOther ==
    ASSUME NEW d \in Clients, Talks(d),
           UNCHANGED <<local, files, at, left, begun, out, serving, closed>>,
           d \in uneven' <=> d \in uneven,
           pc'[d] = pc[d], arg'[d] = arg[d], copy'[d] = copy[d],
           todo'[d] = todo[d], up'[d] = up[d], down'[d] = down[d]
    PROVE  Talks(d)'
<1>1. PICK t : t = down[d] \o out
  OBVIOUS
<1>2. CASE pc[d] = "gone"
  BY <1>2 DEF Talks
<1>3. CASE pc[d] # "gone"
  <2>1. serving = d => ~begun /\ InStep(d, t)
    BY <1>1, <1>3 DEF Talks
  <2>2. serving' = d => ~begun' /\ InStep(d, t)'
    BY <2>1, InStepKept
  <2>3. closed' = closed /\ t = down'[d] \o out'
    BY <1>1
  <2>4. d \in closed => pc[d] \in {"answer", "prompt"} /\ down[d] = <<>>
    BY <1>3 DEF Talks
  <2> QED
    BY <2>2, <2>3, <2>4, TalksNow
<1> QED
  BY <1>2, <1>3

LEMMA CopyingNow ==
    ASSUME NEW c \in Clients, NEW data, NEW w, NEW t, Closes(t),
           files'[arg'[c]] # NoFile, data = Lines(files'[arg'[c]]),
           w = copy'[c], Rest(data, w, t)
    PROVE  Copying(c, t)'
BY DEF Copying

(* The copy grows by the line that is read, unless that is START.          *)
LEMMA CopyingNext ==
    ASSUME Types, NEW c \in Clients, NEW s \in Seq(Replies), arg[c] \in Names,
           Copying(c, s), s[1] \notin {Nothing, "END"},
           UNCHANGED files, arg'[c] = arg[c],
           copy'[c] = IF s[1] = "START" THEN copy[c]
                      ELSE Append(copy[c], s[1]),
           NEW t, t = Tail(s)
    PROVE  Copying(c, t)'
<1>1. PICK data : data = Lines(files[arg[c]]) /\ data = Lines(files'[arg'[c]])
  OBVIOUS
<1>2. /\ files[arg[c]] # NoFile /\ files'[arg'[c]] # NoFile
      /\ Closes(s)
  BY DEF Copying
<1>3. PICK m \in Nat : m = Len(data)
  <2>1. files[arg[c]] \in Seq(Text)
    BY <1>2, Typed
  <2> QED
    BY <1>1, <2>1, LinesOf
<1>4. PICK i \in Nat : i = Len(copy[c])
  BY Typed
<1>5. /\ s # <<>> /\ Closes(t) /\ Len(s) # 2 /\ Len(s) >= 2
  BY <1>2, ClosesNext
<1>6. PICK n \in Nat : /\ n = Len(s) /\ n > 2
                       /\ \A k \in 1 .. n - 1 : t[k] = s[k + 1]
                       /\ Len(t) = n - 1
  <2>1. PICK n \in Nat : n = Len(s)
    BY LenProperties
  <2>2. /\ Len(t) = n - 1
        /\ \A k \in 1 .. n - 1 : t[k] = s[k + 1]
    BY <1>5, <2>1, Taken
  <2>3. n # 2 /\ n >= 2
    BY <1>5, <2>1
  <2>4. n > 2
    BY <2>3
  <2> QED
    BY <2>1, <2>2, <2>4
<1>7. CASE /\ n = m + 3 /\ s[1] = "START" /\ copy[c] = <<>>
           /\ \A j \in 1 .. m : data[j] = s[j + 1] /\ data[j] # "START"
  <2>1. copy'[c] = <<>> /\ Len(copy'[c]) = 0
    BY <1>7
  <2>2. Len(t) = m - 0 + 2
    BY <1>6, <1>7
  <2>3. ASSUME NEW j \in 1 .. m
        PROVE  data[j] # "START" /\ ~(j <= 0) /\ data[j] = t[j - 0]
    <3>1. j \in 1 .. n - 1 /\ j - 0 = j
      BY <1>7
    <3> QED
      BY <1>6, <1>7, <3>1
  <2>4. PICK w : w = copy'[c] /\ Len(w) = 0
    BY <2>1
  <2>5. Rest(data, w, t)
    BY <1>3, <2>2, <2>3, <2>4 DEF Rest
  <2> QED
    BY <1>1, <1>2, <1>5, <2>4, <2>5, CopyingNow
<1>8. CASE /\ n = m - i + 2
           /\ \A j \in 1 .. m :
                    /\ data[j] # "START"
                    /\ data[j] = IF j <= i THEN copy[c][j] ELSE s[j - i]
  <2>1. i + 1 \in 1 .. m /\ ~(i + 1 <= i) /\ (i + 1) - i = 1
    BY <1>6, <1>8
  <2>2. data[i + 1] = s[1] /\ s[1] # "START"
    BY <1>8, <2>1
  <2>3. copy'[c] = Append(copy[c], s[1]) /\ s[1] \in Replies
    BY <1>5, <2>2, Taken
  <2>4. /\ Len(copy'[c]) = i + 1 /\ copy'[c][i + 1] = s[1]
        /\ \A j \in 1 .. i : copy'[c][j] = copy[c][j]
    BY <1>4, <2>3, Typed, Added
  <2>5. Len(t) = m - (i + 1) + 2
    <3>1. (m - i + 2) - 1 = m - (i + 1) + 2
      OBVIOUS
    <3> QED
      BY <1>6, <1>8, <3>1
  <2>6. ASSUME NEW j \in 1 .. m
        PROVE  /\ data[j] # "START"
               /\ data[j] = IF j <= i + 1 THEN copy'[c][j] ELSE t[j - (i + 1)]
    <3>1. CASE j <= i
      <4>1. j \in 1 .. i /\ j <= i + 1
        BY <3>1
      <4> QED
        BY <1>8, <2>4, <3>1, <4>1
    <3>2. CASE j = i + 1
      BY <1>8, <2>2, <2>4, <3>2
    <3>3. CASE j > i + 1
      <4>1. /\ j - (i + 1) \in 1 .. n - 1 /\ (j - (i + 1)) + 1 = j - i
            /\ ~(j <= i) /\ ~(j <= i + 1)
        BY <1>8, <3>3
      <4> QED
        BY <1>6, <1>8, <4>1
    <3>4. j <= i \/ j = i + 1 \/ j > i + 1
      OBVIOUS
    <3> QED
      BY <3>1, <3>2, <3>3, <3>4
  <2>7. PICK w : w = copy'[c] /\ Len(w) = i + 1
    BY <2>4
  <2>8. Rest(data, w, t)
    BY <1>3, <2>5, <2>6, <2>7 DEF Rest
  <2> QED
    BY <1>1, <1>2, <1>5, <2>7, <2>8, CopyingNow
<1>9. \/ /\ n = m + 3 /\ s[1] = "START" /\ copy[c] = <<>>
         /\ \A j \in 1 .. m : data[j] = s[j + 1] /\ data[j] # "START"
      \/ /\ n = m - i + 2
         /\ \A j \in 1 .. m :
                    /\ data[j] # "START"
                    /\ data[j] = IF j <= i THEN copy[c][j] ELSE s[j - i]
  BY <1>1, <1>3, <1>4, <1>6 DEF Copying, Rest
<1> QED
  BY <1>7, <1>8, <1>9

(* What is sent of an upload is no longer pending.                         *)
LEMMA PendingSent ==
    ASSUME Types, NEW c \in Clients, NEW r \in Requests,
           up'[c] = Append(up[c], r), UNCHANGED <<at, left, uneven>>,
           todo[c] # <<>>, todo'[c] = Tail(todo[c]),
           Pending(c, Len(todo[c]))
    PROVE  /\ Pending(c, Len(todo[c]))'
           /\ Len(todo[c]) = 1 => Pending(c, 0)'
<1>1. PICK x \in Nat : /\ x = Len(up[c]) /\ Len(up'[c]) = x + 1
                       /\ up[c] # <<>> => up'[c][1] = up[c][1]
                       /\ up'[c] # <<>>
  <2>1. PICK u \in Seq(Requests) : u = up[c]
    BY Typed
  <2>2. /\ Len(u) \in Nat /\ Len(Append(u, r)) = Len(u) + 1
        /\ \A k \in 1 .. Len(u) : Append(u, r)[k] = u[k]
        /\ Append(u, r) # <<>>
    BY Added
  <2>3. u # <<>> => 1 \in 1 .. Len(u)
    BY Taken
  <2> QED
    BY <2>1, <2>2, <2>3
<1>2. PICK y \in Nat : y = Len(todo'[c]) /\ Len(todo[c]) = y + 1
  <2>1. PICK z \in Nat : z = Len(todo[c]) /\ 1 \in 1 .. z /\ Len(todo'[c]) = z - 1
    BY Typed, Taken
  <2>2. z - 1 \in Nat /\ z = (z - 1) + 1
    BY <2>1
  <2> QED
    BY <2>1, <2>2
<1>3. \/ /\ at = "size" /\ up[c] # <<>> /\ up[c][1][1] = "size"
         /\ Covers(c, x + (y + 1), 1 + up[c][1][2])
      \/ at = "data" /\ Covers(c, x + (y + 1), left)
  BY <1>1, <1>2 DEF Pending
<1>4. (x + 1) + y = x + (y + 1)
  OBVIOUS
<1>5. Pending(c, y)'
  <2>1. \A m : Covers(c, x + (y + 1), m) => Covers(c, (x + 1) + y, m)'
    BY <1>4 DEF Covers
  <2> QED
    BY <1>1, <1>3, <2>1 DEF Pending, Covers
<1>6. y + 1 = 1 => y = 0
  OBVIOUS
<1>7. Len(todo[c]) = 1 => Pending(c, 0)'
  BY <1>2, <1>5, <1>6
<1>8. Pending(c, Len(todo[c]))'
  BY <1>2, <1>5 DEF Pending, Covers
<1> QED
  BY <1>7, <1>8

(* What the client reads and sends keeps it in step.                       *)
LEMMA ClientInStep ==
    ASSUME Types, NEW c \in Clients, Streams(c), serving = c, c \notin closed,
           NEW s \in Seq(Replies), s = down[c] \o out, InStep(c, s),
           NEW t, t = down'[c] \o out', Acts(c),
           Prompt(c) \/ Listing(c) \/ Downloading(c) \/ Ready(c)
              \/ Uploading(c) \/ Answer(c)
    PROVE  c \in astray' \/ pc'[c] = "gone" \/ InStep(c, t)'
<1>1. /\ pc \in [Clients -> {"start", "prompt", "input", "list", "get",
                             "ready", "send", "answer", "gone"}]
      /\ copy \in [Clients -> Seq(Replies)]
      /\ todo \in [Clients -> Seq(Text)]
      /\ up \in [Clients -> Seq(Requests)]
  BY DEF Types, TypeOK
<1>2. /\ out' = out /\ at' = at /\ left' = left /\ files' = files
      /\ local' = local
  BY DEF Acts, serverVars
<1>3. ASSUME NEW l, Receive(c, l)
      PROVE  s # <<>> /\ l = s[1] /\ t = Tail(s)
  BY <1>2, <1>3, NextLine
<1>4. /\ Tail(<<"COMMANDS">>) = <<>> /\ Tail(<<"READY">>) = <<>>
      /\ Tail(<<"FAILED", "COMMANDS">>) = <<"COMMANDS">>
  OBVIOUS
<1>5. CASE Prompt(c)
  <2>1. PICK l : Receive(c, l)
    BY <1>5 DEF Prompt
  <2>2. s # <<>> /\ t = Tail(s)
    BY <1>3, <2>1
  <2>3. pc[c] = "prompt" /\ pc'[c] \in {"gone", "input"} /\ up' = up
    BY <1>1, <1>5 DEF Prompt, Goto
  <2>4. up[c] = <<>> /\ at = "command" /\ s = <<"COMMANDS">>
    BY <2>2, <2>3 DEF InStep, AtPrompt
  <2>5. t = <<>>
    BY <1>4, <2>2, <2>4
  <2> QED
    BY <1>2, <2>3, <2>4, <2>5 DEF InStep
<1>6. CASE Listing(c)
  <2>1. PICK l : /\ Receive(c, l)
                 /\ pc'[c] = IF l \in {Nothing, "END"} THEN "prompt" ELSE "list"
    BY <1>1, <1>6 DEF Listing, Goto
  <2>2. s # <<>> /\ l = s[1] /\ t = Tail(s)
    BY <1>3, <2>1
  <2>3. pc[c] = "list" /\ up' = up
    BY <1>6 DEF Listing, Goto
  <2>4. up[c] = <<>> /\ at = "command" /\ Closes(s)
    BY <2>2, <2>3 DEF InStep, AtList
  <2>5. CASE l \in {Nothing, "END"}
    <3>1. t = <<"COMMANDS">> /\ pc'[c] = "prompt"
      BY <2>1, <2>2, <2>4, <2>5, ClosesNext
    <3>2. AtPrompt(c, t)'
      BY <1>2, <2>3, <2>4, <3>1 DEF AtPrompt
    <3> QED
      BY <3>1, <3>2 DEF InStep
  <2>6. CASE l \notin {Nothing, "END"}
    <3>1. Closes(t) /\ pc'[c] = "list"
      BY <2>1, <2>2, <2>4, <2>6, ClosesNext
    <3>2. AtList(c, t)'
      BY <1>2, <2>3, <2>4, <3>1 DEF AtList
    <3> QED
      BY <3>1, <3>2 DEF InStep
  <2> QED
    BY <2>5, <2>6
<1>7. CASE Downloading(c)
  <2>1. PICK l : /\ Receive(c, l)
                 /\ pc'[c] = IF l \in {Nothing, "END"} THEN "prompt" ELSE "get"
                 /\ copy' = IF l \in {Nothing, "START", "END"} THEN copy
                            ELSE [copy EXCEPT ![c] = Append(@, l)]
    BY <1>1, <1>7 DEF Downloading, Goto
  <2>2. s # <<>> /\ l = s[1] /\ t = Tail(s)
    BY <1>3, <2>1
  <2>3. pc[c] = "get" /\ up' = up /\ arg' = arg
    BY <1>7 DEF Downloading, Goto
  <2>4. /\ up[c] = <<>> /\ at = "command" /\ arg[c] \in Names
        /\ \/ /\ files[arg[c]] = NoFile
              /\ \A k \in 1 .. Len(s) : s[k] \notin {Nothing, "END"}
           \/ Copying(c, s)
    BY <2>2, <2>3 DEF InStep, AtGet
  <2>5. CASE /\ files[arg[c]] = NoFile
             /\ \A k \in 1 .. Len(s) : s[k] \notin {Nothing, "END"}
    <3>1. /\ Len(s) \in Nat /\ 1 \in 1 .. Len(s)
          /\ \A k \in 1 .. Len(t) : k + 1 \in 1 .. Len(s) /\ t[k] = s[k + 1]
      BY <2>2, Taken
    <3>2. pc'[c] = "get"
      BY <2>1, <2>2, <2>5, <3>1
    <3>3. \A k \in 1 .. Len(t) : t[k] \notin {Nothing, "END"}
      BY <2>5, <3>1
    <3>4. AtGet(c, t)'
      BY <1>2, <2>3, <2>4, <2>5, <3>3 DEF AtGet
    <3> QED
      BY <3>2, <3>4 DEF InStep
  <2>6. CASE Copying(c, s)
    <3>1. Closes(s)
      BY <2>6 DEF Copying
    <3>2. CASE l \in {Nothing, "END"}
      <4>1. t = <<"COMMANDS">> /\ pc'[c] = "prompt"
        BY <2>1, <2>2, <3>1, <3>2, ClosesNext
      <4>2. AtPrompt(c, t)'
        BY <1>2, <2>3, <2>4, <4>1 DEF AtPrompt
      <4> QED
        BY <4>1, <4>2 DEF InStep
    <3>3. CASE l \notin {Nothing, "END"}
      <4>1. /\ pc'[c] = "get"
            /\ copy'[c] = IF s[1] = "START" THEN copy[c]
                          ELSE Append(copy[c], s[1])
        BY <1>1, <2>1, <2>2, <3>3
      <4>2. Copying(c, t)'
        BY <1>2, <2>2, <2>3, <2>4, <2>6, <3>3, <4>1, CopyingNext
      <4>3. AtGet(c, t)'
        BY <1>2, <2>3, <2>4, <4>2 DEF AtGet
      <4> QED
        BY <4>1, <4>3 DEF InStep
    <3> QED
      BY <3>2, <3>3
  <2> QED
    BY <2>4, <2>5, <2>6
<1>8. CASE Ready(c)
  <2>1. PICK l : /\ Receive(c, l)
                 /\ \/ pc'[c] = "gone"
                    \/ pc'[c] = "prompt" /\ up' = up
                    \/ l = "READY" /\ Measure(c)
    BY <1>1, <1>8 DEF Ready, Goto
  <2>2. s # <<>> /\ l = s[1] /\ t = Tail(s)
    BY <1>3, <2>1
  <2>3. pc[c] = "ready" /\ arg' = arg
    BY <1>8 DEF Ready, Measure, Goto
  <2>4. /\ up[c] = <<>>
        /\ \/ at = "size" /\ s = <<"READY">>
           \/ at = "command" /\ s = <<"FAILED", "COMMANDS">>
    BY <2>2, <2>3 DEF InStep, AtReady
  <2>5. CASE pc'[c] = "prompt" /\ up' = up
    <3>1. AtPrompt(c, t)'
      BY <1>2, <1>4, <2>2, <2>4, <2>5 DEF AtPrompt
    <3> QED
      BY <2>5, <3>1 DEF InStep
  <2>6. CASE l = "READY" /\ Measure(c)
    <3>1. at = "size" /\ t = <<>>
      <4>1. s[1] = "READY"
        BY <2>2, <2>6
      <4>2. <<"FAILED", "COMMANDS">>[1] = "FAILED"
        OBVIOUS
      <4> QED
        BY <1>4, <2>2, <2>4, <4>1, <4>2
    <3>2. PICK data, read :
            /\ data \in Contents /\ read \in Reads(data) /\ Send(c, <<"size", Len(data)>>)
            /\ todo'[c] = read
            /\ pc'[c] = IF read = <<>> THEN "answer" ELSE "send"
            /\ Len(read) # Len(data) => c \in uneven'
            /\ Len(read) > Len(data) => c \in astray'
      <4>1. local[c][arg[c]] \in Contents
        <5>1. arg[c] \in Names /\ local[c][arg[c]] # NoFile
          BY <2>3 DEF Streams
        <5> QED
          BY <5>1, Typed
      <4> QED
        BY <1>1, <2>6, <4>1 DEF Measure, Goto
    <3>3. PICK n \in Nat, m \in Nat :
            /\ n = Len(data) /\ m = Len(read) /\ read \in Seq(Text)
      BY <3>2, ReadsOf
    <3>4. up'[c] = <<<<"size", n>>>>
      <4>1. up'[c] = Append(up[c], <<"size", n>>)
        BY <1>1, <3>2, <3>3 DEF Send
      <4> QED
        BY <2>4, <4>1
    <3>5. /\ up'[c] # <<>> /\ up'[c][1][1] = "size" /\ up'[c][1][2] = n
          /\ Len(up'[c]) = 1
      BY <3>4
    <3>6. CASE m > n
      BY <3>2, <3>3, <3>6
    <3>7. CASE m <= n
      <4>1. Covers(c, 1 + m, 1 + n)'
        <5>1. 1 + m <= 1 + n /\ (n = m => 1 + m = 1 + n)
          BY <3>7
        <5> QED
          BY <3>2, <3>3, <5>1 DEF Covers
      <4>2. Pending(c, m)'
        BY <1>2, <3>1, <3>5, <4>1 DEF Pending, Covers
      <4>3. CASE read = <<>>
        <5>1. m = 0 /\ pc'[c] = "answer"
          BY <3>2, <3>3, <4>3
        <5>2. AtAnswer(c, t)'
          BY <3>1, <4>2, <5>1 DEF AtAnswer
        <5> QED
          BY <5>1, <5>2 DEF InStep
      <4>4. CASE read # <<>>
        <5>1. m = Len(todo'[c]) /\ pc'[c] = "send"
          BY <3>2, <3>3, <4>4
        <5>2. Pending(c, Len(todo[c]))'
          BY <4>2, <5>1 DEF Pending, Covers
        <5> QED
          BY <3>1, <5>1, <5>2 DEF InStep
      <4> QED
        BY <4>3, <4>4
    <3>8. m > n \/ m <= n
      OBVIOUS
    <3> QED
      BY <3>6, <3>7, <3>8
  <2> QED
    BY <2>1, <2>5, <2>6
<1>9. CASE Uploading(c)
  <2>1. /\ pc[c] = "send" /\ down' = down /\ uneven' = uneven
        /\ pc'[c] = IF Len(todo[c]) = 1 THEN "answer" ELSE "send"
        /\ todo'[c] = Tail(todo[c])
    BY <1>1, <1>9 DEF Uploading, Goto
  <2>2. PICK r \in Requests : up'[c] = Append(up[c], r)
    <3>1. up'[c] = Append(up[c], <<"text", Head(todo[c])>>)
      BY <1>1, <1>9 DEF Uploading, Send
    <3>2. todo[c] # <<>>
      BY <2>1 DEF Streams
    <3>3. Head(todo[c]) \in Text
      BY <3>2, Typed, Taken
    <3>4. <<"text", Head(todo[c])>> \in Requests
      BY <3>3 DEF Requests
    <3> QED
      BY <3>1, <3>4
  <2>3. /\ s = <<>> /\ Pending(c, Len(todo[c])) /\ todo[c] # <<>>
    BY <2>1 DEF InStep, Streams
  <2>4. t = <<>>
    BY <1>2, <2>1, <2>3
  <2>5. /\ Pending(c, Len(todo[c]))'
        /\ Len(todo[c]) = 1 => Pending(c, 0)'
    BY <1>2, <2>1, <2>2, <2>3, PendingSent
  <2>6. CASE Len(todo[c]) = 1
    <3>1. pc'[c] = "answer" /\ AtAnswer(c, t)'
      BY <2>1, <2>4, <2>5, <2>6 DEF AtAnswer
    <3> QED
      BY <3>1 DEF InStep
  <2>7. CASE Len(todo[c]) # 1
    BY <2>1, <2>4, <2>5, <2>7 DEF InStep
  <2> QED
    BY <2>6, <2>7
<1>10. CASE Answer(c)
  <2>1. PICK l : Receive(c, l)
    BY <1>10 DEF Answer
  <2>2. s # <<>> /\ t = Tail(s)
    BY <1>3, <2>1
  <2>3. pc[c] = "answer" /\ pc'[c] = "prompt" /\ up' = up
    BY <1>1, <1>10 DEF Answer, Goto
  <2>4. up[c] = <<>> /\ at = "command" /\ Len(s) = 2 /\ s[2] = "COMMANDS"
    BY <2>2, <2>3 DEF InStep, AtAnswer
  <2>5. t = <<"COMMANDS">>
    <3>1. t \in Seq(Replies) /\ Len(t) = 1 /\ t[1] = "COMMANDS"
      <4>1. /\ Tail(s) \in Seq(Replies) /\ Len(Tail(s)) = Len(s) - 1
            /\ \A k \in 1 .. Len(Tail(s)) : Tail(s)[k] = s[k + 1]
        BY <2>2, Taken
      <4>2. /\ t \in Seq(Replies) /\ Len(t) = 2 - 1
            /\ \A k \in 1 .. Len(t) : t[k] = s[k + 1]
        BY <2>2, <2>4, <4>1
      <4>3. 2 - 1 = 1 /\ 1 \in 1 .. 1 /\ 1 + 1 = 2
        OBVIOUS
      <4> QED
        BY <2>4, <4>2, <4>3
    <3>2. <<"COMMANDS">> \in Seq(Replies) /\ Len(<<"COMMANDS">>) = 1
          /\ <<"COMMANDS">>[1] = "COMMANDS"
      BY ShortReplies
    <3>3. \A k \in 1 .. 1 : k = 1
      OBVIOUS
    <3> QED
      BY <3>1, <3>2, <3>3, SeqEqual
  <2>6. AtPrompt(c, t)'
    BY <1>2, <2>3, <2>4, <2>5 DEF AtPrompt
  <2> QED
    BY <2>3, <2>6 DEF InStep
<1> QED
  BY <1>5, <1>6, <1>7, <1>8, <1>9, <1>10

(* At the prompt nothing is under way: what the user enters is answered.   *)
LEMMA UserInStep ==
    ASSUME Types, NEW c \in Clients, c \notin closed,
           NEW s \in Seq(Replies), s = down[c] \o out, InStep(c, s),
           NEW t, t = down'[c] \o out', Acts(c),
           Quit(c) \/ List(c) \/ Get(c) \/ Load(c) \/ Talk(c) \/ Leave(c)
    PROVE  c \in astray' \/ pc'[c] = "gone" \/ InStep(c, t)'
<1>1. /\ pc \in [Clients -> {"start", "prompt", "input", "list", "get",
                             "ready", "send", "answer", "gone"}]
      /\ arg \in [Clients -> Names \cup {NoFile}]
      /\ copy \in [Clients -> Seq(Replies)]
      /\ up \in [Clients -> Seq(Requests)]
      /\ astray \subseteq Clients
  BY DEF Types, TypeOK
<1>2. /\ out' = out /\ at' = at /\ left' = left /\ files' = files
      /\ local' = local
  BY DEF Acts, serverVars
<1>3. CASE Quit(c) \/ Leave(c)
  BY <1>1, <1>3 DEF Quit, Leave, Enter, Goto
<1>4. CASE List(c) \/ Get(c) \/ Load(c) \/ Talk(c)
  <2>1. pc[c] = "input" /\ down' = down
    BY <1>4 DEF List, Get, Load, Talk, Enter, Goto
  <2>2. up[c] = <<>> /\ s = <<>> /\ at = "command"
    BY <2>1 DEF InStep
  <2>3. t = <<>>
    BY <1>2, <2>1, <2>2
  <2>4. ASSUME NEW r, Send(c, r) PROVE up'[c] = <<r>>
    <3>1. up'[c] = Append(up[c], r)
      BY <1>1, <2>4 DEF Send
    <3> QED
      BY <2>2, <3>1
  <2>5. CASE List(c)
    <3>1. pc'[c] = "list" /\ up'[c] = <<<<"list", "list">>>>
      BY <1>1, <2>4, <2>5 DEF List, Enter, Goto
    <3>2. AtList(c, t)'
      BY <1>2, <2>2, <2>3, <3>1 DEF AtList
    <3> QED
      BY <3>1, <3>2 DEF InStep
  <2>6. CASE Get(c)
    <3>1. PICK n \in Names :
            /\ Send(c, <<"get", n>>)
            /\ arg' = [arg EXCEPT ![c] = n]
            /\ \/ Enter(c, "get") /\ copy' = [copy EXCEPT ![c] = <<>>]
               \/ astray' = astray \cup {c}
      BY <2>6 DEF Get
    <3>2. CASE Enter(c, "get") /\ copy' = [copy EXCEPT ![c] = <<>>]
      <4>1. /\ pc'[c] = "get" /\ copy'[c] = <<>> /\ arg'[c] = n
            /\ up'[c] = <<<<"get", n>>>>
        BY <1>1, <2>4, <3>1, <3>2 DEF Enter, Goto
      <4>2. AtGet(c, t)'
        BY <1>2, <2>2, <2>3, <4>1 DEF AtGet
      <4> QED
        BY <4>1, <4>2 DEF InStep
    <3> QED
      BY <3>1, <3>2
  <2>7. CASE Load(c)
    <3>1. PICK n \in Names :
            /\ arg' = [arg EXCEPT ![c] = n]
            /\ \/ local[c][n] = NoFile /\ Enter(c, "prompt") /\ up' = up
               \/ Enter(c, "ready") /\ Send(c, <<"load", n>>)
      BY <2>7 DEF Load
    <3>2. CASE local[c][n] = NoFile /\ Enter(c, "prompt") /\ up' = up
      <4>1. pc'[c] = "prompt" /\ arg'[c] = n
        BY <1>1, <3>1, <3>2 DEF Enter, Goto
      <4>2. AtPrompt(c, t)'
        BY <1>2, <2>2, <2>3, <3>2, <4>1 DEF AtPrompt
      <4> QED
        BY <4>1, <4>2 DEF InStep
    <3>3. CASE Enter(c, "ready") /\ Send(c, <<"load", n>>)
      <4>1. pc'[c] = "ready" /\ arg'[c] = n /\ up'[c] = <<<<"load", n>>>>
        BY <1>1, <2>4, <3>1, <3>3 DEF Enter, Goto
      <4>2. AtReady(c, t)'
        BY <1>2, <2>2, <2>3, <4>1 DEF AtReady
      <4> QED
        BY <4>1, <4>2 DEF InStep
    <3> QED
      BY <3>1, <3>2, <3>3
  <2>8. CASE Talk(c)
    <3>1. PICK x \in {Other, Nothing} :
            pc'[c] = "answer" /\ up'[c] = <<<<"text", x>>>>
      BY <1>1, <2>4, <2>8 DEF Talk, Enter, Goto
    <3>2. /\ up'[c] # <<>> /\ up'[c][1][1] = "text" /\ Tail(up'[c]) = <<>>
          /\ ~Unterminated(up'[c][1])
      <4>1. ~Unterminated(<<"text", x>>)
        BY TypedTexts
      <4> QED
        BY <3>1, <4>1
    <3>3. AtAnswer(c, t)'
      BY <1>2, <2>2, <2>3, <3>2 DEF AtAnswer
    <3> QED
      BY <3>1, <3>3 DEF InStep
  <2> QED
    BY <1>4, <2>5, <2>6, <2>7, <2>8
<1> QED
  BY <1>3, <1>4

(* Whatever a client and its user do, the client itself stays in step.     *)
LEMMA ActsTalks ==
    ASSUME Types, Places, NEW c \in Clients, Streams(c),
           Talks(c), Acts(c), c \notin astray',
           \/ Quit(c) \/ List(c) \/ Get(c) \/ Load(c) \/ Talk(c) \/ Leave(c)
           \/ Prompt(c) \/ Listing(c) \/ Downloading(c) \/ Ready(c)
           \/ Uploading(c) \/ Answer(c)
    PROVE  Talks(c)'
<1>1. UNCHANGED <<serving, closed, begun>> /\ pc[c] \notin {"start", "gone"}
  BY DEF Acts, serverVars
<1>2. CASE pc'[c] = "gone"
  BY <1>2 DEF Talks
<1>3. CASE pc'[c] # "gone"
  <2>1. ~Leave(c)
    BY <1>3 DEF Leave, Types, TypeOK
  <2>2. ~Waiting(c)
    BY <2>1, NotWaiting
  <2>3. PICK s, t : s = down[c] \o out /\ t = down'[c] \o out'
    OBVIOUS
  <2>4. s \in Seq(Replies)
    BY <2>3, Typed, ConcatProperties
  <2>5. CASE serving = c /\ c \notin closed /\ ~begun /\ InStep(c, s)
    <3>1. ~begun' /\ InStep(c, t)'
      BY <1>1, <1>3, <2>3, <2>4, <2>5, ClientInStep, UserInStep
    <3> QED
      BY <1>1, <2>3, <2>5, <3>1, TalksNow
  <2>6. CASE /\ serving # c /\ c \in closed
             /\ pc[c] \in {"answer", "prompt"} /\ down[c] = <<>>
    <3>1. Prompt(c) \/ Answer(c)
      BY <2>1, <2>6 DEF Quit, List, Get, Load, Talk, Listing, Downloading,
                        Ready, Measure, Uploading, Enter, Goto
    <3>2. pc \in [Clients -> {"start", "prompt", "input", "list", "get",
                              "ready", "send", "answer", "gone"}]
      BY DEF Types, TypeOK
    <3>3. PICK l : /\ Receive(c, l)
                   /\ l = Nothing => pc'[c] \in {"gone", "prompt"}
      <4>1. CASE Prompt(c)
        BY <3>2, <4>1 DEF Prompt, Goto
      <4>2. CASE Answer(c)
        BY <3>2, <4>2 DEF Answer, Goto
      <4> QED
        BY <3>1, <4>1, <4>2
    <3>4. l = Nothing /\ down' = down
      BY <2>6, <3>3 DEF Receive
    <3>5. serving' # c /\ pc'[c] = "prompt" /\ down'[c] = <<>>
      BY <1>1, <1>3, <2>6, <3>3, <3>4
    <3> QED
      BY <2>3, <3>5, TalksNow
  <2> QED
    BY <1>1, <2>2, <2>3, <2>5, <2>6, Served
<1> QED
  BY <1>2, <1>3

-----------------------------------------------------------------------------
(* The server's actions.                                                   *)

(* What the server reads of a client in step is what the client waits for. *)
LEMMA Asked ==
    ASSUME Types, Places, NEW c \in Clients, c = serving, pc[c] # "gone",
           Talks(c), out = <<>>, up[c] # <<>>
    PROVE  /\ down[c] = <<>> /\ ~begun
           /\ \/ /\ at = "command" /\ Tail(up[c]) = <<>>
                 /\ \/ pc[c] = "list" /\ up[c][1] = <<"list", "list">>
                    \/ /\ pc[c] = "get" /\ arg[c] \in Names /\ copy[c] = <<>>
                       /\ up[c][1] = <<"get", arg[c]>>
                    \/ pc[c] = "ready" /\ up[c][1] = <<"load", arg[c]>>
                    \/ /\ pc[c] = "answer" /\ up[c][1][1] = "text"
                       /\ ~Unterminated(up[c][1])
              \/ pc[c] = "send" /\ Pending(c, Len(todo[c]))
              \/ pc[c] = "answer" /\ Pending(c, 0)
<1>1. PICK s : s = down[c] \o out /\ InStep(c, s) /\ ~begun
  BY DEF Talks
<1>2. s = down[c]
  BY <1>1, Typed, ConcatEmptySeq
<1>3. pc[c] \in {"start", "prompt", "input", "list", "get", "ready", "send",
                 "answer", "gone"}
  BY DEF Types, TypeOK
<1>4. pc[c] # "start"
  BY FileAssumption DEF Places
<1>5. \A r : Tail(<<r>>) = <<>> /\ <<r>>[1] = r
  OBVIOUS
<1>6. CASE pc[c] \in {"prompt", "input"}
  BY <1>1, <1>6 DEF InStep, AtPrompt
<1>7. CASE pc[c] = "list"
  <2>1. up[c] = <<<<"list", "list">>>> /\ at = "command" /\ s = <<>>
    BY <1>1, <1>7 DEF InStep, AtList
  <2> QED
    BY <1>1, <1>2, <1>5, <1>7, <2>1
<1>8. CASE pc[c] = "get"
  <2>1. /\ up[c] = <<<<"get", arg[c]>>>> /\ at = "command" /\ s = <<>>
        /\ arg[c] \in Names /\ copy[c] = <<>>
    BY <1>1, <1>8 DEF InStep, AtGet
  <2> QED
    BY <1>1, <1>2, <1>5, <1>8, <2>1
<1>9. CASE pc[c] = "ready"
  <2>1. up[c] = <<<<"load", arg[c]>>>> /\ at = "command" /\ s = <<>>
    BY <1>1, <1>9 DEF InStep, AtReady
  <2> QED
    BY <1>1, <1>2, <1>5, <1>9, <2>1
<1>10. CASE pc[c] = "send"
  BY <1>1, <1>2, <1>10 DEF InStep
<1>11. CASE pc[c] = "answer"
  BY <1>1, <1>2, <1>11 DEF InStep, AtAnswer
<1> QED
  BY <1>3, <1>4, <1>6, <1>7, <1>8, <1>9, <1>10, <1>11

LEMMA ListAnswer ==
    ASSUME NEW q \in SetToSeqs(Present), "END" \notin Present
    PROVE  Closes(<<"Files:">> \o q \o <<"END", "COMMANDS">>)
<1>1. /\ q \in Seq(Replies)
      /\ \A k \in 1 .. Len(q) : q[k] # Nothing /\ q[k] # "END"
  <2>1. q \in Seq(Names) /\ \A k \in 1 .. Len(q) : q[k] \in Present
    BY NamesInOrder
  <2>2. Nothing \notin Names /\ Present \subseteq Names
    BY FileAssumption DEF Present
  <2> QED
    BY <2>1, <2>2, RepliesAre, SeqMonotonic
<1>2. PICK n \in Nat : n = Len(q)
  BY <1>1, LenProperties
<1>3. PICK s : s = <<"Files:">> \o q \o <<"END", "COMMANDS">>
  OBVIOUS
<1>4. "Files:" \in Replies /\ "END" \in Replies /\ "COMMANDS" \in Replies
  BY RepliesAre
<1>5. /\ Len(s) = n + 3 /\ s[1] = "Files:" /\ s[n + 2] = "END"
      /\ s[n + 3] = "COMMANDS" /\ \A k \in 1 .. n : s[k + 1] = q[k]
  BY <1>1, <1>2, <1>3, <1>4, Framed
<1>6. ASSUME NEW k \in 1 .. (n + 3) - 2 PROVE s[k] \notin {Nothing, "END"}
  <2>1. CASE k = 1
    BY <1>5, <2>1, NothingElse
  <2>2. CASE k # 1
    <3>1. k - 1 \in 1 .. n /\ (k - 1) + 1 = k
      BY <2>2
    <3>2. s[k] = q[k - 1]
      BY <1>5, <3>1
    <3> QED
      BY <1>1, <1>2, <3>1, <3>2
  <2> QED
    BY <2>1, <2>2
<1>7. (n + 3) - 1 = n + 2 /\ n + 3 >= 2
  OBVIOUS
<1> QED
  BY <1>3, <1>5, <1>6, <1>7 DEF Closes

(* A file without a line that the client takes for START or an end.        *)
LEMMA FileAnswer ==
    ASSUME NEW data \in Seq(Replies),
           ToSet(data) \cap {Nothing, "START", "END"} = {},
           NEW s, s = <<"START">> \o data \o <<"END", "COMMANDS">>
    PROVE  /\ Closes(s) /\ Len(s) = Len(data) + 3 /\ s[1] = "START"
           /\ \A j \in 1 .. Len(data) : data[j] = s[j + 1] /\ data[j] # "START"
<1>1. \A k \in 1 .. Len(data) : data[k] \notin {Nothing, "START", "END"}
  <2>1. \A k \in 1 .. Len(data) : data[k] \in ToSet(data)
    BY LenProperties DEF ToSet
  <2> QED
    BY <2>1
<1>2. PICK n \in Nat : n = Len(data)
  BY LenProperties
<1>3. "START" \in Replies /\ "END" \in Replies /\ "COMMANDS" \in Replies
  BY RepliesAre
<1>4. /\ Len(s) = n + 3 /\ s[1] = "START" /\ s[n + 2] = "END"
      /\ s[n + 3] = "COMMANDS" /\ \A k \in 1 .. n : s[k + 1] = data[k]
  BY <1>1, <1>2, <1>3, Framed
<1>5. ASSUME NEW k \in 1 .. (n + 3) - 2 PROVE s[k] \notin {Nothing, "END"}
  <2>1. CASE k = 1
    BY <1>4, <2>1, NothingElse
  <2>2. CASE k # 1
    <3>1. k - 1 \in 1 .. n /\ (k - 1) + 1 = k
      BY <2>2
    <3>2. s[k] = data[k - 1]
      BY <1>4, <3>1
    <3> QED
      BY <1>1, <1>2, <3>1, <3>2
  <2> QED
    BY <2>1, <2>2
<1>6. (n + 3) - 1 = n + 2 /\ n + 3 >= 2
  OBVIOUS
<1>7. Closes(s)
  BY <1>4, <1>5, <1>6 DEF Closes
<1> QED
  BY <1>1, <1>2, <1>4, <1>7

(* An upload under way: what is sent and received adds up to its size.     *)
LEMMA PendingTaken ==
    ASSUME Types, NEW c \in Clients, NEW k \in Nat, Pending(c, k),
           up[c] # <<>>, up'[c] = Tail(up[c])
    PROVE  /\ at # "command" /\ Len(up'[c]) \in Nat
           /\ at = "size" => /\ up[c][1][1] = "size" /\ up[c][1][2] \in Nat
                             /\ Covers(c, Len(up'[c]) + k, up[c][1][2])
           /\ at = "data" => Covers(c, Len(up'[c]) + k, left - 1)
           /\ Len(up'[c]) = 0 => up'[c] = <<>>
<1>1. PICK x \in Nat : /\ x = Len(up'[c]) /\ Len(up[c]) = x + 1
                       /\ up[c][1] \in Requests /\ up'[c] \in Seq(Requests)
  <2>1. PICK z \in Nat : /\ z = Len(up[c]) /\ 1 \in 1 .. z
                         /\ Len(up'[c]) = z - 1 /\ up[c][1] \in Requests
                         /\ up'[c] \in Seq(Requests)
    BY Typed, Taken
  <2>2. z - 1 \in Nat /\ z = (z - 1) + 1
    BY <2>1
  <2> QED
    BY <2>1, <2>2
<1>2. ASSUME at = "size"
      PROVE  /\ up[c][1][1] = "size" /\ up[c][1][2] \in Nat
             /\ Covers(c, x + k, up[c][1][2])
  <2>1. up[c][1][1] = "size" /\ Covers(c, (x + 1) + k, 1 + up[c][1][2])
    BY <1>1, <1>2 DEF Pending
  <2>2. PICK n \in Nat : n = up[c][1][2]
    BY <1>1, <2>1, RequestKinds
  <2>3. Covers(c, (x + 1) + k, 1 + n)
    BY <2>1, <2>2
  <2>4. Covers(c, x + k, n)
    BY <2>3 DEF Covers
  <2> QED
    BY <2>1, <2>2, <2>4
<1>3. ASSUME at = "data" PROVE Covers(c, x + k, left - 1)
  <2>1. PICK n \in Nat : n = left
    BY Typed
  <2>2. Covers(c, (x + 1) + k, n)
    BY <1>1, <1>3, <2>1 DEF Pending
  <2>3. Covers(c, x + k, n - 1)
    BY <2>2 DEF Covers
  <2> QED
    BY <2>1, <2>3
<1>4. at # "command"
  BY DEF Pending
<1>5. x = 0 => up'[c] = <<>>
  BY <1>1, LenProperties, EmptySeq
<1> QED
  BY <1>1, <1>2, <1>3, <1>4, <1>5

(* The client that waits for the end of its upload gets it.                *)
LEMMA UploadAnswered ==
    ASSUME NEW c \in Clients, pc'[c] = "answer", up'[c] = <<>>,
           at' = "command", NEW x \in {"FAILED", "UPLOAD DONE", "Unknown command"},
           NEW t, t = <<x, "COMMANDS">>
    PROVE  InStep(c, t)'
<1>1. Len(t) = 2 /\ t[1] = x /\ t[2] = "COMMANDS" /\ x # Nothing
  BY NothingElse
<1>2. AtAnswer(c, t)'
  BY <1>1 DEF AtAnswer
<1> QED
  BY <1>2 DEF InStep

(* The upload goes on.                                                     *)
LEMMA UploadGoesOn ==
    ASSUME Types, NEW c \in Clients, UNCHANGED <<pc, todo, uneven>>, at' = "data",
           NEW k \in Nat, NEW n \in Nat, n = left', Covers(c, Len(up'[c]) + k, n),
           \/ pc[c] = "send" /\ k = Len(todo[c])
           \/ pc[c] = "answer" /\ k = 0,
           NEW t, t = <<>>
    PROVE  InStep(c, t)'
<1>1. Pending(c, k)'
  BY DEF Pending, Covers
<1>2. CASE pc[c] = "send" /\ k = Len(todo[c])
  <2>1. Pending(c, Len(todo[c]))'
    <3>1. k = Len(todo'[c])
      BY <1>2
    <3> QED
      BY <1>1, <3>1 DEF Pending, Covers
  <2> QED
    BY <1>2, <2>1 DEF InStep
<1>3. CASE pc[c] = "answer" /\ k = 0
  <2>1. AtAnswer(c, t)'
    BY <1>1, <1>3 DEF AtAnswer
  <2> QED
    BY <1>3, <2>1 DEF InStep
<1> QED
  BY <1>2, <1>3

(* What the server answers is what the client waits for.                   *)
LEMMA RequestInStep ==
    ASSUME Types, Places, NEW c \in Clients, c = serving, pc[c] # "gone",
           Talks(c), Streams(c), NEW t, t = down'[c] \o out', Types',
           CmdList \/ CmdGet \/ CmdLoad \/ RecvSize \/ RecvData \/ Unknown
    PROVE  c \in astray' \/ InStep(c, t)'
<1>1. Takes
  <2>1. (\E r : Request(r)) \/ RecvData
    BY DEF CmdList, CmdGet, CmdLoad, RecvSize, Unknown, Command
  <2> QED
    BY <2>1, Receives DEF RecvData
<1>2. /\ out = <<>> /\ UNCHANGED <<pc, arg, local, copy, todo, down, uneven>>
      /\ up[c] # <<>> /\ up'[c] = Tail(up[c])
      /\ astray \subseteq Clients
  BY <1>1, TakesFrame DEF userVars, Types, TypeOK
<1>3. /\ down[c] = <<>> /\ ~begun
      /\ \/ /\ at = "command" /\ Tail(up[c]) = <<>>
            /\ \/ pc[c] = "list" /\ up[c][1] = <<"list", "list">>
               \/ /\ pc[c] = "get" /\ arg[c] \in Names /\ copy[c] = <<>>
                  /\ up[c][1] = <<"get", arg[c]>>
               \/ pc[c] = "ready" /\ up[c][1] = <<"load", arg[c]>>
               \/ pc[c] = "answer" /\ up[c][1][1] = "text"
         \/ pc[c] = "send" /\ Pending(c, Len(todo[c]))
         \/ pc[c] = "answer" /\ Pending(c, 0)
  BY <1>2, Asked
<1>4. t = out'
  <2>1. out' \in Seq(Replies)
    BY DEF Types, TypeOK
  <2>2. PICK o : o = out'
    OBVIOUS
  <2>3. <<>> \o o = o
    BY <2>1, <2>2, ConcatEmptySeq
  <2> QED
    BY <1>2, <1>3, <2>2, <2>3
<1>5. ASSUME NEW q, Request(q) PROVE q = up[c][1]
  <2>1. ~begun
    BY <1>3
  <2> QED
    BY <1>2, <1>5, <2>1, RequestFrame
<1>6. \A k : Pending(c, k) => at # "command"
  BY DEF Pending
<1>7. CASE CmdList
  <2>1. /\ Request(<<"list", "list">>) /\ at = "command" /\ at' = "command"
        /\ \/ c \in astray'
           \/ /\ "END" \notin Present
              /\ \E q \in SetToSeqs(Present) :
                    out' = <<"Files:">> \o q \o <<"END", "COMMANDS">>
    BY <1>2, <1>7 DEF CmdList, Command, Reply
  <2>2. up[c][1] = <<"list", "list">>
    BY <1>5, <2>1
  <2>3. up[c][1][1] = "list"
    BY <2>2
  <2>4. pc[c] = "list" /\ up'[c] = <<>>
    BY <1>2, <1>3, <1>6, <2>1, <2>3
  <2>5. c \in astray' \/ Closes(t)
    BY <1>4, <2>1, ListAnswer
  <2>6. c \in astray' \/ AtList(c, t)'
    BY <2>1, <2>4, <2>5 DEF AtList
  <2> QED
    BY <1>2, <2>4, <2>6 DEF InStep
<1>8. CASE CmdGet
  <2>1. PICK n \in Names :
          /\ Request(<<"get", n>>) /\ at = "command" /\ at' = "command"
          /\ files' = files
          /\ \/ files[n] = NoFile /\ out' = <<"File not found", "COMMANDS">>
             \/ /\ files[n] # NoFile
                /\ out' = <<"START">> \o Lines(files[n]) \o <<"END", "COMMANDS">>
                /\ \/ ToSet(Lines(files[n])) \cap {Nothing, "START", "END"} = {}
                   \/ c \in astray'
    BY <1>2, <1>8 DEF CmdGet, Command, Reply
  <2>2. up[c][1] = <<"get", n>>
    BY <1>5, <2>1
  <2>3. up[c][1][1] = "get" /\ up[c][1][2] = n
    BY <2>2
  <2>4. /\ pc[c] = "get" /\ up'[c] = <<>> /\ arg[c] = n /\ copy[c] = <<>>
    <3>1. /\ <<"list", "list">>[1] = "list" /\ <<"load", arg[c]>>[1] = "load"
          /\ <<"get", arg[c]>>[2] = arg[c]
      OBVIOUS
    <3>2. /\ pc[c] = "get" /\ up'[c] = <<>> /\ copy[c] = <<>>
          /\ up[c][1] = <<"get", arg[c]>>
      BY <1>2, <1>3, <1>6, <2>1, <2>3, <3>1
    <3> QED
      BY <2>3, <3>1, <3>2
  <2>5. CASE files[n] = NoFile /\ out' = <<"File not found", "COMMANDS">>
    <3>1. \A k \in 1 .. Len(t) : t[k] \notin {Nothing, "END"}
      <4>1. /\ Len(t) = 2 /\ t[1] = "File not found" /\ t[2] = "COMMANDS"
        <5>1. t = <<"File not found", "COMMANDS">>
          BY <1>4, <2>5
        <5>2. /\ Len(<<"File not found", "COMMANDS">>) = 2
              /\ <<"File not found", "COMMANDS">>[1] = "File not found"
              /\ <<"File not found", "COMMANDS">>[2] = "COMMANDS"
          OBVIOUS
        <5> QED
          BY <5>1, <5>2
      <4>2. \A k \in 1 .. 2 : k = 1 \/ k = 2
        OBVIOUS
      <4> QED
        BY <4>1, <4>2, NothingElse
    <3>2. AtGet(c, t)'
      BY <1>2, <2>1, <2>4, <2>5, <3>1 DEF AtGet
    <3> QED
      BY <1>2, <2>4, <3>2 DEF InStep
  <2>6. CASE /\ files[n] # NoFile
             /\ out' = <<"START">> \o Lines(files[n]) \o <<"END", "COMMANDS">>
             /\ ToSet(Lines(files[n])) \cap {Nothing, "START", "END"} = {}
    <3>1. PICK data \in Seq(Replies) : data = Lines(files[n])
      <4>1. files[n] \in Seq(Text)
        BY <2>6, Typed
      <4> QED
        BY <4>1, LinesOf
    <3>2. /\ Closes(t) /\ Len(t) = Len(data) + 3 /\ t[1] = "START"
          /\ \A j \in 1 .. Len(data) : data[j] = t[j + 1] /\ data[j] # "START"
      <4>1. t = <<"START">> \o data \o <<"END", "COMMANDS">>
        BY <1>4, <2>6, <3>1
      <4> QED
        BY <2>6, <3>1, <4>1, FileAnswer
    <3>3. /\ data = Lines(files'[arg'[c]]) /\ files'[arg'[c]] # NoFile
          /\ copy'[c] = <<>>
      BY <1>2, <2>1, <2>4, <2>6, <3>1
    <3>4. Copying(c, t)'
      BY <3>2, <3>3 DEF Copying
    <3>5. AtGet(c, t)'
      BY <1>2, <2>1, <2>4, <3>4 DEF AtGet
    <3> QED
      BY <1>2, <2>4, <3>5 DEF InStep
  <2> QED
    BY <2>1, <2>5, <2>6
<1>9. CASE CmdLoad
  <2>1. PICK n \in Names :
          /\ Request(<<"load", n>>) /\ at = "command"
          /\ \/ out' = <<"FAILED", "COMMANDS">> /\ at' = "command"
             \/ out' = <<"READY">> /\ at' = "size"
    BY <1>9 DEF CmdLoad, Command, Reply
  <2>2. up[c][1] = <<"load", n>>
    BY <1>5, <2>1
  <2>3. up[c][1][1] = "load"
    BY <2>2
  <2>4. pc[c] = "ready" /\ up'[c] = <<>>
    BY <1>2, <1>3, <1>6, <2>1, <2>3
  <2>5. AtReady(c, t)'
    BY <1>4, <2>1, <2>4 DEF AtReady
  <2> QED
    BY <1>2, <2>4, <2>5 DEF InStep
<1>10. ASSUME NEW k \in Nat, Pending(c, k)
       PROVE  /\ at # "command" /\ Len(up'[c]) \in Nat
              /\ at = "size" => /\ up[c][1][1] = "size" /\ up[c][1][2] \in Nat
                                /\ Covers(c, Len(up'[c]) + k, up[c][1][2])
              /\ at = "data" => Covers(c, Len(up'[c]) + k, left - 1)
              /\ Len(up'[c]) = 0 => up'[c] = <<>>
  BY <1>2, <1>10, PendingTaken
<1>11. ASSUME at # "command"
       PROVE  \E k \in Nat :
                /\ Pending(c, k)
                /\ \/ pc[c] = "send" /\ k = Len(todo[c]) /\ k # 0
                   \/ pc[c] = "answer" /\ k = 0
  <2>1. Len(todo[c]) \in Nat /\ todo[c] \in Seq(Text)
    BY Typed
  <2>2. pc[c] = "send" => Len(todo[c]) # 0
    BY <2>1, EmptySeq DEF Streams
  <2> QED
    BY <1>3, <1>11, <2>1, <2>2
<1>12. CASE RecvSize
  <2>1. at = "size"
    BY <1>12 DEF RecvSize
  <2>2. PICK k \in Nat :
          /\ Pending(c, k)
          /\ \/ pc[c] = "send" /\ k = Len(todo[c]) /\ k # 0
             \/ pc[c] = "answer" /\ k = 0
    BY <1>11, <2>1
  <2>3. PICK x \in Nat, n \in Nat :
          /\ x = Len(up'[c]) /\ n = up[c][1][2] /\ Covers(c, x + k, n)
          /\ up[c][1][1] = "size" /\ (x = 0 => up'[c] = <<>>)
    BY <1>10, <2>1, <2>2
  <2>4. PICK q \in Requests :
          /\ Request(q)
          /\ \/ q = <<"text", Nothing>>
             \/ /\ (q[1] = "size" => q[2] = 0)
                /\ at' = "command" /\ out' = <<"FAILED", "COMMANDS">>
             \/ q[2] > 0 /\ at' = "data" /\ left' = q[2] /\ out' = <<>>
    BY <1>12 DEF RecvSize, Reply
  <2>5. q[1] = "size" /\ q[2] = n
    BY <1>5, <2>3, <2>4
  <2>6. <<"text", Nothing>>[1] = "text"
    OBVIOUS
  <2>7. CASE n = 0 /\ at' = "command" /\ out' = <<"FAILED", "COMMANDS">>
    <3>1. x = 0 /\ k = 0
      BY <2>3, <2>7 DEF Covers
    <3>2. pc'[c] = "answer" /\ up'[c] = <<>>
      BY <1>2, <2>2, <2>3, <3>1
    <3> QED
      BY <1>4, <2>7, <3>2, UploadAnswered
  <2>8. CASE at' = "data" /\ left' = n /\ out' = <<>>
    BY <1>2, <1>4, <2>2, <2>3, <2>8, UploadGoesOn
  <2> QED
    BY <2>4, <2>5, <2>6, <2>7, <2>8
<1>13. CASE RecvData
  <2>1. at = "data" /\ left \in Nat
    BY <1>13, Typed DEF RecvData
  <2>2. PICK k \in Nat :
          /\ Pending(c, k)
          /\ \/ pc[c] = "send" /\ k = Len(todo[c]) /\ k # 0
             \/ pc[c] = "answer" /\ k = 0
    BY <1>11, <2>1
  <2>3. PICK x \in Nat, n \in Nat :
          /\ x = Len(up'[c]) /\ n = left /\ Covers(c, x + k, n - 1)
          /\ (x = 0 => up'[c] = <<>>)
    BY <1>10, <2>1, <2>2
  <2>4. /\ left' = n - 1
        /\ at' = IF n = 1 THEN "command" ELSE "data"
        /\ out' = IF n = 1 THEN <<"UPLOAD DONE", "COMMANDS">> ELSE <<>>
    BY <1>2, <1>13, <2>3 DEF RecvData, Reply
  <2>5. CASE n = 1
    <3>1. x = 0 /\ k = 0
      BY <2>3, <2>5 DEF Covers
    <3>2. pc'[c] = "answer" /\ up'[c] = <<>>
      BY <1>2, <2>2, <2>3, <3>1
    <3> QED
      BY <1>4, <2>4, <2>5, <3>2, UploadAnswered
  <2>6. CASE n # 1
    <3>1. PICK m \in Nat : m = n - 1 /\ Covers(c, x + k, m)
      <4>1. n - 1 \in Nat
        BY <2>1, <2>3, Typed
      <4> QED
        BY <2>3, <4>1
    <3>2. m = left' /\ at' = "data" /\ out' = <<>>
      BY <2>4, <2>6, <3>1
    <3> QED
      BY <1>2, <1>4, <2>2, <2>3, <3>1, <3>2, UploadGoesOn
  <2> QED
    BY <2>5, <2>6
<1>14. CASE Unknown
  <2>1. PICK q \in Requests :
          /\ Request(q) /\ at = "command"
          /\ q[1] = "size" \/ q[1] = "text"
    BY <1>14 DEF Unknown, Command
  <2>2. at' = "command" /\ out' = <<"Unknown command", "COMMANDS">>
    BY <1>14, <2>1 DEF Unknown, Reply
  <2>3. up[c][1][1] \in {"size", "text"}
    BY <1>5, <2>1
  <2>4. /\ <<"list", "list">>[1] = "list" /\ <<"get", arg[c]>>[1] = "get"
        /\ <<"load", arg[c]>>[1] = "load"
    OBVIOUS
  <2>5. pc'[c] = "answer" /\ up'[c] = <<>>
    BY <1>2, <1>3, <1>6, <2>1, <2>3, <2>4
  <2> QED
    BY <1>4, <2>2, <2>5, UploadAnswered
<1> QED
  BY <1>7, <1>8, <1>9, <1>12, <1>13, <1>14

LEMMA ServerTalks ==
    ASSUME Types, Places, Server, Types', NEW c \in Clients, Talks(c),
           Streams(c), c \notin astray'
    PROVE  Talks(c)'
<1>1. PICK t : t = down'[c] \o out'
  OBVIOUS
<1>2. UNCHANGED userVars
  <2>1. \/ Accept \/ SendLine \/ (\E r : Request(r))
        \/ BeginLine \/ RecvData \/ UploadFails
    BY DEF Server, CmdList, CmdGet, CmdLoad, RecvSize, Unknown, HangUp, Command
  <2> QED
    BY <2>1 DEF Accept, SendLine, Request, BeginLine, RecvData, UploadFails,
                receiverVars
<1>3. CASE pc[c] = "gone"
  BY <1>2, <1>3 DEF Talks, userVars
<1>4. CASE pc[c] # "gone" /\ Accept
  <2>1. /\ backlog \in Seq(Clients) /\ backlog # <<>> /\ serving = NoClient
        /\ serving' = Head(backlog) /\ at' = "command" /\ ~begun'
        /\ out' = <<"COMMANDS">> /\ UNCHANGED <<up, down, closed, pc>>
    BY <1>2, <1>4 DEF Accept, Types, TypeOK, userVars
  <2>2. c \in closed' => pc'[c] \in {"answer", "prompt"} /\ down'[c] = <<>>
    BY <1>4, <2>1 DEF Talks
  <2>3. CASE serving' = c
    <3>1. c = backlog[1] /\ Len(backlog) \in Nat /\ 1 \in 1 .. Len(backlog)
      BY <2>1, <2>3, Taken
    <3>2. Waiting(c)
      BY <3>1 DEF Waiting
    <3>3. pc[c] = "prompt" /\ up[c] = <<>> /\ down[c] = <<>>
      BY <1>4, <3>2 DEF Places
    <3>4. t = <<"COMMANDS">>
      <4>1. down'[c] = <<>> /\ <<"COMMANDS">> \in Seq(Replies)
        BY <2>1, <3>3, ShortReplies
      <4>2. <<>> \o <<"COMMANDS">> = <<"COMMANDS">>
        BY <4>1, ConcatEmptySeq
      <4> QED
        BY <1>1, <2>1, <4>1, <4>2
    <3>5. AtPrompt(c, t)'
      BY <2>1, <3>3, <3>4 DEF AtPrompt
    <3>6. InStep(c, t)'
      BY <2>1, <3>3, <3>5 DEF InStep
    <3> QED
      BY <1>1, <2>1, <2>2, <3>6, TalksNow
  <2>4. CASE serving' # c
    BY <1>1, <2>2, <2>4, TalksNow
  <2> QED
    BY <2>3, <2>4
<1>5. CASE pc[c] # "gone" /\ SendLine
  <2>1. /\ serving \in Clients /\ out # <<>> /\ out' = Tail(out)
        /\ \/ pc[serving] = "gone" /\ down' = down
           \/ down' = [down EXCEPT ![serving] = Append(@, Head(out))]
        /\ UNCHANGED <<pc, arg, local, copy, todo, uneven, up, closed, files,
                       serving, at, begun, left>>
    BY <1>5 DEF SendLine, Types, TypeOK, userVars
  <2>2. c = serving => t = down[c] \o out
    <3>1. /\ down[c] \in Seq(Replies) /\ out \in Seq(Replies)
      BY Typed
    <3>2. Append(down[c], Head(out)) \o Tail(out) = down[c] \o out
      BY <2>1, <3>1, ReceivedInside
    <3>3. c = serving => down'[c] = Append(down[c], Head(out))
      <4>1. PICK m : m = Append(down[c], Head(out))
        OBVIOUS
      <4>2. c = serving => down' = [down EXCEPT ![c] = m]
        BY <1>5, <2>1, <4>1
      <4>3. c \in DOMAIN down
        BY DEF Types, TypeOK
      <4> QED
        BY <4>1, <4>2, <4>3, Zenon
    <3> QED
      BY <1>1, <2>1, <3>2, <3>3
  <2>3. c # serving => down'[c] = down[c]
    BY <2>1 DEF Types, TypeOK
  <2>4. serving' = c => ~begun' /\ InStep(c, t)'
    <3>1. ASSUME serving = c PROVE ~begun /\ InStep(c, t)
      BY <1>5, <2>2, <3>1 DEF Talks
    <3> QED
      BY <2>1, <3>1, InStepKept
  <2>5. c \in closed' => pc'[c] \in {"answer", "prompt"} /\ down'[c] = <<>>
    <3>1. c \in closed => c # serving
      BY <2>1, FileAssumption DEF Places
    <3> QED
      BY <1>5, <2>1, <2>3, <3>1 DEF Talks
  <2> QED
    BY <1>1, <2>4, <2>5, TalksNow
<1>6. CASE /\ pc[c] # "gone"
           /\ CmdList \/ CmdGet \/ CmdLoad \/ RecvSize \/ RecvData \/ Unknown
  <2>1. Takes
    <3>1. (\E r : Request(r)) \/ RecvData
      BY <1>6 DEF CmdList, CmdGet, CmdLoad, RecvSize, Unknown, Command
    <3> QED
      BY <3>1, Receives DEF RecvData
  <2>2. UNCHANGED <<serving, closed>>
    BY <1>6 DEF CmdList, CmdGet, CmdLoad, RecvSize, RecvData, Unknown, Reply
  <2>3. UNCHANGED <<pc, down>>
    BY <2>1, TakesFrame DEF userVars
  <2>4. serving' = c => ~begun' /\ InStep(c, t)'
    <3>1. serving = c => ~begun
      BY <1>6 DEF Talks
    <3>2. ~begun => ~begun'
      BY <1>6, RequestFrame DEF CmdList, CmdGet, CmdLoad, RecvSize, RecvData,
                                Unknown, Command
    <3> QED
      BY <1>1, <1>6, <2>2, <3>1, <3>2, RequestInStep
  <2>5. c \in closed' => pc'[c] \in {"answer", "prompt"} /\ down'[c] = <<>>
    BY <1>6, <2>2, <2>3 DEF Talks
  <2> QED
    BY <1>1, <2>4, <2>5, TalksNow
<1>7. CASE pc[c] # "gone" /\ HangUp
  <2>1. PICK r \in {<<"quit", "quit">>, <<"text", Nothing>>} :
          /\ Request(r) /\ at = "command"
          /\ serving' = NoClient /\ closed' = closed \cup {serving}
    BY <1>7 DEF HangUp, Command
  <2>2. /\ UNCHANGED <<pc, down>> /\ serving \in Clients /\ out = <<>>
        /\ up[serving] # <<>> \/ pc[serving] = "gone"
    BY <2>1, Receives, TakesFrame DEF userVars
  <2>3. c = serving => pc[c] = "answer" /\ down[c] = <<>>
    <3>1. SUFFICES ASSUME c = serving PROVE pc[c] = "answer" /\ down[c] = <<>>
      OBVIOUS
    <3>2. out = <<>> /\ up[c] # <<>> /\ ~begun /\ r = up[c][1]
      <4>1. ~begun
        BY <1>7, <3>1 DEF Talks
      <4> QED
        BY <1>7, <2>1, <2>2, <3>1, <4>1, RequestFrame
    <3>3. r[1] \in {"quit", "text"}
      BY <2>1
    <3>4. /\ <<"list", "list">>[1] = "list" /\ <<"get", arg[c]>>[1] = "get"
          /\ <<"load", arg[c]>>[1] = "load"
      OBVIOUS
    <3>5. \A k : ~Pending(c, k)
      BY <2>1 DEF Pending
    <3> QED
      BY <1>7, <3>1, <3>2, <3>3, <3>4, <3>5, Asked
  <2>4. serving' # c
    BY <2>1, FileAssumption
  <2>5. c \in closed' => pc'[c] \in {"answer", "prompt"} /\ down'[c] = <<>>
    <3>1. c \in closed => pc[c] \in {"answer", "prompt"} /\ down[c] = <<>>
      BY <1>7 DEF Talks
    <3> QED
      BY <2>1, <2>2, <2>3, <3>1
  <2> QED
    BY <1>1, <2>4, <2>5, TalksNow
<1>8. CASE pc[c] # "gone" /\ (BeginLine \/ UploadFails)
  <2>1. Takes /\ UNCHANGED <<serving, closed>>
    BY <1>8, Receives DEF BeginLine, UploadFails, Reply
  <2>2. UNCHANGED <<pc, down>> /\ serving \in Clients /\ out = <<>>
    BY <2>1, TakesFrame DEF userVars
  <2>3. c # serving
    <3>1. SUFFICES ASSUME c = serving PROVE FALSE
      OBVIOUS
    <3>2. BeginLine
      BY <1>8, <3>1 DEF UploadFails, Ended
    <3>3. PICK r \in Requests :
            /\ at \in {"command", "size"} /\ Unterminated(r)
            /\ up[c] # <<>> /\ r = up[c][1]
      <4>1. up[c] # <<>> => Head(up[c]) = up[c][1]
        BY Typed, Taken
      <4> QED
        BY <3>1, <3>2, <4>1 DEF BeginLine, Arrives
    <3>4. r[1] = "text"
      BY <3>3 DEF Unterminated
    <3>5. /\ <<"list", "list">>[1] = "list" /\ <<"get", arg[c]>>[1] = "get"
          /\ <<"load", arg[c]>>[1] = "load"
      OBVIOUS
    <3>6. \A k : ~Pending(c, k)
      BY <3>3, <3>4 DEF Pending
    <3> QED
      BY <1>8, <2>2, <3>1, <3>3, <3>4, <3>5, <3>6, Asked
  <2>4. c \in closed' => pc'[c] \in {"answer", "prompt"} /\ down'[c] = <<>>
    BY <1>8, <2>1, <2>2 DEF Talks
  <2> QED
    BY <1>1, <2>1, <2>3, <2>4, TalksNow
<1> QED
  BY <1>3, <1>4, <1>5, <1>6, <1>7, <1>8 DEF Server

LEMMA InitIInv == Init => IInv
<1> SUFFICES ASSUME Init PROVE IInv
  OBVIOUS
<1>1. Transfer
  BY InitTransfer
<1>2. ASSUME NEW c \in Clients PROVE Talks(c)
  <2>1. c # serving /\ c \notin closed
    BY FileAssumption DEF Init
  <2> QED
    BY <2>1 DEF Talks
<1> QED
  BY <1>1, <1>2 DEF IInv, Conversation

LEMMA NextIInv == IInv /\ [Next]_vars => IInv'
<1> SUFFICES ASSUME IInv, [Next]_vars PROVE IInv'
  OBVIOUS
<1>1. /\ Transfer /\ Types /\ Places /\ \A c \in Clients : Streams(c)
      /\ \A c \in Clients \ astray : Talks(c)
  BY DEF IInv, Transfer, Conversation
<1>2. Transfer' /\ Types'
  <2>1. Transfer'
    BY <1>1, NextTransfer
  <2> QED
    BY <2>1 DEF Transfer
<1>3. ASSUME NEW c \in Clients, c \notin astray' PROVE Talks(c)'
  <2>1. CASE Server
    <3>1. astray \subseteq astray'
      BY <1>1, <2>1 DEF Server, Accept, SendLine, CmdList, CmdGet, CmdLoad,
                        RecvSize, RecvData, UploadFails, BeginLine, Unknown,
                        HangUp, Types, TypeOK
    <3> QED
      BY <1>1, <1>2, <1>3, <2>1, <3>1, ServerTalks
  <2>2. ASSUME NEW d \in Clients,
               \/ Prompt(d) \/ Listing(d) \/ Downloading(d) \/ Ready(d)
               \/ Uploading(d) \/ Answer(d)
               \/ Quit(d) \/ List(d) \/ Get(d) \/ Load(d) \/ Talk(d)
               \/ Leave(d)
        PROVE  Talks(c)'
    <3>1. Acts(d)
      BY <1>1, <2>2, ClientActs, UserActs
    <3>2. c \notin astray
      BY <1>3, <3>1 DEF Acts
    <3>3. CASE c = d
      BY <1>1, <1>3, <2>2, <3>1, <3>2, <3>3, ActsTalks
    <3>4. CASE c # d
      <4>1. /\ UNCHANGED <<local, files, at, left, begun, out, serving, closed>>
            /\ c \in uneven' <=> c \in uneven
            /\ pc'[c] = pc[c] /\ arg'[c] = arg[c] /\ copy'[c] = copy[c]
            /\ todo'[c] = todo[c] /\ up'[c] = up[c] /\ down'[c] = down[c]
        BY <3>1, <3>4 DEF Acts, serverVars
      <4> QED
        BY <1>1, <3>2, <4>1, TalksOther
    <3> QED
      BY <3>3, <3>4
  <2>3. ASSUME NEW d \in Clients, Connect(d) PROVE Talks(c)'
    <3>1. /\ UNCHANGED <<local, files, at, left, begun, out, serving, closed,
                         astray, uneven, arg, copy, todo, up, down>>
          /\ pc[d] = "start" /\ pc' = [pc EXCEPT ![d] = "prompt"]
      BY <2>3 DEF Connect, Goto, serverVars
    <3>2. CASE c = d
      <4>1. c # serving /\ c \notin closed
        BY <1>1, <3>1, <3>2, FileAssumption DEF Places
      <4> QED
        BY <3>1, <4>1 DEF Talks
    <3>3. CASE c # d
      <4>1. pc'[c] = pc[c]
        BY <1>1, <3>1, <3>3 DEF Types, TypeOK
      <4> QED
        BY <1>1, <1>3, <3>1, <4>1, TalksOther
    <3> QED
      BY <3>2, <3>3
  <2>4. CASE UNCHANGED vars
    BY <1>1, <1>3, <2>4, TalksOther DEF vars, userVars, wireVars, serverVars
  <2> QED
    BY <2>1, <2>2, <2>3, <2>4 DEF Next, Client, User
<1> QED
  BY <1>2, <1>3 DEF IInv, Conversation

(* At the prompt nothing is under way.                                     *)
LEMMA PromptIdle ==
    ASSUME IInv, NEW c \in Clients \ astray,
           pc[c] \in {"input", "list", "get", "ready", "send"}
    PROVE  /\ Types /\ serving = c /\ c \notin closed
           /\ InStep(c, down[c] \o out)
<1>1. Types /\ Places /\ Talks(c)
  BY DEF IInv, Transfer, Conversation
<1>2. ~Waiting(c)
  BY <1>1 DEF Places
<1> QED
  BY <1>1, <1>2, Served

LEMMA LockstepFollows == IInv => Lockstep
<1> SUFFICES ASSUME IInv, NEW c \in Clients \ astray, pc[c] = "input"
             PROVE  /\ serving = c /\ at = "command"
                    /\ out = <<>> /\ up[c] = <<>> /\ down[c] = <<>>
  BY DEF Lockstep
<1>1. Types /\ serving = c /\ InStep(c, down[c] \o out)
  BY PromptIdle
<1>2. PICK s : s = down[c] \o out
  OBVIOUS
<1>3. up[c] = <<>> /\ s = <<>> /\ at = "command"
  BY <1>1, <1>2 DEF InStep
<1>4. PICK l \in Seq(Replies), o \in Seq(Replies) : l = down[c] /\ o = out
  BY <1>1, Typed
<1>5. l \o o = <<>> => l = <<>> /\ o = <<>>
  BY ConcatEqualIffEmpty
<1>6. down[c] = <<>> /\ out = <<>>
  BY <1>2, <1>3, <1>4, <1>5
<1> QED
  BY <1>1, <1>3, <1>6

LEMMA DownloadFollows == IInv => DownloadExact
<1> SUFFICES ASSUME IInv, NEW c \in Clients \ astray, pc[c] = "get",
                    down[c] # <<>>, Head(down[c]) = "END"
             PROVE  copy[c] = Lines(files[arg[c]])
  BY DEF DownloadExact
<1>1. Types /\ InStep(c, down[c] \o out)
  BY PromptIdle
<1>2. down[c] \in Seq(Replies) /\ out \in Seq(Replies)
  BY <1>1, Typed
<1>3. PICK s \in Seq(Replies) : s = down[c] \o out /\ s # <<>> /\ s[1] = "END"
  <2>1. PICK l \in Seq(Replies), o \in Seq(Replies) : l = down[c] /\ o = out
    BY <1>2
  <2>2. l \o o \in Seq(Replies) /\ l \o o # <<>> /\ (l \o o)[1] = Head(l)
    BY <2>1, FirstOfWhole
  <2> QED
    BY <2>1, <2>2
<1>4. /\ arg[c] \in Names
      /\ Copying(c, s) \/ \A k \in 1 .. Len(s) : s[k] \notin {Nothing, "END"}
  BY <1>1, <1>3 DEF InStep, AtGet
<1>5. Copying(c, s)
  <2>1. 1 \in 1 .. Len(s)
    BY <1>3, Taken
  <2> QED
    BY <1>3, <1>4, <2>1
<1>6. PICK data : /\ data = Lines(files[arg[c]]) /\ Closes(s)
                  /\ files[arg[c]] # NoFile
  BY <1>5 DEF Copying
<1>7. files[arg[c]] \in Seq(Text) /\ copy[c] \in Seq(Replies)
  BY <1>1, <1>4, <1>6, Typed
<1>8. data \in Seq(Replies)
  BY <1>6, <1>7, LinesOf
<1>9. Len(s) = 2
  BY <1>3, <1>6, ClosesNext
<1>10. PICK m \in Nat, i \in Nat : m = Len(data) /\ i = Len(copy[c])
  BY <1>7, <1>8, LenProperties
<1>11. /\ 2 = m - i + 2
       /\ \A j \in 1 .. m : data[j] = IF j <= i THEN copy[c][j] ELSE s[j - i]
  <2>1. 2 # m + 3
    OBVIOUS
  <2> QED
    BY <1>5, <1>6, <1>9, <1>10, <2>1 DEF Copying, Rest
<1>12. m = i
  BY <1>11
<1>13. \A j \in 1 .. m : data[j] = copy[c][j]
  BY <1>11, <1>12
<1> QED
  BY <1>6, <1>7, <1>8, <1>10, <1>12, <1>13, SeqEqual

LEMMA HangsFollow == IInv => HangsKnown
<1> SUFFICES ASSUME IInv, NEW c \in Clients \ astray, Hung(c)
             PROVE  Unanswered(c)
  BY DEF HangsKnown
<1>1. /\ serving = c
      /\ IF out = <<>> THEN up[c] = <<>> ELSE Len(down[c]) = Room
      /\ \/ /\ pc[c] \in {"prompt", "list", "get", "ready", "answer"}
            /\ down[c] = <<>>
         \/ pc[c] = "send" /\ Len(up[c]) = Room
  BY DEF Hung
<1>2. Types /\ Talks(c)
  BY DEF IInv, Transfer, Conversation
<1>3. PICK s : s = down[c] \o out /\ InStep(c, s)
  BY <1>1, <1>2 DEF Talks
<1>4. /\ down[c] \in Seq(Replies) /\ out \in Seq(Replies)
      /\ Len(<<>>) = 0 /\ Room # 0
  BY <1>2, Typed, FileAssumption
<1>5. CASE pc[c] = "send" /\ Len(up[c]) = Room
  <2>1. s = <<>>
    BY <1>3, <1>5 DEF InStep
  <2>2. down[c] = <<>> /\ out = <<>>
    <3>1. PICK l \in Seq(Replies), o \in Seq(Replies) : l = down[c] /\ o = out
      BY <1>4
    <3>2. l \o o = <<>> => l = <<>> /\ o = <<>>
      BY ConcatEqualIffEmpty
    <3> QED
      BY <1>3, <2>1, <3>1, <3>2
  <2>3. up[c] = <<>>
    BY <1>1, <2>2
  <2> QED
    BY <1>4, <1>5, <2>3
<1>6. CASE /\ pc[c] \in {"prompt", "list", "get", "ready", "answer"}
           /\ down[c] = <<>>
  <2>1. out = <<>> /\ up[c] = <<>>
    BY <1>1, <1>4, <1>6
  <2>2. s = <<>>
    BY <1>3, <1>4, <1>6, <2>1, ConcatEmptySeq
  <2>3. <<"COMMANDS">> # <<>> /\ <<"READY">> # <<>>
        /\ <<"FAILED", "COMMANDS">> # <<>>
    OBVIOUS
  <2>4. ~Closes(s)
    <3>1. Len(s) = 0 /\ ~(0 >= 2)
      BY <2>2
    <3> QED
      BY <3>1 DEF Closes
  <2>5. \A r : <<r>> # <<>>
    OBVIOUS
  <2>6. CASE pc[c] = "prompt"
    <3>1. \/ arg[c] \in Names /\ local[c][arg[c]] = NoFile
          \/ at = "size"
      BY <1>3, <2>2, <2>3, <2>6 DEF InStep, AtPrompt
    <3> QED
      BY <2>6, <3>1, FileAssumption DEF Unanswered
  <2>7. CASE pc[c] = "list"
    BY <1>3, <2>1, <2>4, <2>5, <2>7 DEF InStep, AtList
  <2>8. CASE pc[c] = "get"
    <3>1. files[arg[c]] = NoFile
      BY <1>3, <2>1, <2>4, <2>5, <2>8 DEF InStep, AtGet, Copying
    <3> QED
      BY <2>8, <3>1 DEF Unanswered
  <2>9. CASE pc[c] = "ready"
    BY <1>3, <2>1, <2>2, <2>3, <2>5, <2>9 DEF InStep, AtReady
  <2>10. CASE pc[c] = "answer"
    <3>1. Pending(c, 0) => at = "data" /\ c \in uneven
      <4>1. left \in Nat /\ (at = "data" => left > 0)
        BY <1>2, Typed
      <4>2. PICK n \in Nat : n = left
        BY <4>1
      <4>3. Len(up[c]) = 0 /\ (n > 0 => 0 + 0 # n)
        BY <2>1
      <4> QED
        BY <2>1, <4>1, <4>2, <4>3 DEF Pending, Covers
    <3>2. Len(s) # 2
      BY <2>2
    <3>3. Pending(c, 0)
      BY <1>3, <2>1, <2>10, <3>2 DEF InStep, AtAnswer
    <3> QED
      BY <2>10, <3>1, <3>3 DEF Unanswered
  <2> QED
    BY <1>6, <2>6, <2>7, <2>8, <2>9, <2>10
<1> QED
  BY <1>1, <1>5, <1>6

-----------------------------------------------------------------------------
(* The theorems.                                                           *)

(* The inductive invariant holds throughout (Iserver.c:26-178,             *)
(* Iclient.c:18-166).                                                      *)
THEOREM Invariance == Spec => []IInv
BY InitIInv, NextIInv, PTL DEF Spec, SafeSpec

(* Types, at every step of both programs: a file on the server is text,    *)
(* the lines on a connection are replies, and data is outstanding only     *)
(* while the server receives data (Iserver.c:122-178, Iclient.c:18-166).   *)
THEOREM TypeCorrect == Spec => []TypeOK
<1>1. IInv => TypeOK
  BY DEF IInv, Transfer, Types
<1> QED
  BY <1>1, Invariance, PTL

(* An upload the server is about to call done is the whole of the client's *)
(* file, also when data has been taken for commands and commands for a     *)
(* size; but for an fwrite() that failed and was not checked, and a client *)
(* that has sent less or more of a file than the size it announced         *)
(* (Iserver.c:122-178, Iclient.c:107-147).                                 *)
THEOREM UploadsWhole == Spec => []UploadStored
<1>1. IInv => UploadStored
  BY DEF IInv, Transfer, Upload, UploadStored
<1> QED
  BY <1>1, Invariance, PTL

(* A client that has not gone astray has its prompt only when nothing is   *)
(* under way on its connection, so what it reads next answers what its     *)
(* user enters next (Iclient.c:19, Iserver.c:57).                          *)
THEOREM KeepsStep == Spec => []Lockstep
<1>1. IInv => Lockstep
  BY LockstepFollows
<1> QED
  BY <1>1, Invariance, PTL

(* When a client that has not gone astray reads the END of a file, its     *)
(* copy has the lines of the server's file, all and in order: each piece   *)
(* up to a NUL, with a newline behind it even where the file has none      *)
(* (Iclient.c:61-77, Iserver.c:100-120).                                   *)
THEOREM DownloadsTrue == Spec => []DownloadExact
<1>1. IInv => DownloadExact
  BY DownloadFollows
<1> QED
  BY <1>1, Invariance, PTL

(* The server and a client that has not gone astray wait for each other in *)
(* four ways only: get of a file the server does not have, load of one the *)
(* user does not have, a size that is never sent, and data that ends short *)
(* of the size sent for it (Iserver.c:57-77, Iclient.c:138).               *)
THEOREM HangsAreKnown == Spec => []HangsKnown
<1>1. IInv => HangsKnown
  BY HangsFollow
<1> QED
  BY <1>1, Invariance, PTL
=============================================================================
