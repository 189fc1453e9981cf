--------------------------- MODULE EpollChatProof ---------------------------
(***************************************************************************)
(* Proofs about the chat of week 11 (EpollChat), for every number of       *)
(* clients, descriptors and array entries and every size of the socket     *)
(* buffers.                                                                *)
(*                                                                         *)
(* IInv is the inductive invariant: Table says that array, descriptors and *)
(* pending events fit together, Talk what has been said by whom and how    *)
(* far it has come.                                                        *)
(***************************************************************************)
EXTENDS EpollChat, SequenceTheorems, TLAPS

(* The first entry of a sequence and the rest.                              *)
LEMMA Taken ==
    ASSUME NEW S, NEW s \in Seq(S), s # <<>>
    PROVE  /\ Head(s) = s[1] /\ Head(s) \in S
           /\ Tail(s) \in Seq(S)
           /\ Len(s) \in Nat /\ 1 \in 1 .. Len(s)
           /\ Len(Tail(s)) = Len(s) - 1
           /\ \A k \in 1 .. Len(Tail(s)) : /\ k + 1 \in 1 .. Len(s)
                                           /\ Tail(s)[k] = s[k + 1]
BY HeadTailProperties, EmptySeq, LenProperties

(* An entry at the end of a sequence.                                       *)
LEMMA Added ==
    ASSUME NEW S, NEW s \in Seq(S), NEW e \in S
    PROVE  /\ Append(s, e) \in Seq(S) /\ Append(s, e) # <<>>
           /\ Len(s) \in Nat
           /\ Len(Append(s, e)) = Len(s) + 1
           /\ \A k \in 1 .. Len(s) : Append(s, e)[k] = s[k]
           /\ Append(s, e)[Len(s) + 1] = e
BY AppendProperties, LenProperties

(* A message added to the end of the second part is added to the whole.    *)
LEMMA AppendInside ==
    ASSUME NEW S, NEW l \in Seq(S), NEW s \in Seq(S), NEW m \in S
    PROVE  /\ l \o Append(s, m) = Append(l \o s, m)
           /\ (l \o s) \o <<m>> = Append(l \o s, m)
           /\ (l \o s) \o <<>> = l \o s
           /\ l \o s \in Seq(S)
<1>1. l \o s \in Seq(S) /\ <<m>> \in Seq(S)
  BY ConcatProperties
<1>2. PICK w \in Seq(S) : w = l \o s
  BY <1>1
<1>3. Append(w, m) = w \o <<m>> /\ Append(s, m) = s \o <<m>> /\ w \o <<>> = w
  BY AppendIsConcat, ConcatEmptySeq
<1>4. (l \o s) \o <<m>> = l \o (s \o <<m>>)
  BY <1>1, ConcatAssociative
<1> QED
  BY <1>1, <1>2, <1>3, <1>4

(* A sequence is its first entry and then the rest.                         *)
LEMMA HeadAndTail ==
    ASSUME NEW S, NEW s \in Seq(S), s # <<>>
    PROVE  /\ <<Head(s)>> \in Seq(S) /\ Tail(s) \in Seq(S)
           /\ s = <<Head(s)>> \o Tail(s)
<1>1. Len(s) \in Nat \ {0} /\ Head(s) = s[1] /\ Head(s) \in S /\ Tail(s) \in Seq(S)
  BY EmptySeq, HeadTailProperties
<1>2. PICK n \in Nat \ {0} : n = Len(s) /\ 1 \in 1 .. n /\ n \in 1 .. n
  BY <1>1
<1>3. SubSeq(s, 1, n) = <<s[1]>> \o SubSeq(s, 2, n)
  BY <1>2, SubSeqRecursiveFirst
<1>4. SubSeq(s, 1, n) = s /\ Tail(s) = SubSeq(s, 2, n)
  BY <1>2, SubSeqFull, TailIsSubSeq
<1> QED
  BY <1>1, <1>3, <1>4

(* The first entry of the second part moves to the end of the first.       *)
LEMMA ReceivedInside ==
    ASSUME NEW S, NEW l \in Seq(S), NEW s \in Seq(S), s # <<>>
    PROVE  Append(l, Head(s)) \o Tail(s) = l \o s
<1>1. PICK h \in Seq(S), t \in Seq(S) :
            h = <<Head(s)>> /\ t = Tail(s) /\ s = h \o t
  BY HeadAndTail
<1>2. Append(l, Head(s)) = l \o h
  BY <1>1, HeadTailProperties, AppendIsConcat
<1>3. (l \o h) \o t = l \o (h \o t)
  BY ConcatAssociative
<1> QED
  BY <1>1, <1>2, <1>3

(* What is in neither part is not in the whole.                            *)
LEMMA InEither ==
    ASSUME NEW S, NEW l \in Seq(S), NEW s \in Seq(S), NEW m,
           \A k \in 1 .. Len(l) : l[k] # m,
           \A k \in 1 .. Len(s) : s[k] # m
    PROVE  \A k \in 1 .. Len(l \o s) : (l \o s)[k] # m
<1>1. PICK x \in Nat, y \in Nat : x = Len(l) /\ y = Len(s)
  BY LenProperties
<1>2. /\ Len(l \o s) = x + y
      /\ \A k \in 1 .. x + y :
            (l \o s)[k] = IF k <= x THEN l[k] ELSE s[k - x]
  BY <1>1, ConcatProperties
<1>3. \A k \in 1 .. x + y :
            \/ k <= x /\ k \in 1 .. x
            \/ ~(k <= x) /\ k - x \in 1 .. y
  OBVIOUS
<1> QED
  BY <1>1, <1>2, <1>3

-----------------------------------------------------------------------------
Open(f) == sock[f] # NoClient

(* An open descriptor is in the array, once, and no other.                 *)
Listed ==
    /\ \A j, k \in 1 .. Count :
            client_sockets[j] = client_sockets[k] /\ j # k =>
                client_sockets[j] = NoFd
    /\ \A f \in Fds :
            Open(f) <=> \E k \in 1 .. Count : client_sockets[k] = f

(* A client is on one descriptor at most, and either there or queued.      *)
Connections ==
    /\ \A f, g \in Fds : Open(f) /\ sock[f] = sock[g] => f = g
    /\ \A f \in Fds : Open(f) => phase[sock[f]] # "start"
    /\ \A a, b \in 1 .. Len(backlog) : backlog[a] = backlog[b] => a = b
    /\ \A a \in 1 .. Len(backlog) :
            /\ phase[backlog[a]] # "start"
            /\ \A f \in Fds : sock[f] # backlog[a]

Events ==
    /\ \A f \in batch \ {Listen} : Readable(f)
    /\ Listen \in batch => backlog # <<>>

Loop == IF Idle THEN next = 0 ELSE next > 0 /\ from \in Fds

Table == TypeOK /\ Listed /\ Connections /\ Events /\ Loop

(* m is older than what its author is about to write ...                   *)
Written(m) == /\ m[2] <= said
              /\ phase[m[1]] = "write" => m[2] < said

(* ... and than what the server has not read from it yet.                  *)
Past(m) == /\ Written(m)
           /\ \A k \in 1 .. Len(up[m[1]]) : m[2] < up[m[1]][k][2]

Unread(c) ==
    \A k \in 1 .. Len(up[c]) :
        /\ up[c][k][1] = c
        /\ Written(up[c][k])
        /\ \A l \in k + 1 .. Len(up[c]) : up[c][k][2] < up[c][l][2]

AllPast(s) == \A k \in 1 .. Len(s) : Past(s[k])

Talk ==
    /\ \A c \in Clients : phase[c] = "write" => said > 0
    /\ \A c \in Clients : Unread(c)
    /\ ~Idle => Past(msg)
    /\ \A c \in Clients : AllPast(log[c]) /\ AllPast(down[c])
    /\ \A c \in Clients :
            phase[c] # "gone" /\ (\A f \in Fds : sock[f] # c) =>
                log[c] = <<>> /\ down[c] = <<>>

IInv == Table /\ Talk

-----------------------------------------------------------------------------
(* The removal of entry j, whose place the last one takes.                 *)
LEMMA LastMoved ==
    ASSUME NEW S, NEW s \in Seq(S), NEW j \in 1 .. Len(s), NEW t,
           t = SubSeq([s EXCEPT ![j] = s[Len(s)]], 1, Len(s) - 1)
    PROVE  /\ t \in Seq(S) /\ Len(t) = Len(s) - 1 /\ Len(s) \in Nat
           /\ \A k \in 1 .. Len(t) :
                t[k] = IF k = j THEN s[Len(s)] ELSE s[k]
<1>1. Len(s) \in Nat /\ Len(s) \in 1 .. Len(s) /\ s[Len(s)] \in S
  BY LenProperties, ElementOfSeq
<1>2. PICK r : r = [s EXCEPT ![j] = s[Len(s)]]
  OBVIOUS
<1>3. /\ r \in Seq(S) /\ Len(r) = Len(s)
      /\ \A k \in 1 .. Len(s) : r[k] = IF k = j THEN s[Len(s)] ELSE s[k]
  BY <1>1, <1>2, ExceptSeq
<1>4. PICK n \in Int : n = Len(s) - 1 /\ n >= 0 /\ n - 1 + 1 = n
  BY <1>1
<1>5. \A k \in 1 .. n : r[k] \in S
  BY <1>1, <1>3, <1>4, ElementOfSeq
<1>6. /\ SubSeq(r, 1, n) \in Seq(S)
      /\ Len(SubSeq(r, 1, n)) = IF 1 <= n THEN n - 1 + 1 ELSE 0
      /\ \A k \in 1 .. n - 1 + 1 : SubSeq(r, 1, n)[k] = r[1 + k - 1]
  BY <1>5, SubSeqProperties
<1>7. /\ t \in Seq(S) /\ Len(t) = n
      /\ \A k \in 1 .. n : t[k] = r[k]
  BY <1>2, <1>4, <1>6
<1> QED
  BY <1>1, <1>3, <1>4, <1>7

-----------------------------------------------------------------------------
(* The table through the steps of the server.                              *)

LEMMA InitTable == Init => Table
<1> SUFFICES ASSUME Init PROVE Table
  OBVIOUS
<1> USE EpollAssumption DEF Init
<1>1. TypeOK
  BY DEF TypeOK, Count, NoMessage
<1>2. Listed /\ Connections /\ Events /\ Loop
  BY DEF Listed, Connections, Events, Loop, Open, Count, Idle, NoMessage
<1> QED
  BY <1>1, <1>2 DEF Table

LEMMA EpollWaitTable == Table /\ EpollWait => Table'
<1> SUFFICES ASSUME Table, EpollWait PROVE Table'
  OBVIOUS
<1> USE DEF EpollWait, clientVars, castVars
<1>1. TypeOK'
  BY DEF Table, TypeOK, Count
<1>2. Listed' /\ Connections' /\ Loop'
  BY DEF Table, Listed, Connections, Loop, Open, Count, Idle
<1>3. Events'
  BY EpollAssumption DEF Events, Readable
<1> QED
  BY <1>1, <1>2, <1>3 DEF Table

LEMMA AcceptTable == Table /\ Accept => Table'
<1> SUFFICES ASSUME Table, Accept PROVE Table'
  OBVIOUS
<1> USE DEF Accept, Handle, castVars, Count
<1>1. PICK f \in Fds :
        /\ sock[f] = NoClient
        /\ sock' = [sock EXCEPT ![f] = Head(backlog)]
        /\ client_sockets' = Append(client_sockets, f)
  OBVIOUS
<1>2. /\ backlog \in Seq(Clients) /\ backlog # <<>>
      /\ sock \in [Fds -> Clients \cup {NoClient}]
      /\ client_sockets \in Seq(Fds \cup {NoFd})
      /\ Len(client_sockets) < MaxSockets
  BY DEF Table, TypeOK, Events
<1>3. PICK c : c = Head(backlog)
  OBVIOUS
<1>4. /\ c = backlog[1] /\ c \in Clients /\ c # NoClient
      /\ backlog' \in Seq(Clients)
      /\ Len(backlog) \in Nat /\ 1 \in 1 .. Len(backlog)
      /\ Len(backlog') = Len(backlog) - 1
      /\ \A a \in 1 .. Len(backlog') : /\ a + 1 \in 1 .. Len(backlog)
                                       /\ backlog'[a] = backlog[a + 1]
  BY <1>2, <1>3, Taken, EpollAssumption
<1>5. /\ client_sockets' \in Seq(Fds \cup {NoFd})
      /\ Len(client_sockets) \in Nat
      /\ Len(client_sockets') = Len(client_sockets) + 1
      /\ \A k \in 1 .. Len(client_sockets) :
            client_sockets'[k] = client_sockets[k]
      /\ client_sockets'[Len(client_sockets) + 1] = f
  BY <1>1, <1>2, Added
<1>6. /\ sock'[f] = c /\ \A g \in Fds \ {f} : sock'[g] = sock[g]
      /\ sock' \in [Fds -> Clients \cup {NoClient}]
      /\ phase' = phase /\ up' = up /\ batch' = batch \ {Listen}
  BY <1>1, <1>2, <1>3, <1>4
<1> HIDE DEF Accept, Handle
<1>7. TypeOK'
  BY <1>2, <1>4, <1>5, <1>6, EpollAssumption
  DEF Table, TypeOK, Accept, Handle, Loop
<1>8. Listed'
  <2>1. \A k \in 1 .. Len(client_sockets) : client_sockets[k] # f
    BY <1>1 DEF Table, Listed, Open
  <2>2. \A j, k \in 1 .. Len(client_sockets') :
            client_sockets'[j] = client_sockets'[k] /\ j # k =>
                client_sockets'[j] = NoFd
    BY <1>5, <2>1 DEF Table, Listed
  <2>3. ASSUME NEW g \in Fds
        PROVE  sock'[g] # NoClient <=>
                 \E k \in 1 .. Len(client_sockets') : client_sockets'[k] = g
    <3>1. CASE g = f
      BY <1>4, <1>5, <1>6, <3>1
    <3>2. CASE g # f
      BY <1>5, <1>6, <3>2 DEF Table, Listed, Open
    <3> QED
      BY <3>1, <3>2
  <2> QED
    BY <2>2, <2>3 DEF Listed, Open
<1>9. Connections'
  <2>1. /\ phase[c] # "start"
        /\ \A g \in Fds : sock[g] # c
        /\ \A a \in 1 .. Len(backlog') : backlog'[a] # c
    BY <1>4 DEF Table, Connections
  <2>2. /\ \A a, b \in 1 .. Len(backlog') : backlog'[a] = backlog'[b] => a = b
        /\ \A a \in 1 .. Len(backlog') :
              /\ phase[backlog'[a]] # "start"
              /\ \A g \in Fds : sock[g] # backlog'[a]
    BY <1>4 DEF Table, Connections
  <2>3. \A a \in 1 .. Len(backlog') : \A g \in Fds : sock'[g] # backlog'[a]
    BY <1>6, <2>1, <2>2
  <2>4. \A g \in Fds : sock'[g] # NoClient => phase[sock'[g]] # "start"
    BY <1>6, <2>1 DEF Table, Connections, Open
  <2>5. \A g, h \in Fds : sock'[g] # NoClient /\ sock'[g] = sock'[h] => g = h
    BY <1>6, <2>1 DEF Table, Connections, Open
  <2> QED
    BY <1>6, <2>2, <2>3, <2>4, <2>5 DEF Connections, Open
<1>10. Events' /\ Loop'
  <2>1. \A g \in batch \ {Listen} : g \in Fds /\ sock[g] # NoClient /\ Readable(g)
    BY DEF Table, TypeOK, Events, Readable
  <2>2. \A g \in batch' \ {Listen} : Readable(g)'
    BY <1>1, <1>6, <2>1 DEF Readable
  <2> QED
    BY <1>6, <2>2 DEF Table, Events, Loop, Idle, Accept, Handle
<1> QED
  BY <1>7, <1>8, <1>9, <1>10 DEF Table

LEMMA AcceptFailsTable == Table /\ AcceptFails => Table'
<1> SUFFICES ASSUME Table, AcceptFails PROVE Table'
  OBVIOUS
<1> USE DEF AcceptFails, Handle, castVars, clientVars, Count
<1>1. /\ client_sockets \in Seq(Fds \cup {NoFd})
      /\ Len(client_sockets) < MaxSockets
  BY DEF Table, TypeOK
<1>2. /\ client_sockets' \in Seq(Fds \cup {NoFd})
      /\ Len(client_sockets) \in Nat
      /\ Len(client_sockets') = Len(client_sockets) + 1
      /\ \A k \in 1 .. Len(client_sockets) :
            client_sockets'[k] = client_sockets[k]
      /\ client_sockets'[Len(client_sockets) + 1] = NoFd
  BY <1>1, Added
<1>3. TypeOK'
  BY <1>1, <1>2, EpollAssumption DEF Table, TypeOK
<1>4. Listed'
  <2>1. NoFd \notin Fds
    BY EpollAssumption
  <2>2. \A j, k \in 1 .. Len(client_sockets') :
            client_sockets'[j] = client_sockets'[k] /\ j # k =>
                client_sockets'[j] = NoFd
    BY <1>2 DEF Table, Listed
  <2>3. ASSUME NEW g \in Fds
        PROVE  sock'[g] # NoClient <=>
                 \E k \in 1 .. Len(client_sockets') : client_sockets'[k] = g
    BY <1>2, <2>1 DEF Table, Listed, Open
  <2> QED
    BY <2>2, <2>3 DEF Listed, Open
<1>5. Connections' /\ Events' /\ Loop'
  BY DEF Table, Connections, Events, Loop, Open, Idle, Readable
<1> QED
  BY <1>3, <1>4, <1>5 DEF Table

LEMMA AcceptOverrunTable == Table /\ AcceptOverrun => Table'
<1> SUFFICES ASSUME Table, AcceptOverrun PROVE Table'
  OBVIOUS
<1> USE DEF AcceptOverrun, Handle, castVars, clientVars
<1>1. TypeOK'
  BY DEF Table, TypeOK, Count
<1>2. Listed' /\ Connections' /\ Events' /\ Loop'
  BY DEF Table, Listed, Connections, Events, Loop, Open, Idle, Readable, Count
<1> QED
  BY <1>1, <1>2 DEF Table

(* The last entry fills the gap, also when it is the closed one itself.    *)
LEMMA CloseTable ==
    ASSUME Table, NEW f \in Fds, Close(f)
    PROVE  Table' /\ phase[sock[f]] = "gone"
<1> USE DEF Close, Handle, castVars, clientVars, Count
<1>1. /\ client_sockets \in Seq(Fds \cup {NoFd})
      /\ Len(client_sockets) \in Nat /\ Len(client_sockets) <= MaxSockets
      /\ sock \in [Fds -> Clients \cup {NoClient}]
      /\ Readable(f) /\ NoFd \notin Fds /\ f # Listen
      /\ next = 0
  BY EpollAssumption, LenProperties DEF Table, TypeOK, Events, Loop
<1>2. PICK j \in 1 .. Len(client_sockets) :
        /\ client_sockets[j] = f
        /\ client_sockets' =
            SubSeq([client_sockets EXCEPT
                        ![j] = client_sockets[Len(client_sockets)]],
                   1, Len(client_sockets) - 1)
  OBVIOUS
<1>3. PICK n \in Nat : n = Len(client_sockets) /\ n > 0 /\ j \in 1 .. n
  BY <1>1, <1>2
<1>4. /\ client_sockets' \in Seq(Fds \cup {NoFd})
      /\ Len(client_sockets') = n - 1
      /\ \A k \in 1 .. n - 1 :
           client_sockets'[k] =
             IF k = j THEN client_sockets[n] ELSE client_sockets[k]
  BY <1>1, <1>2, <1>3, LastMoved
<1>5. /\ sock'[f] = NoClient /\ sock' \in [Fds -> Clients \cup {NoClient}]
      /\ \A g \in Fds \ {f} : sock'[g] = sock[g]
      /\ UNCHANGED <<phase, said, up, down, log, backlog, reset, msg, from,
                     next, server>>
      /\ batch' = batch \ {f}
  BY <1>1
<1>6. phase[sock[f]] = "gone"
  BY <1>1 DEF Readable
<1> HIDE DEF Close, Handle
<1>7. TypeOK'
  <2>1. Len(client_sockets') <= MaxSockets /\ next' \in 0 .. Len(client_sockets') + 1
    BY <1>1, <1>3, <1>4, <1>5, EpollAssumption
  <2> QED
    BY <1>4, <1>5, <2>1 DEF Table, TypeOK
<1>8. Listed'
  <2>1. \A k, l \in 1 .. n : client_sockets[k] = client_sockets[l] /\ k # l =>
            client_sockets[k] = NoFd
    BY <1>3 DEF Table, Listed
  <2>2. \A k, l \in 1 .. n - 1 :
            client_sockets'[k] = client_sockets'[l] /\ k # l =>
                client_sockets'[k] = NoFd
    <3>1. ASSUME NEW k \in 1 .. n - 1, NEW l \in 1 .. n - 1, k # l
          PROVE  \E x, y \in 1 .. n :
                    /\ x # y
                    /\ client_sockets'[k] = client_sockets[x]
                    /\ client_sockets'[l] = client_sockets[y]
      <4>1. n \in 1 .. n /\ k \in 1 .. n /\ l \in 1 .. n /\ k # n /\ l # n
        BY <1>3
      <4>2. CASE k = j
        BY <1>4, <3>1, <4>1, <4>2
      <4>3. CASE l = j
        BY <1>4, <3>1, <4>1, <4>3
      <4>4. CASE k # j /\ l # j
        BY <1>4, <3>1, <4>1, <4>4
      <4> QED
        BY <4>2, <4>3, <4>4
    <3>2. ASSUME NEW k \in 1 .. n - 1, NEW l \in 1 .. n - 1, k # l,
                 client_sockets'[k] = client_sockets'[l]
          PROVE  client_sockets'[k] = NoFd
      <4>1. PICK x \in 1 .. n, y \in 1 .. n :
                /\ x # y
                /\ client_sockets'[k] = client_sockets[x]
                /\ client_sockets'[l] = client_sockets[y]
        BY <3>1, <3>2
      <4> QED
        BY <2>1, <3>2, <4>1
    <3> QED
      BY <3>2
  <2>3. ASSUME NEW g \in Fds
        PROVE  sock'[g] # NoClient <=>
                 \E k \in 1 .. n - 1 : client_sockets'[k] = g
    <3>1. CASE g = f
      <4>1. \A k \in 1 .. n - 1 : client_sockets'[k] # f
        BY <1>1, <1>2, <1>3, <1>4, <2>1
      <4> QED
        BY <1>5, <3>1, <4>1
    <3>2. CASE g # f
      <4>1. sock'[g] # NoClient <=> \E k \in 1 .. n : client_sockets[k] = g
        BY <1>3, <1>5, <3>2 DEF Table, Listed, Open
      <4>2. ASSUME NEW k \in 1 .. n, client_sockets[k] = g
            PROVE  \E l \in 1 .. n - 1 : client_sockets'[l] = g
        <5>1. k # j
          BY <1>2, <3>2, <4>2
        <5>2. CASE k = n
          BY <1>3, <1>4, <4>2, <5>1, <5>2
        <5>3. CASE k # n
          BY <1>3, <1>4, <4>2, <5>1, <5>3
        <5> QED
          BY <5>2, <5>3
      <4>3. ASSUME NEW l \in 1 .. n - 1, client_sockets'[l] = g
            PROVE  \E k \in 1 .. n : client_sockets[k] = g
        BY <1>3, <1>4, <4>3
      <4> QED
        BY <4>1, <4>2, <4>3
    <3> QED
      BY <3>1, <3>2
  <2> QED
    BY <1>4, <2>2, <2>3 DEF Listed, Open
<1>9. Connections'
  <2>1. \A g \in Fds : sock'[g] # NoClient => g # f /\ sock'[g] = sock[g]
    BY <1>5
  <2>2. \A a \in 1 .. Len(backlog) : backlog[a] # NoClient
    <3>1. backlog \in Seq(Clients)
      BY DEF Table, TypeOK
    <3>2. \A a \in 1 .. Len(backlog) : backlog[a] \in Clients
      BY <3>1, ElementOfSeq
    <3> QED
      BY <3>2, EpollAssumption
  <2> QED
    BY <1>5, <2>1, <2>2 DEF Table, Connections, Open
<1>10. Events'
  <2>1. \A g \in batch' \ {Listen} : g \in Fds \ {f} /\ Readable(g)
    BY <1>5 DEF Table, TypeOK, Events
  <2> QED
    BY <1>1, <1>5, <2>1 DEF Table, Events, Readable
<1>11. Loop'
  BY <1>5 DEF Table, Loop, Idle
<1> QED
  BY <1>6, <1>7, <1>8, <1>9, <1>10, <1>11 DEF Table

LEMMA MessagesSaySomething == \A m \in Messages : m # NoMessage
<1> SUFFICES ASSUME NEW m \in Messages PROVE m # NoMessage
  OBVIOUS
<1>1. PICK c \in Clients, n \in 1 .. MaxSaid : m = <<c, n>>
  BY DEF Messages
<1>2. Len(<<c, n>>) = 2 /\ Len(<<>>) = 0
  OBVIOUS
<1> QED
  BY <1>1, <1>2 DEF NoMessage

LEMMA ReadTable ==
    ASSUME Table, NEW f \in Fds, Read(f)
    PROVE  Table'
<1> USE DEF Read, Handle
<1>1. /\ sock[f] \in Clients /\ f # Listen
      /\ up \in [Clients -> Seq(Messages)] /\ up[sock[f]] # <<>>
      /\ Count \in Nat
  BY EpollAssumption, LenProperties DEF Table, TypeOK, Events, Readable, Count
<1>2. /\ msg' \in Messages /\ msg' # NoMessage
      /\ up' \in [Clients -> Seq(Messages)]
      /\ \A c \in Clients \ {sock[f]} : up'[c] = up[c]
  BY <1>1, Taken, MessagesSaySomething
<1>3. TypeOK'
  <2>1. /\ batch' \subseteq Fds \cup {Listen}
        /\ from' \in Fds \cup {Listen} /\ next' \in 0 .. Count + 1
    BY <1>1 DEF Table, TypeOK
  <2>2. UNCHANGED <<phase, said, down, log, backlog, reset, sock,
                    client_sockets, server>>
    OBVIOUS
  <2> HIDE DEF Read, Handle
  <2> QED
    BY <1>2, <2>1, <2>2 DEF Table, TypeOK, Count
<1>4. Listed' /\ Connections' /\ Loop'
  BY <1>2 DEF Table, Listed, Connections, Loop, Open, Count, Idle
<1>5. Events'
  <2>1. ASSUME NEW g \in batch' \ {Listen} PROVE Readable(g)'
    <3>1. g \in Fds \ {f} /\ Readable(g)
      BY <2>1 DEF Table, TypeOK, Events
    <3>2. sock[g] # sock[f] /\ sock[g] \in Clients
      BY <1>1, <3>1 DEF Table, TypeOK, Connections, Open, Readable
    <3> QED
      BY <1>2, <3>1, <3>2 DEF Readable
  <2> QED
    BY <1>1, <2>1 DEF Table, Events
<1> QED
  BY <1>3, <1>4, <1>5 DEF Table

LEMMA ReadErrorTable ==
    ASSUME Table, NEW f \in Fds, ReadError(f)
    PROVE  Table'
<1> USE DEF ReadError, Handle, castVars
<1>1. TypeOK'
  BY DEF Table, TypeOK, Count
<1>2. Listed' /\ Connections' /\ Events' /\ Loop'
  BY EpollAssumption
  DEF Table, Listed, Connections, Events, Loop, Open, Count, Idle, Readable
<1> QED
  BY <1>1, <1>2 DEF Table

(* The client that the loop writes to next.                                *)
LEMMA NextPeer ==
    ASSUME Table, ~Idle, next <= Count, client_sockets[next] \notin {from, NoFd}
    PROVE  /\ next \in 1 .. Count
           /\ client_sockets[next] \in Fds
           /\ Peer(next) = sock[client_sockets[next]]
           /\ Peer(next) \in Clients
<1>1. next \in 1 .. Count
  BY LenProperties DEF Table, TypeOK, Loop, Count
<1>2. client_sockets[next] \in Fds
  BY <1>1, ElementOfSeq DEF Table, TypeOK, Count
<1>3. Open(client_sockets[next])
  BY <1>1, <1>2 DEF Table, Listed
<1> QED
  BY <1>1, <1>2, <1>3 DEF Peer, Open, Table, TypeOK

LEMMA WriteTable == Table /\ Write => Table'
<1> SUFFICES ASSUME Table, Write PROVE Table'
  OBVIOUS
<1> USE DEF Write
<1>1. /\ msg \in Messages /\ Count \in Nat /\ next \in Nat
      /\ down \in [Clients -> Seq(Messages)]
  BY LenProperties DEF Table, TypeOK, Idle, Count
<1>2. down' \in [Clients -> Seq(Messages)]
  <2>1. CASE down' = down
    BY <1>1, <2>1
  <2>2. CASE down' = [down EXCEPT ![Peer(next)] = Append(@, msg)]
             /\ client_sockets[next] \notin {from, NoFd}
    BY <1>1, <2>2, NextPeer, Added
  <2> QED
    BY <2>1, <2>2
<1>3. server' \in {"running", "killed", "overrun"}
  BY DEF Table, TypeOK
<1>4. next' \in 0 .. Count + 1 /\ next' > 0
  BY <1>1
<1>5. TypeOK'
  BY <1>1, <1>2, <1>3, <1>4 DEF Table, TypeOK, Count
<1>6. Listed' /\ Connections' /\ Events' /\ Loop'
  BY <1>4
  DEF Table, Listed, Connections, Events, Loop, Open, Count, Idle, Readable
<1> QED
  BY <1>5, <1>6 DEF Table

LEMMA BroadcastEndTable == Table /\ BroadcastEnd => Table'
<1> SUFFICES ASSUME Table, BroadcastEnd PROVE Table'
  OBVIOUS
<1> USE DEF BroadcastEnd, clientVars
<1>1. TypeOK'
  BY LenProperties DEF Table, TypeOK, Count, NoMessage
<1>2. Listed' /\ Connections' /\ Events' /\ Loop'
  BY DEF Table, Listed, Connections, Events, Loop, Open, Count, Idle, Readable
<1> QED
  BY <1>1, <1>2 DEF Table

-----------------------------------------------------------------------------
(* The table through the steps of the clients.                             *)

LEMMA ConnectTable ==
    ASSUME Table, NEW c \in Clients, Connect(c)
    PROVE  Table'
<1> USE DEF Connect, serverVars, castVars
<1>1. /\ backlog \in Seq(Clients) /\ phase[c] = "start"
      /\ phase \in [Clients -> {"start", "wait", "write", "gone"}]
      /\ phase' = [phase EXCEPT ![c] = "wait"]
  BY DEF Table, TypeOK
<1>2. /\ backlog' \in Seq(Clients) /\ backlog' # <<>>
      /\ Len(backlog) \in Nat /\ Len(backlog') = Len(backlog) + 1
      /\ \A a \in 1 .. Len(backlog) : /\ backlog'[a] = backlog[a]
                                      /\ backlog[a] \in Clients
      /\ backlog'[Len(backlog) + 1] = c
  BY <1>1, Added, ElementOfSeq
<1>3. TypeOK'
  <2>1. phase' \in [Clients -> {"start", "wait", "write", "gone"}]
    BY <1>1
  <2>2. UNCHANGED <<said, up, down, log, reset, serverVars>>
    OBVIOUS
  <2> HIDE DEF Connect
  <2> QED
    BY <1>2, <2>1, <2>2 DEF Table, TypeOK, Count
<1>4. Listed' /\ Loop'
  BY DEF Table, Listed, Loop, Open, Count, Idle
<1>5. Connections'
  <2> HIDE DEF Connect
  <2>1. /\ sock' = sock
        /\ \A f \in Fds : sock[f] \in Clients \cup {NoClient}
    BY DEF Connect, Table, TypeOK
  <2>2. /\ \A a \in 1 .. Len(backlog) : backlog[a] # c
        /\ \A f \in Fds : sock[f] # c
    BY <1>1, EpollAssumption DEF Table, Connections, Open
  <2>3. \A a, b \in 1 .. Len(backlog') : backlog'[a] = backlog'[b] => a = b
    BY <1>2, <2>2 DEF Table, Connections
  <2>4. \A a \in 1 .. Len(backlog') :
              /\ phase'[backlog'[a]] # "start"
              /\ \A f \in Fds : sock[f] # backlog'[a]
    BY <1>1, <1>2, <2>2 DEF Table, Connections
  <2>5. \A f \in Fds : Open(f) => phase'[sock[f]] # "start"
    BY <1>1, <2>1, <2>2 DEF Table, Connections, Open
  <2> QED
    BY <2>1, <2>3, <2>4, <2>5 DEF Table, Connections, Open
<1>6. Events'
  <2>1. \A f \in batch \ {Listen} : sock[f] \in Clients
    BY DEF Table, TypeOK, Events, Readable
  <2> QED
    BY <1>1, <1>2, <2>1 DEF Table, Events, Readable
<1> QED
  BY <1>3, <1>4, <1>5, <1>6 DEF Table

(* Reading the keyboard, writing to the server, reading from it, leaving.  *)
LEMMA TalkTable ==
    ASSUME Table, NEW c \in Clients, NEW to \in {"wait", "write", "gone"},
           phase[c] # "start", phase[c] # "gone",
           phase' = [phase EXCEPT ![c] = to],
           said' \in 0 .. MaxSaid,
           up' \in [Clients -> Seq(Messages)],
           \A d \in Clients : up'[d] = <<>> => up[d] = <<>>,
           down' \in [Clients -> Seq(Messages)],
           log' \in [Clients -> Seq(Messages)],
           reset' \subseteq Clients,
           UNCHANGED <<backlog, serverVars>>
    PROVE  Table'
<1> USE DEF serverVars, castVars
<1>1. TypeOK'
  BY DEF Table, TypeOK, Count
<1>2. Listed' /\ Loop'
  BY DEF Table, Listed, Loop, Open, Count, Idle
<1>3. Connections'
  <2>1. /\ \A f \in Fds : Open(f) => sock[f] \in Clients
        /\ \A a \in 1 .. Len(backlog) : backlog[a] \in Clients
    BY ElementOfSeq DEF Table, TypeOK, Open
  <2> QED
    BY <2>1 DEF Table, TypeOK, Connections, Open
<1>4. Events'
  <2>1. \A f \in batch \ {Listen} : f \in Fds /\ Readable(f) /\ sock[f] \in Clients
    BY DEF Table, TypeOK, Events, Readable
  <2> QED
    BY <2>1 DEF Table, TypeOK, Events, Readable
<1> QED
  BY <1>1, <1>2, <1>3, <1>4 DEF Table

LEMMA ClientTable ==
    ASSUME Table, NEW c \in Clients,
           Enter(c) \/ Send(c) \/ Receive(c) \/ Leave(c),
           phase[c] = "write" => said > 0
    PROVE  Table'
<1>1. /\ phase \in [Clients -> {"start", "wait", "write", "gone"}]
      /\ up \in [Clients -> Seq(Messages)]
      /\ down \in [Clients -> Seq(Messages)]
      /\ log \in [Clients -> Seq(Messages)]
      /\ said \in 0 .. MaxSaid /\ reset \subseteq Clients /\ MaxSaid \in Nat
  BY EpollAssumption DEF Table, TypeOK
<1>2. CASE Enter(c)
  <2>1. /\ phase' = [phase EXCEPT ![c] = "write"] /\ phase[c] = "wait"
        /\ said' \in 0 .. MaxSaid
        /\ UNCHANGED <<up, down, log, reset, backlog, serverVars>>
    BY <1>1, <1>2 DEF Enter
  <2> QED
    BY <1>1, <2>1, TalkTable
<1>3. CASE Send(c)
  <2>0. said \in 1 .. MaxSaid
    BY <1>1, <1>3 DEF Send
  <2>1. PICK m \in Messages, s \in Seq(Messages) : m = <<c, said>> /\ s = up[c]
    BY <1>1, <2>0 DEF Messages
  <2>2. up' = [up EXCEPT ![c] = Append(@, m)]
    BY <1>3, <2>1 DEF Send
  <2>3. Append(up[c], m) \in Seq(Messages) /\ Append(up[c], m) # <<>>
    <3>1. Append(s, m) \in Seq(Messages) /\ Append(s, m) # <<>>
      BY Added
    <3> QED
      BY <2>1, <3>1
  <2>4. /\ up' \in [Clients -> Seq(Messages)]
        /\ \A d \in Clients : up'[d] = <<>> => up[d] = <<>>
    BY <1>1, <2>2, <2>3
  <2>5. /\ phase' = [phase EXCEPT ![c] = "wait"] /\ phase[c] = "write"
        /\ UNCHANGED <<said, down, log, reset, backlog, serverVars>>
    BY <1>3 DEF Send
  <2> QED
    BY <1>1, <2>4, <2>5, TalkTable
<1>4. CASE Receive(c)
  <2>1. /\ Head(down[c]) \in Messages /\ Tail(down[c]) \in Seq(Messages)
    BY <1>1, <1>4, Taken DEF Receive
  <2>2. Append(log[c], Head(down[c])) \in Seq(Messages)
    BY <1>1, <2>1, Added
  <2>3. /\ down' \in [Clients -> Seq(Messages)]
        /\ log' \in [Clients -> Seq(Messages)]
    BY <1>1, <1>4, <2>1, <2>2 DEF Receive
  <2>4. phase' = [phase EXCEPT ![c] = "wait"] /\ phase[c] = "wait"
    BY <1>1, <1>4 DEF Receive
  <2>5. UNCHANGED <<said, up, reset, backlog, serverVars>>
    BY <1>4 DEF Receive
  <2> QED
    BY <1>1, <2>3, <2>4, <2>5, TalkTable
<1>5. CASE Leave(c)
  <2>1. down' \in [Clients -> Seq(Messages)]
    BY <1>1, <1>5, EmptySeq DEF Leave
  <2> QED
    BY <1>1, <1>5, <2>1, TalkTable DEF Leave
<1> QED
  BY <1>2, <1>3, <1>4, <1>5

-----------------------------------------------------------------------------
(* What is said.                                                           *)

LEMMA MessageParts ==
    \A m \in Messages : m[1] \in Clients /\ m[2] \in 1 .. MaxSaid /\ m[2] \in Nat
BY EpollAssumption DEF Messages

LEMMA InitTalk == Init => Talk
BY DEF Init, Talk, Unread, AllPast, Idle

(* Steps of the server that neither read nor write a message.              *)
LEMMA TalkKept ==
    ASSUME Talk, UNCHANGED <<phase, said, up, log, down>>,
           ~Idle' => ~Idle /\ msg' = msg,
           \A c \in Clients :
                phase[c] # "gone" /\ (\A f \in Fds : sock'[f] # c) =>
                    \A f \in Fds : sock[f] # c
    PROVE  Talk'
<1>1. \A m : Past(m)' <=> Past(m)
  BY DEF Past, Written
<1>2. \A c \in Clients : Unread(c)'
  BY DEF Talk, Unread, Written
<1> QED
  BY <1>1, <1>2 DEF Talk, AllPast

LEMMA ServerTalk ==
    ASSUME Table, Talk,
           \/ EpollWait \/ Accept \/ AcceptFails \/ AcceptOverrun
           \/ BroadcastEnd \/ \E f \in Fds : Close(f) \/ ReadError(f)
    PROVE  Talk'
<1> USE DEF Handle, clientVars, castVars
<1>1. CASE EpollWait \/ AcceptFails \/ AcceptOverrun
  BY <1>1, TalkKept DEF EpollWait, AcceptFails, AcceptOverrun, Idle
<1>2. CASE BroadcastEnd
  BY <1>2, TalkKept DEF BroadcastEnd, Idle
<1>3. CASE Accept
  <2>1. PICK f \in Fds : /\ sock[f] = NoClient
                         /\ sock' = [sock EXCEPT ![f] = Head(backlog)]
    BY <1>3 DEF Accept
  <2>2. \A c \in Clients : \A g \in Fds : sock[g] = c => sock'[g] = c
    BY <2>1, EpollAssumption DEF Table, TypeOK
  <2> QED
    BY <1>3, <2>2, TalkKept DEF Accept, Idle
<1>4. ASSUME NEW f \in Fds, Close(f) PROVE Talk'
  <2>1. phase[sock[f]] = "gone"
    BY <1>4, CloseTable
  <2>2. \A c \in Clients : \A g \in Fds :
            sock[g] = c /\ phase[c] # "gone" => sock'[g] = c
    BY <1>4, <2>1 DEF Close, Table, TypeOK
  <2> QED
    BY <1>4, <2>2, TalkKept DEF Close, Idle
<1>5. ASSUME NEW f \in Fds, ReadError(f) PROVE Talk'
  BY <1>5, TalkKept DEF ReadError, Idle
<1> QED
  BY <1>1, <1>2, <1>3, <1>4, <1>5

LEMMA ReadTalk ==
    ASSUME Table, Talk, NEW f \in Fds, Read(f)
    PROVE  /\ Talk'
           /\ msg' \in Messages /\ msg'[1] = sock[f] /\ sock[f] \in Clients
           /\ \A m \in Messages : m[1] = sock[f] /\ Past(m) => m # msg'
<1> USE DEF Read, Handle
<1>1. PICK c \in Clients : c = sock[f]
  BY EpollAssumption DEF Table, TypeOK, Events, Readable
<1>2. up \in [Clients -> Seq(Messages)] /\ up[c] # <<>>
  BY <1>1 DEF Table, TypeOK
<1>3. /\ msg' = up[c][1] /\ msg' \in Messages
      /\ Len(up[c]) \in Nat /\ 1 \in 1 .. Len(up[c])
      /\ Len(up'[c]) = Len(up[c]) - 1
      /\ \A k \in 1 .. Len(up'[c]) : /\ k + 1 \in 1 .. Len(up[c])
                                     /\ up'[c][k] = up[c][k + 1]
      /\ \A d \in Clients \ {c} : up'[d] = up[d]
  BY <1>1, <1>2, Taken
<1> HIDE DEF Read, Handle
<1>4. UNCHANGED <<phase, said, down, log, sock>>
  BY DEF Read
<1>5. \A m \in Messages : Written(m)' <=> Written(m)
  BY <1>4 DEF Written
<1>6. ASSUME NEW m \in Messages, Past(m) PROVE Past(m)'
  <2>1. CASE m[1] = c
    BY <1>3, <1>5, <1>6, <2>1 DEF Past
  <2>2. CASE m[1] # c
    BY <1>3, <1>5, <1>6, <2>2, MessageParts DEF Past
  <2> QED
    BY <2>1, <2>2
<1>7. \A d \in Clients : \A k \in 1 .. Len(up[d]) : up[d][k] \in Messages
  BY <1>2, ElementOfSeq
<1>8. \A d \in Clients : Unread(d)'
  <2>1. Unread(c)'
    <3>1. Unread(c)
      BY DEF Talk
    <3>2. ASSUME NEW k \in 1 .. Len(up'[c])
          PROVE  /\ up'[c][k][1] = c
                 /\ Written(up[c][k + 1])
                 /\ \A l \in k + 1 .. Len(up'[c]) :
                        up'[c][k][2] < up'[c][l][2]
      <4>1. k + 1 \in 1 .. Len(up[c]) /\ up'[c][k] = up[c][k + 1]
        BY <1>3, <3>2
      <4>2. /\ up[c][k + 1][1] = c /\ Written(up[c][k + 1])
            /\ \A l \in (k + 1) + 1 .. Len(up[c]) :
                    up[c][k + 1][2] < up[c][l][2]
        BY <3>1, <4>1 DEF Unread
      <4>3. ASSUME NEW l \in k + 1 .. Len(up'[c])
            PROVE  up'[c][k][2] < up'[c][l][2]
        <5>0. l \in 1 .. Len(up'[c]) /\ l \in k + 1 .. Len(up[c]) - 1
          BY <1>3, <3>2, <4>3
        <5>1. /\ l + 1 \in (k + 1) + 1 .. Len(up[c])
              /\ up'[c][l] = up[c][l + 1]
          BY <1>3, <3>2, <5>0
        <5> QED
          BY <4>1, <4>2, <5>1
      <4> QED
        BY <4>1, <4>2, <4>3
    <3>3. ASSUME NEW k \in 1 .. Len(up'[c])
          PROVE  /\ up'[c][k][2] <= said'
                 /\ phase'[up'[c][k][1]] = "write" => up'[c][k][2] < said'
      BY <1>3, <1>4, <3>2 DEF Written
    <3> QED
      BY <3>2, <3>3 DEF Unread, Written
  <2>2. ASSUME NEW d \in Clients \ {c} PROVE Unread(d)'
    <3>1. Unread(d) /\ up'[d] = up[d]
      BY <1>3, <2>2 DEF Talk
    <3> QED
      BY <1>4, <3>1 DEF Unread, Written
  <2> QED
    BY <2>1, <2>2
<1>9. Past(msg)'
  <2>1. PICK m \in Messages : m = msg'
    BY <1>3
  <2>2. Unread(c) /\ m = up[c][1]
    BY <1>3, <2>1 DEF Talk
  <2>3. m[1] = c /\ Written(m)
    BY <1>3, <2>2 DEF Unread
  <2>4. \A k \in 1 .. Len(up'[c]) : m[2] < up'[c][k][2]
    BY <1>3, <2>2 DEF Unread
  <2>5. Past(m)'
    BY <1>5, <2>3, <2>4 DEF Past
  <2> QED
    BY <2>1, <2>5 DEF Past, Written
<1>10. \A d \in Clients : AllPast(log[d])' /\ AllPast(down[d])'
  <2>1. \A d \in Clients : log[d] \in Seq(Messages) /\ down[d] \in Seq(Messages)
    BY DEF Table, TypeOK
  <2>2. \A d \in Clients :
            /\ \A k \in 1 .. Len(log[d]) : log[d][k] \in Messages /\ Past(log[d][k])
            /\ \A k \in 1 .. Len(down[d]) : down[d][k] \in Messages /\ Past(down[d][k])
    BY <2>1, ElementOfSeq DEF Talk, AllPast
  <2>3. \A m : (m \in Messages /\ Past(m)) => Past(m)'
    BY <1>6
  <2>4. \A d \in Clients : \A k \in 1 .. Len(log[d]) : Past(log[d][k])'
    BY <1>4, <2>2, <2>3 DEF Past, Written
  <2>5. \A d \in Clients : \A k \in 1 .. Len(down[d]) : Past(down[d][k])'
    BY <1>4, <2>2, <2>3 DEF Past, Written
  <2> QED
    BY <1>4, <2>4, <2>5 DEF AllPast
<1>11. Talk'
  BY <1>4, <1>8, <1>9, <1>10 DEF Talk
<1>12. \A m \in Messages : m[1] = c /\ Past(m) => m # msg'
  BY <1>3, MessageParts DEF Past
<1>13. msg'[1] = c
  BY <1>3 DEF Talk, Unread
<1> QED
  BY <1>1, <1>3, <1>11, <1>12, <1>13

LEMMA PastQueues ==
    ASSUME NEW s \in Seq(Messages), AllPast(s), NEW m \in Messages, Past(m)
    PROVE  AllPast(Append(s, m))
<1>1. PICK t : t = Append(s, m)
  OBVIOUS
<1>2. /\ Len(s) \in Nat /\ Len(t) = Len(s) + 1
      /\ \A k \in 1 .. Len(s) : t[k] = s[k]
      /\ t[Len(s) + 1] = m
  BY <1>1, Added
<1>3. \A k \in 1 .. Len(t) : Past(t[k])
  BY <1>2 DEF AllPast
<1> QED
  BY <1>1, <1>3 DEF AllPast

LEMMA PastHead ==
    ASSUME NEW s \in Seq(Messages), AllPast(s), s # <<>>
    PROVE  AllPast(Tail(s)) /\ Past(Head(s))
<1>1. PICK t : t = Tail(s)
  OBVIOUS
<1>2. /\ Len(s) \in Nat /\ 1 \in 1 .. Len(s) /\ Head(s) = s[1]
      /\ \A k \in 1 .. Len(t) : k + 1 \in 1 .. Len(s) /\ t[k] = s[k + 1]
  BY <1>1, Taken
<1>3. \A k \in 1 .. Len(t) : Past(t[k])
  BY <1>2 DEF AllPast
<1> QED
  BY <1>1, <1>2, <1>3 DEF AllPast

LEMMA WriteTalk == Table /\ Talk /\ Write => Talk'
<1> SUFFICES ASSUME Table, Talk, Write PROVE Talk'
  OBVIOUS
<1>1. /\ UNCHANGED <<phase, said, up, log, sock, msg>> /\ ~Idle
      /\ msg \in Messages /\ Past(msg)
      /\ down \in [Clients -> Seq(Messages)]
  BY DEF Write, Table, TypeOK, Talk, Idle
<1>2. CASE down' = down
  BY <1>1, <1>2, TalkKept DEF Idle
<1>3. ASSUME NEW d, d = Peer(next),
             client_sockets[next] \notin {from, NoFd},
             down' = [down EXCEPT ![d] = Append(@, msg)]
      PROVE  Talk'
  <2>1. d \in Clients /\ \E f \in Fds : sock[f] = d
    BY <1>1, <1>3, NextPeer DEF Write
  <2>2. AllPast(Append(down[d], msg))
    BY <1>1, <2>1, PastQueues DEF Talk
  <2>3. \A s : AllPast(s)' <=> AllPast(s)
    BY <1>1 DEF AllPast, Past, Written
  <2>4. PICK t : t = Append(down[d], msg)
    OBVIOUS
  <2>5. /\ down'[d] = t /\ AllPast(t)'
        /\ \A c \in Clients \ {d} : down'[c] = down[c]
    BY <1>1, <1>3, <2>1, <2>2, <2>3, <2>4
  <2>6. ASSUME NEW c \in Clients
        PROVE  AllPast(log[c])' /\ AllPast(down[c])'
    <3>1. PICK l, s : l = log'[c] /\ s = down'[c]
      OBVIOUS
    <3>2. AllPast(l)' /\ AllPast(s)'
      BY <1>1, <2>3, <2>5, <3>1 DEF Talk
    <3> QED
      BY <3>1, <3>2 DEF AllPast
  <2>7. Past(msg)'
    BY <1>1 DEF Past, Written
  <2>8. \A c \in Clients : Unread(c)'
    BY <1>1 DEF Talk, Unread, Written
  <2> QED
    BY <1>1, <2>1, <2>5, <2>6, <2>7, <2>8 DEF Talk
<1> QED
  BY <1>2, <1>3 DEF Write

-----------------------------------------------------------------------------
(* The clients talk.                                                       *)

LEMMA PhaseTalk ==
    ASSUME Table, Talk, NEW c \in Clients,
           Connect(c) \/ Enter(c) \/ Leave(c)
    PROVE  Talk'
<1>1. /\ phase \in [Clients -> {"start", "wait", "write", "gone"}]
      /\ said \in Nat
      /\ \A d \in Clients : log[d] \in Seq(Messages) /\ down[d] \in Seq(Messages)
      /\ \A d \in Clients : up[d] \in Seq(Messages)
      /\ msg \in Messages \cup {NoMessage}
      /\ down \in [Clients -> Seq(Messages)]
  BY EpollAssumption DEF Table, TypeOK
<1>2. UNCHANGED <<up, log, sock, msg>>
  BY DEF Connect, Enter, Leave, serverVars, castVars
<1>3. /\ said' \in Nat /\ said' >= said
      /\ \A d \in Clients \ {c} : phase'[d] = phase[d]
      /\ phase'[c] = "write" => said' > said
  BY <1>1 DEF Connect, Enter, Leave
<1>4. \A m \in Messages : /\ Written(m) => Written(m)'
                          /\ Past(m) => Past(m)'
  BY <1>1, <1>2, <1>3, MessageParts DEF Written, Past
<1>5. \A d \in Clients : Unread(d)'
  <2>1. \A d \in Clients : \A k \in 1 .. Len(up[d]) :
            up[d][k] \in Messages /\ Written(up[d][k])
    BY <1>1, ElementOfSeq DEF Talk, Unread
  <2>2. \A d \in Clients : \A k \in 1 .. Len(up[d]) : Written(up[d][k])'
    BY <1>2, <1>4, <2>1 DEF Written
  <2> QED
    BY <1>2, <2>2 DEF Talk, Unread
<1>6. \A d \in Clients : down'[d] = down[d] \/ down'[d] = <<>>
  BY <1>1 DEF Connect, Enter, Leave
<1>7. \A d \in Clients : AllPast(log[d])' /\ AllPast(down[d])'
  <2>1. \A s \in Seq(Messages) : AllPast(s) => AllPast(s)'
    BY <1>4, ElementOfSeq DEF AllPast
  <2>2. AllPast(<<>>)
    BY DEF AllPast
  <2>3. \A d \in Clients :
            down'[d] \in Seq(Messages) /\ AllPast(down[d]) /\ AllPast(log[d])
    <3>1. <<>> \in Seq(Messages)
      BY EmptySeq
    <3> QED
      BY <1>1, <1>6, <3>1 DEF Talk
  <2>4. ASSUME NEW d \in Clients PROVE AllPast(down[d])'
    <3>1. PICK s \in Seq(Messages) : s = down'[d]
      BY <2>3
    <3>2. AllPast(s)
      BY <1>6, <2>2, <2>3, <3>1
    <3> QED
      BY <2>1, <3>1, <3>2 DEF AllPast
  <2>5. ASSUME NEW d \in Clients PROVE AllPast(log[d])'
    <3>1. PICK s \in Seq(Messages) : s = log[d]
      BY <1>1
    <3> QED
      BY <1>2, <2>1, <2>3, <3>1 DEF AllPast
  <2> QED
    BY <2>4, <2>5
<1>8. ~Idle' => Past(msg)'
  <2>1. CASE msg = NoMessage
    BY <1>2, <2>1 DEF Idle
  <2>2. CASE msg # NoMessage
    <3>1. PICK m \in Messages : m = msg
      BY <1>1, <2>2
    <3> QED
      BY <1>2, <1>4, <2>2, <3>1 DEF Talk, Idle, Past, Written
  <2> QED
    BY <2>1, <2>2
<1>9. \A d \in Clients : phase'[d] = "write" => said' > 0
  BY <1>1, <1>3 DEF Talk
<1>10. \A d \in Clients :
         phase'[d] # "gone" /\ (\A f \in Fds : sock'[f] # d) =>
            log'[d] = <<>> /\ down'[d] = <<>>
  BY <1>1, <1>2, <1>3, <1>6 DEF Talk, Connect, Enter, Leave
<1> QED
  BY <1>5, <1>7, <1>8, <1>9, <1>10 DEF Talk

LEMMA SendTalk ==
    ASSUME Table, Talk, NEW c \in Clients, Send(c)
    PROVE  Talk'
<1>1. /\ phase \in [Clients -> {"start", "wait", "write", "gone"}]
      /\ phase' = [phase EXCEPT ![c] = "wait"] /\ phase[c] = "write"
      /\ said \in 1 .. MaxSaid /\ said \in Nat
      /\ up \in [Clients -> Seq(Messages)]
      /\ \A d \in Clients : log[d] \in Seq(Messages) /\ down[d] \in Seq(Messages)
      /\ msg \in Messages \cup {NoMessage}
      /\ UNCHANGED <<said, down, log, sock, msg>>
  BY EpollAssumption DEF Send, Table, TypeOK, Talk, serverVars, castVars
<1>2. PICK e \in Messages : e = <<c, said>>
  BY <1>1 DEF Messages
<1>3. /\ up' = [up EXCEPT ![c] = Append(@, e)]
      /\ e[1] = c /\ e[2] = said
  BY <1>2 DEF Send
<1>4. /\ \A d \in Clients \ {c} : up'[d] = up[d]
      /\ Len(up[c]) \in Nat /\ Len(up'[c]) = Len(up[c]) + 1
      /\ \A k \in 1 .. Len(up[c]) : up'[c][k] = up[c][k]
      /\ up'[c][Len(up[c]) + 1] = e
  <2>1. up[c] \in Seq(Messages)
    BY <1>1
  <2> QED
    BY <1>1, <1>3, <2>1, Added
<1>5. \A m \in Messages : Written(m) => Written(m)'
  BY <1>1, MessageParts DEF Written
<1>6. \A m \in Messages : Past(m) => Past(m)'
  BY <1>1, <1>3, <1>4, <1>5, MessageParts DEF Past, Written
<1>7. \A d \in Clients : \A k \in 1 .. Len(up[d]) :
         up[d][k] \in Messages /\ Written(up[d][k])
  BY <1>1, ElementOfSeq DEF Talk, Unread
<1>8. Unread(c)'
  <2>1. ASSUME NEW k \in 1 .. Len(up'[c])
        PROVE  /\ up'[c][k][1] = c
               /\ \A l \in k + 1 .. Len(up'[c]) : up'[c][k][2] < up'[c][l][2]
    <3>1. CASE k = Len(up[c]) + 1
      BY <1>3, <1>4, <3>1
    <3>2. CASE k \in 1 .. Len(up[c])
      <4>1. /\ up[c][k][1] = c /\ up[c][k][2] < said
            /\ \A l \in k + 1 .. Len(up[c]) : up[c][k][2] < up[c][l][2]
        BY <1>1, <1>7, <3>2 DEF Talk, Unread, Written
      <4> QED
        BY <1>3, <1>4, <3>2, <4>1
    <3> QED
      BY <1>4, <3>1, <3>2
  <2>2. ASSUME NEW k \in 1 .. Len(up'[c]), NEW m, m = up'[c][k]
        PROVE  Written(m)'
    <3>1. CASE k = Len(up[c]) + 1
      BY <1>1, <1>3, <1>4, <2>2, <3>1 DEF Written
    <3>2. CASE k \in 1 .. Len(up[c])
      BY <1>4, <1>5, <1>7, <2>2, <3>2
    <3> QED
      BY <1>4, <3>1, <3>2
  <2> QED
    BY <2>1, <2>2 DEF Unread, Written
<1>9. ASSUME NEW d \in Clients \ {c} PROVE Unread(d)'
  <2>1. \A k \in 1 .. Len(up[d]) : Written(up[d][k])'
    BY <1>1, <1>4, <1>7 DEF Written, Talk, Unread
  <2> QED
    BY <1>4, <2>1 DEF Talk, Unread, Written
<1>10. ASSUME NEW d \in Clients PROVE AllPast(log[d])' /\ AllPast(down[d])'
  <2>1. PICK l \in Seq(Messages), s \in Seq(Messages) : l = log[d] /\ s = down[d]
    BY <1>1
  <2>2. AllPast(l)' /\ AllPast(s)'
    BY <1>6, <2>1, ElementOfSeq DEF Talk, AllPast
  <2> QED
    BY <1>1, <2>1, <2>2 DEF AllPast
<1>11. ~Idle' => Past(msg)'
  <2>1. PICK m : m = msg
    OBVIOUS
  <2>2. ~Idle => Past(m)'
    BY <1>1, <1>6, <2>1 DEF Talk, Idle
  <2> QED
    BY <1>1, <2>1, <2>2 DEF Idle, Past, Written
<1> QED
  BY <1>1, <1>8, <1>9, <1>10, <1>11 DEF Talk

LEMMA ReceiveTalk ==
    ASSUME Table, Talk, NEW c \in Clients, Receive(c)
    PROVE  Talk'
<1>1. /\ log \in [Clients -> Seq(Messages)] /\ down \in [Clients -> Seq(Messages)]
      /\ phase[c] = "wait" /\ down[c] # <<>>
      /\ log' = [log EXCEPT ![c] = Append(@, Head(down[c]))]
      /\ down' = [down EXCEPT ![c] = Tail(@)]
      /\ UNCHANGED <<phase, said, up, sock, msg>>
  BY DEF Receive, Table, TypeOK, serverVars, castVars
<1>2. \A m : Past(m)' <=> Past(m)
  BY <1>1 DEF Past, Written
<1>3. PICK l, s, m : l = Append(log[c], m) /\ s = Tail(down[c]) /\ m = Head(down[c])
  OBVIOUS
<1>4. AllPast(l) /\ AllPast(s)
  BY <1>1, <1>3, PastHead, PastQueues, Taken DEF Talk
<1>5. ASSUME NEW d \in Clients PROVE AllPast(log[d])' /\ AllPast(down[d])'
  <2>1. PICK a, b : a = log'[d] /\ b = down'[d]
    OBVIOUS
  <2>2. AllPast(a) /\ AllPast(b)
    BY <1>1, <1>3, <1>4, <2>1 DEF Talk
  <2>3. AllPast(a)' /\ AllPast(b)'
    BY <1>2, <2>2 DEF AllPast
  <2> QED
    BY <2>1, <2>3 DEF AllPast
<1>6. /\ \A d \in Clients : Unread(d)'
      /\ ~Idle' => Past(msg)'
  BY <1>1 DEF Talk, Unread, Past, Written, Idle
<1>7. ASSUME NEW d \in Clients, phase[d] # "gone", \A f \in Fds : sock[f] # d
      PROVE  log'[d] = <<>> /\ down'[d] = <<>>
  BY <1>1, <1>7 DEF Talk
<1> QED
  BY <1>1, <1>5, <1>6, <1>7 DEF Talk

-----------------------------------------------------------------------------
LEMMA NextIInv == IInv /\ [Next]_vars => IInv'
<1> SUFFICES ASSUME IInv, [Next]_vars PROVE IInv'
  OBVIOUS
<1> USE DEF IInv
<1>1. CASE Server
  <2>1. CASE EpollWait \/ Accept \/ AcceptFails \/ AcceptOverrun \/ BroadcastEnd
    BY <2>1, EpollWaitTable, AcceptTable, AcceptFailsTable, AcceptOverrunTable,
       BroadcastEndTable, ServerTalk
  <2>2. CASE Write
    BY <2>2, WriteTable, WriteTalk
  <2>3. ASSUME NEW f \in Fds, Close(f) \/ ReadError(f) PROVE IInv'
    BY <2>3, CloseTable, ReadErrorTable, ServerTalk
  <2>4. ASSUME NEW f \in Fds, Read(f) PROVE IInv'
    BY <2>4, ReadTable, ReadTalk
  <2> QED
    BY <1>1, <2>1, <2>2, <2>3, <2>4 DEF Server
<1>2. ASSUME NEW c \in Clients, Client(c) \/ User(c) PROVE IInv'
  <2>1. phase[c] = "write" => said > 0
    BY DEF Talk
  <2>2. Table'
    BY <1>2, <2>1, ConnectTable, ClientTable DEF Client, User
  <2>3. Talk'
    BY <1>2, PhaseTalk, SendTalk, ReceiveTalk DEF Client, User
  <2> QED
    BY <2>2, <2>3
<1>3. CASE UNCHANGED vars
  <2> USE <1>3 DEF vars, clientVars, serverVars, castVars
  <2>1. TypeOK'
    BY DEF Table, TypeOK, Count
  <2>2. Listed' /\ Connections' /\ Events' /\ Loop'
    BY DEF Table, Listed, Connections, Events, Loop, Open, Count, Idle, Readable
  <2>3. Talk'
    BY TalkKept DEF Idle
  <2> QED
    BY <2>1, <2>2, <2>3 DEF Table
<1> QED
  BY <1>1, <1>2, <1>3 DEF Next

(* The inductive invariant holds throughout.                               *)
THEOREM Invariance == SafeSpec => []IInv
<1>1. Init => IInv
  BY InitTable, InitTalk DEF IInv
<1> QED
  BY <1>1, NextIInv, PTL DEF SafeSpec

(* Type correctness; among others, client_count stays within the array     *)
(* until a write behind it, which ends the model's behaviour.              *)
THEOREM TypeCorrect == SafeSpec => []TypeOK
<1> QED
  BY Invariance, PTL DEF IInv, Table

(* epoll_server.c:26-56: the swap with the last entry keeps the array in   *)
(* step with the open descriptors, in whatever order connections come and  *)
(* go, with -1 among the entries, and an event waiting to be handled is    *)
(* for a connection that is still open.                                    *)
THEOREM ArrayTrue == SafeSpec => []ArrayMatchesSockets
<1>1. IInv => ArrayMatchesSockets
  <2> SUFFICES ASSUME IInv PROVE ArrayMatchesSockets
    OBVIOUS
  <2>1. \A k \in 1 .. Count : client_sockets[k] \in Fds \cup {NoFd}
    BY ElementOfSeq DEF IInv, Table, TypeOK, Count
  <2>2. {client_sockets[k] : k \in 1 .. Count} \ {NoFd}
            = {f \in Fds : sock[f] # NoClient}
    BY <2>1, EpollAssumption DEF IInv, Table, Listed, Open
  <2> QED
    BY <2>2 DEF IInv, Table, Listed, Events, ArrayMatchesSockets
<1> QED
  BY <1>1, Invariance, PTL

-----------------------------------------------------------------------------
(* The refinement of ChatRoom.                                             *)

Heard(c) == log[c] \o down[c] \o Pending(c)

View == [c \in Members |-> Heard(c)]

Stays == Members' = Members /\ \A c \in Members : Heard(c)' = Heard(c)

LEMMA Stutters == Stays => View' = View
BY DEF Stays, View

LEMMA NothingPending ==
    ASSUME TypeOK, Idle \/ next > Count, NEW c
    PROVE  Pending(c) = <<>>
<1>1. next \in Nat /\ Count \in Nat
  BY LenProperties DEF TypeOK, Count
<1>2. ~ \E k \in next .. Count : ~Idle /\ Peer(k) = c /\ client_sockets[k] # from
  BY <1>1
<1> QED
  BY <1>2 DEF Pending

(* Steps of the server and of clients that neither begin a broadcast, nor  *)
(* let anyone in or out.                                                   *)
LEMMA QuietServer ==
    ASSUME Table,
           \/ EpollWait \/ AcceptFails \/ AcceptOverrun \/ BroadcastEnd
           \/ \E f \in Fds : Close(f) \/ ReadError(f)
    PROVE  Stays
<1> USE DEF Handle, clientVars, castVars
<1>1. TypeOK /\ (Idle \/ next > Count) /\ Idle'
  BY DEF Table, EpollWait, AcceptFails, AcceptOverrun, BroadcastEnd, Close,
         ReadError, Idle
<1>2. UNCHANGED <<log, down, phase>>
  BY DEF EpollWait, AcceptFails, AcceptOverrun, BroadcastEnd, Close, ReadError
<1>3. \A c : Pending(c) = <<>> /\ Pending(c)' = <<>>
  <2>1. \A c : Pending(c) = <<>>
    BY <1>1, NothingPending
  <2>2. \A c : Pending(c)' = <<>>
    BY <1>1 DEF Pending
  <2> QED
    BY <2>1, <2>2
<1>4. Members' = Members
  <2>1. CASE sock' = sock
    BY <1>2, <2>1 DEF Members
  <2>2. ASSUME NEW f \in Fds, Close(f) PROVE Members' = Members
    <3>1. phase[sock[f]] = "gone"
      BY <2>2, CloseTable
    <3>2. /\ sock' = [sock EXCEPT ![f] = NoClient]
          /\ sock \in [Fds -> Clients \cup {NoClient}]
      BY <2>2 DEF Close, Table, TypeOK
    <3>3. ASSUME NEW c \in Clients, phase[c] # "gone"
          PROVE  (\E g \in Fds : sock'[g] = c) <=> \E g \in Fds : sock[g] = c
      BY <3>1, <3>2, <3>3, EpollAssumption
    <3> QED
      BY <1>2, <3>3 DEF Members
  <2> QED
    BY <2>1, <2>2
    DEF EpollWait, AcceptFails, AcceptOverrun, BroadcastEnd, ReadError
<1> QED
  BY <1>2, <1>3, <1>4 DEF Stays, Heard

LEMMA QuietClient ==
    ASSUME Table, NEW c \in Clients, Connect(c) \/ Enter(c) \/ Send(c)
    PROVE  Stays
<1>1. UNCHANGED <<log, down, sock, client_sockets, msg, from, next>>
  BY DEF Connect, Enter, Send, serverVars, castVars
<1>2. \A d : Pending(d)' = Pending(d)
  BY <1>1 DEF Pending, Idle, Peer, Count
<1>3. ASSUME NEW d \in Clients, \E f \in Fds : sock[f] = d
      PROVE  phase'[d] = "gone" <=> phase[d] = "gone"
  <2>1. phase[d] # "start"
    BY <1>3, EpollAssumption DEF Table, Connections, Open
  <2>2. phase \in [Clients -> {"start", "wait", "write", "gone"}]
    BY DEF Table, TypeOK
  <2> QED
    BY <2>1, <2>2 DEF Connect, Enter, Send
<1>4. Members' = Members
  BY <1>1, <1>3 DEF Members
<1> QED
  BY <1>1, <1>2, <1>4 DEF Stays, Heard

(* A message that is printed only moves from the socket to the screen.     *)
LEMMA ReceiveStays ==
    ASSUME Table, NEW c \in Clients, Receive(c)
    PROVE  Stays
<1>1. /\ UNCHANGED <<phase, sock, client_sockets, msg, from, next>>
      /\ log \in [Clients -> Seq(Messages)] /\ down \in [Clients -> Seq(Messages)]
      /\ down[c] # <<>>
      /\ log' = [log EXCEPT ![c] = Append(@, Head(down[c]))]
      /\ down' = [down EXCEPT ![c] = Tail(@)]
  BY DEF Receive, Table, TypeOK, serverVars, castVars
<1>2. \A d : Pending(d)' = Pending(d)
  BY <1>1 DEF Pending, Idle, Peer, Count
<1>3. Members' = Members
  BY <1>1 DEF Members
<1>4. ASSUME NEW d \in Clients PROVE log'[d] \o down'[d] = log[d] \o down[d]
  <2>1. CASE d = c
    BY <1>1, <2>1, ReceivedInside
  <2>2. CASE d # c
    BY <1>1, <2>2
  <2> QED
    BY <2>1, <2>2
<1>5. \A d \in Members : d \in Clients
  BY DEF Members
<1> QED
  BY <1>2, <1>3, <1>4, <1>5 DEF Stays, Heard

(* One write of the loop: what was owed to the client is in its socket.    *)
LEMMA WriteStays ==
    ASSUME Table, Write
    PROVE  Stays
<1>1. /\ UNCHANGED <<phase, log, sock, client_sockets, msg, from>> /\ ~Idle
      /\ next' = next + 1 /\ next <= Count /\ next \in Nat /\ Count \in Nat
      /\ msg \in Messages
      /\ down \in [Clients -> Seq(Messages)] /\ log \in [Clients -> Seq(Messages)]
  BY LenProperties DEF Write, Table, TypeOK, Idle, Count
<1>2. Members' = Members /\ \A c \in Members : c \in Clients /\ phase[c] # "gone"
  BY <1>1 DEF Members
<1>3. PICK n \in Nat : n = next /\ n <= Count /\ next' = n + 1
  BY <1>1
<1>4. /\ \A c : Pending(c) =
            IF \E k \in n .. Count : Peer(k) = c /\ client_sockets[k] # from
            THEN <<msg>> ELSE <<>>
      /\ \A c : Pending(c)' =
            IF \E k \in n + 1 .. Count : Peer(k) = c /\ client_sockets[k] # from
            THEN <<msg>> ELSE <<>>
  BY <1>1, <1>3 DEF Pending, Idle, Peer, Count
<1>5. ASSUME NEW c, Peer(n) # c \/ client_sockets[n] = from
      PROVE  Pending(c)' = Pending(c)
  <2>1. (\E k \in n .. Count : Peer(k) = c /\ client_sockets[k] # from)
          <=> \E k \in n + 1 .. Count : Peer(k) = c /\ client_sockets[k] # from
    BY <1>1, <1>3, <1>5
  <2> QED
    BY <1>4, <2>1
<1>6. CASE client_sockets[next] \in {from, NoFd}
  <2>1. down' = down
    BY <1>6 DEF Write
  <2>2. \A c \in Members : Peer(n) # c \/ client_sockets[n] = from
    BY <1>2, <1>3, <1>6, EpollAssumption DEF Peer
  <2> QED
    BY <1>1, <1>2, <1>5, <2>1, <2>2 DEF Stays, Heard
<1>7. CASE client_sockets[next] \notin {from, NoFd} /\ phase[Peer(next)] = "gone"
  <2>1. down' = down
    BY <1>7 DEF Write
  <2>2. \A c \in Members : Peer(n) # c
    BY <1>2, <1>3, <1>7
  <2> QED
    BY <1>1, <1>2, <1>5, <2>1, <2>2 DEF Stays, Heard
<1>8. ASSUME NEW d, d = Peer(next),
             client_sockets[next] \notin {from, NoFd},
             down' = [down EXCEPT ![d] = Append(@, msg)]
      PROVE  Stays
  <2>1. /\ n \in 1 .. Count /\ client_sockets[n] \in Fds
        /\ d = Peer(n) /\ d = sock[client_sockets[n]] /\ d \in Clients
    BY <1>1, <1>3, <1>8, NextPeer
  <2>2. Pending(d) = <<msg>>
    <3>1. /\ n \in n .. Count /\ Peer(n) = d /\ client_sockets[n] # from
      BY <1>1, <1>3, <1>8, <2>1
    <3> QED
      BY <1>4, <3>1
  <2>3. Pending(d)' = <<>>
    <3>1. ASSUME NEW k \in n + 1 .. Count, Peer(k) = d PROVE FALSE
      <4>1. k \in 1 .. Count /\ k # n
        BY <1>1, <2>1, <3>1
      <4>2. client_sockets[k] # NoFd /\ Peer(k) = sock[client_sockets[k]]
        BY <2>1, <3>1, EpollAssumption DEF Peer
      <4>3. client_sockets[k] \in Fds
        BY <4>1, <4>2, ElementOfSeq DEF Table, TypeOK, Count
      <4>4. client_sockets[k] = client_sockets[n]
        BY <2>1, <3>1, <4>2, <4>3, EpollAssumption
        DEF Table, Connections, Open
      <4> QED
        BY <2>1, <4>1, <4>2, <4>4 DEF Table, Listed
    <3> QED
      BY <1>4, <3>1
  <2>4. Heard(d)' = Heard(d)
    <3>1. /\ log[d] \in Seq(Messages) /\ down[d] \in Seq(Messages)
          /\ log'[d] = log[d] /\ down'[d] = Append(down[d], msg)
      BY <1>1, <1>8, <2>1
    <3>2. /\ log[d] \o Append(down[d], msg) = (log[d] \o down[d]) \o <<msg>>
          /\ Append(down[d], msg) \in Seq(Messages)
      <4>1. PICK l \in Seq(Messages), s \in Seq(Messages), m \in Messages :
                l = log[d] /\ s = down[d] /\ m = msg
        BY <1>1, <3>1
      <4>2. /\ l \o Append(s, m) = (l \o s) \o <<m>>
            /\ Append(s, m) \in Seq(Messages)
        BY AppendInside, Added
      <4> QED
        BY <4>1, <4>2
    <3>3. (log[d] \o Append(down[d], msg)) \o <<>>
             = log[d] \o Append(down[d], msg)
      BY <1>1, <3>1, <3>2, AppendInside
    <3> QED
      BY <2>2, <2>3, <3>1, <3>2, <3>3 DEF Heard
  <2>5. \A c \in Members \ {d} : Heard(c)' = Heard(c)
    BY <1>1, <1>2, <1>5, <1>8, <2>1 DEF Heard
  <2> QED
    BY <1>2, <2>4, <2>5 DEF Stays
<1> QED
  BY <1>6, <1>7, <1>8 DEF Write

-----------------------------------------------------------------------------
(* Steps that the chat room sees.                                          *)

LEMMA AcceptEnters ==
    ASSUME Table, Talk, Accept
    PROVE  Stays \/ \E c \in Clients : Chat!Enter(c)
<1>1. PICK f \in Fds : /\ sock[f] = NoClient
                       /\ sock' = [sock EXCEPT ![f] = Head(backlog)]
  BY DEF Accept
<1>2. PICK c \in Clients :
        /\ c = Head(backlog)
        /\ \A g \in Fds : sock[g] # c
        /\ c # NoClient
  <2>1. backlog \in Seq(Clients) /\ backlog # <<>>
    BY DEF Accept, Handle, Table, TypeOK, Events
  <2>2. /\ Head(backlog) \in Clients
        /\ Head(backlog) = backlog[1] /\ 1 \in 1 .. Len(backlog)
    BY <2>1, Taken
  <2> QED
    BY <2>2, EpollAssumption DEF Table, Connections
<1>3. /\ UNCHANGED <<phase, log, down>> /\ Idle /\ Idle' /\ TypeOK
      /\ sock \in [Fds -> Clients \cup {NoClient}]
  BY DEF Accept, Handle, Idle, castVars, Table, TypeOK
<1>4. \A d : Pending(d) = <<>> /\ Pending(d)' = <<>>
  <2>1. \A d : Pending(d) = <<>>
    BY <1>3, NothingPending
  <2>2. \A d : Pending(d)' = <<>>
    BY <1>3 DEF Pending
  <2> QED
    BY <2>1, <2>2
<1>5. \A d \in Clients :
        (\E g \in Fds : sock'[g] = d) <=> d = c \/ \E g \in Fds : sock[g] = d
  BY <1>1, <1>2, <1>3, EpollAssumption
<1>6. \A d : Heard(d)' = Heard(d)
  BY <1>3, <1>4 DEF Heard
<1>7. CASE phase[c] = "gone"
  <2>1. Members' = Members
    BY <1>3, <1>5, <1>7 DEF Members
  <2> QED
    BY <1>6, <2>1 DEF Stays
<1>8. CASE phase[c] # "gone"
  <2>1. Members' = Members \cup {c} /\ c \notin Members
    BY <1>2, <1>3, <1>5, <1>8 DEF Members
  <2>2. Heard(c) = <<>>
    <3>1. log[c] = <<>> /\ down[c] = <<>>
      BY <1>2, <1>8 DEF Talk
    <3>2. <<>> \o <<>> \o <<>> = <<>>
      <4>1. <<>> \in Seq(Messages)
        BY EmptySeq
      <4> QED
        BY <4>1, ConcatEmptySeq
    <3> QED
      BY <1>4, <3>1, <3>2 DEF Heard
  <2>3. View' = [d \in Members \cup {c} |-> IF d = c THEN <<>> ELSE View[d]]
    BY <1>6, <2>1, <2>2 DEF View
  <2>4. DOMAIN View = Members
    BY DEF View
  <2> QED
    BY <2>1, <2>3, <2>4 DEF Chat!Enter, Chat!Members, View, Heard
<1> QED
  BY <1>7, <1>8

LEMMA LeaveExits ==
    ASSUME NEW c \in Clients, Leave(c), Table
    PROVE  Stays \/ Chat!Exit(c)
<1>1. /\ UNCHANGED <<log, sock, client_sockets, msg, from, next>>
      /\ \A d \in Clients \ {c} : phase'[d] = phase[d] /\ down'[d] = down[d]
      /\ phase'[c] = "gone" /\ phase[c] # "gone"
  BY DEF Leave, serverVars, castVars, Table, TypeOK
<1>2. \A d : Pending(d)' = Pending(d)
  BY <1>1 DEF Pending, Idle, Peer, Count
<1>3. Members' = Members \ {c}
  BY <1>1 DEF Members
<1>4. \A d \in Members \ {c} : Heard(d)' = Heard(d)
  BY <1>1, <1>2 DEF Heard, Members
<1>5. CASE c \notin Members
  BY <1>3, <1>4, <1>5 DEF Stays
<1>6. CASE c \in Members
  <2>1. View' = [d \in Members \ {c} |-> View[d]]
    BY <1>3, <1>4 DEF View
  <2> QED
    BY <1>6, <2>1 DEF Chat!Exit, Chat!Members, View, Heard
<1> QED
  BY <1>5, <1>6

(* Reading a message is the instant at which everyone hears it.            *)
LEMMA ReadSays ==
    ASSUME Table, Talk, NEW f \in Fds, Read(f)
    PROVE  \E m \in Messages : Chat!Say(m)
<1>1. PICK m \in Messages, a \in Clients :
        /\ m = msg' /\ a = sock[f] /\ m[1] = a
        /\ \A x \in Messages : x[1] = a /\ Past(x) => x # m
  BY ReadTalk
<1>2. /\ UNCHANGED <<phase, log, down, sock, client_sockets>>
      /\ Idle /\ msg' # NoMessage /\ from' = f /\ next' = 1 /\ TypeOK
      /\ log \in [Clients -> Seq(Messages)] /\ down \in [Clients -> Seq(Messages)]
  BY <1>1, MessagesSaySomething DEF Read, Handle, Table, TypeOK
<1>3. \A c : Pending(c) = <<>>
  BY <1>2, NothingPending
<1>4. Members' = Members /\ \A c \in Members : c \in Clients
  BY <1>2 DEF Members
<1>5. ASSUME NEW c \in Members
      PROVE  Pending(c)' = IF c # a THEN <<m>> ELSE <<>>
  <2>1. Pending(c)' =
            IF \E k \in 1 .. Count : Peer(k) = c /\ client_sockets[k] # f
            THEN <<m>> ELSE <<>>
    BY <1>1, <1>2 DEF Pending, Idle, Peer, Count
  <2>2. PICK g \in Fds : sock[g] = c
    BY DEF Members
  <2>3. c \in Clients /\ c # NoClient
    BY <1>4, EpollAssumption
  <2>4. CASE c # a
    <3>1. PICK k \in 1 .. Count : client_sockets[k] = g
      BY <2>2, <2>3 DEF Table, Listed, Open
    <3>2. Peer(k) = c /\ client_sockets[k] # f
      BY <1>1, <2>2, <2>4, <3>1, EpollAssumption DEF Peer
    <3> QED
      BY <2>1, <2>4, <3>2
  <2>5. CASE c = a
    <3>1. ASSUME NEW k \in 1 .. Count, Peer(k) = c PROVE client_sockets[k] = f
      <4>1. client_sockets[k] \in Fds /\ sock[client_sockets[k]] = c
        BY <2>3, <3>1, ElementOfSeq DEF Peer, Table, TypeOK, Count
      <4> QED
        BY <1>1, <2>3, <2>5, <4>1 DEF Table, Connections, Open
    <3> QED
      BY <2>1, <2>5, <3>1
  <2> QED
    BY <2>4, <2>5
<1>6. ASSUME NEW c \in Members
      PROVE  /\ Heard(c)' = IF c # a THEN Append(Heard(c), m) ELSE Heard(c)
             /\ \A k \in 1 .. Len(Heard(c)) : Heard(c)[k] # m
  <2>1. PICK l \in Seq(Messages), s \in Seq(Messages) :
            l = log[c] /\ s = down[c]
    BY <1>2, <1>4
  <2>2. /\ (l \o s) \o <<m>> = Append(l \o s, m)
        /\ (l \o s) \o <<>> = l \o s
    BY AppendInside
  <2>3. /\ Heard(c) = l \o s
        /\ Heard(c)' = (l \o s) \o (IF c # a THEN <<m>> ELSE <<>>)
    BY <1>2, <1>3, <1>5, <2>1, <2>2 DEF Heard
  <2>4. /\ \A k \in 1 .. Len(l) : l[k] \in Messages /\ l[k] # m
        /\ \A k \in 1 .. Len(s) : s[k] \in Messages /\ s[k] # m
    <3>1. AllPast(l) /\ AllPast(s)
      BY <1>4, <2>1 DEF Talk
    <3>2. \A x \in Messages : Past(x) => x # m
      BY <1>1
    <3> QED
      BY <3>1, <3>2, ElementOfSeq DEF AllPast
  <2>5. \A k \in 1 .. Len(l \o s) : (l \o s)[k] # m
    BY <2>4, InEither
  <2> QED
    BY <2>2, <2>3, <2>5
<1>7. View' = [c \in Members |->
                IF Hears(c, m) THEN Append(View[c], m) ELSE View[c]]
  BY <1>1, <1>4, <1>6 DEF View, Hears
<1>8. \A c \in Members : \A k \in 1 .. Len(View[c]) : View[c][k] # m
  BY <1>6 DEF View
<1>9. DOMAIN View = Members
  BY DEF View
<1>10. Chat!Say(m)
  BY <1>7, <1>8, <1>9 DEF Chat!Say, Chat!Members, View, Heard
<1> QED
  BY <1>10

LEMMA NextRefines == IInv /\ [Next]_vars => [Chat!Next]_View
<1> SUFFICES ASSUME IInv, [Next]_vars PROVE Chat!Next \/ Stays
  BY Stutters
<1> USE DEF IInv
<1>1. CASE Server
  <2>1. ASSUME NEW f \in Fds, Read(f) PROVE Chat!Next
    BY <2>1, ReadSays DEF Chat!Next
  <2> QED
    BY <1>1, <2>1, QuietServer, WriteStays, AcceptEnters DEF Server, Chat!Next
<1>2. ASSUME NEW c \in Clients, Client(c) \/ User(c) PROVE Chat!Next \/ Stays
  BY <1>2, QuietClient, ReceiveStays, LeaveExits DEF Client, User, Chat!Next
<1>3. CASE UNCHANGED vars
  <2>1. \A c : Pending(c)' = Pending(c)
    BY <1>3 DEF vars, clientVars, serverVars, castVars, Pending, Idle, Peer, Count
  <2>2. Members' = Members
    BY <1>3 DEF vars, clientVars, serverVars, castVars, Members
  <2> QED
    BY <1>3, <2>1, <2>2
    DEF vars, clientVars, serverVars, castVars, Heard, Stays
<1> QED
  BY <1>1, <1>2, <1>3 DEF Next

(* epoll_server.c:58: to every client that is in, the server is a room in  *)
(* which a message is heard by all the others at once, although it writes  *)
(* to them one after the other, may block in between, and clients leave    *)
(* while it does.                                                          *)
THEOREM Atomic == SafeSpec => AtomicBroadcast
<1>1. Init => Chat!Init
  <2> SUFFICES ASSUME Init PROVE Chat!Init
    OBVIOUS
  <2>1. Members = {}
    BY EpollAssumption DEF Init, Members
  <2> QED
    BY <2>1 DEF Chat!Init
<1>2. IInv /\ [Next]_vars => [Chat!Next]_View
  BY NextRefines
<1> QED
  BY <1>1, <1>2, Invariance, PTL
  DEF SafeSpec, AtomicBroadcast, Chat!Spec, View, Heard
=============================================================================
