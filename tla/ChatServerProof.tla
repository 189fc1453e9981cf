-------------------------- MODULE ChatServerProof ---------------------------
(***************************************************************************)
(* Proofs about the multithreaded chat of week 7 (ChatServer), for every   *)
(* number of clients, descriptors and table entries and every size of the  *)
(* socket buffers.                                                         *)
(***************************************************************************)
EXTENDS ChatServer, SequenceTheorems, TLAPS

(* The first entry of a sequence and the rest.                              *)
LEMMA Taken ==
    ASSUME NEW S, NEW s \in Seq(S), s # <<>>
    PROVE  /\ Head(s) = s[1] /\ Head(s) \in S
           /\ Tail(s) \in Seq(S)
           /\ Len(s) \in Nat /\ 1 \in 1 .. Len(s)
           /\ Len(Tail(s)) = Len(s) - 1
           /\ \A k \in 1 .. Len(Tail(s)) : /\ k + 1 \in 1 .. Len(s)
                                           /\ Tail(s)[k] = s[k + 1]
BY HeadTailProperties, EmptySeq, LenProperties

(* An entry at the end of a sequence.                                       *)
LEMMA Added ==
    ASSUME NEW S, NEW s \in Seq(S), NEW e \in S
    PROVE  /\ Append(s, e) \in Seq(S) /\ Append(s, e) # <<>>
           /\ Len(s) \in Nat
           /\ Len(Append(s, e)) = Len(s) + 1
           /\ \A k \in 1 .. Len(s) : Append(s, e)[k] = s[k]
           /\ Append(s, e)[Len(s) + 1] = e
BY AppendProperties, LenProperties

(* A message added to the end of the second part is added to the whole.    *)
LEMMA AppendInside ==
    ASSUME NEW S, NEW l \in Seq(S), NEW s \in Seq(S), NEW m \in S
    PROVE  /\ l \o Append(s, m) = Append(l \o s, m)
           /\ (l \o s) \o <<m>> = Append(l \o s, m)
           /\ (l \o s) \o <<>> = l \o s
           /\ l \o s \in Seq(S)
<1>1. l \o s \in Seq(S) /\ <<m>> \in Seq(S)
  BY ConcatProperties
<1>2. PICK w \in Seq(S) : w = l \o s
  BY <1>1
<1>3. Append(w, m) = w \o <<m>> /\ Append(s, m) = s \o <<m>> /\ w \o <<>> = w
  BY AppendIsConcat, ConcatEmptySeq
<1>4. (l \o s) \o <<m>> = l \o (s \o <<m>>)
  BY <1>1, ConcatAssociative
<1> QED
  BY <1>1, <1>2, <1>3, <1>4

(* A sequence is its first entry and then the rest.                         *)
LEMMA HeadAndTail ==
    ASSUME NEW S, NEW s \in Seq(S), s # <<>>
    PROVE  /\ <<Head(s)>> \in Seq(S) /\ Tail(s) \in Seq(S)
           /\ s = <<Head(s)>> \o Tail(s)
<1>1. Len(s) \in Nat \ {0} /\ Head(s) = s[1] /\ Head(s) \in S /\ Tail(s) \in Seq(S)
  BY EmptySeq, HeadTailProperties
<1>2. PICK n \in Nat \ {0} : n = Len(s) /\ 1 \in 1 .. n /\ n \in 1 .. n
  BY <1>1
<1>3. SubSeq(s, 1, n) = <<s[1]>> \o SubSeq(s, 2, n)
  BY <1>2, SubSeqRecursiveFirst
<1>4. SubSeq(s, 1, n) = s /\ Tail(s) = SubSeq(s, 2, n)
  BY <1>2, SubSeqFull, TailIsSubSeq
<1> QED
  BY <1>1, <1>3, <1>4

(* The first entry of the second part moves to the end of the first.       *)
LEMMA ReceivedInside ==
    ASSUME NEW S, NEW l \in Seq(S), NEW s \in Seq(S), s # <<>>
    PROVE  Append(l, Head(s)) \o Tail(s) = l \o s
<1>1. PICK h \in Seq(S), t \in Seq(S) :
            h = <<Head(s)>> /\ t = Tail(s) /\ s = h \o t
  BY HeadAndTail
<1>2. Append(l, Head(s)) = l \o h
  BY <1>1, HeadTailProperties, AppendIsConcat
<1>3. (l \o h) \o t = l \o (h \o t)
  BY ConcatAssociative
<1> QED
  BY <1>1, <1>2, <1>3

(* What is in neither part is not in the whole.                            *)
LEMMA InEither ==
    ASSUME NEW S, NEW l \in Seq(S), NEW s \in Seq(S), NEW m,
           \A k \in 1 .. Len(l) : l[k] # m,
           \A k \in 1 .. Len(s) : s[k] # m
    PROVE  \A k \in 1 .. Len(l \o s) : (l \o s)[k] # m
<1>1. PICK x \in Nat, y \in Nat : x = Len(l) /\ y = Len(s)
  BY LenProperties
<1>2. /\ Len(l \o s) = x + y
      /\ \A k \in 1 .. x + y :
            (l \o s)[k] = IF k <= x THEN l[k] ELSE s[k - x]
  BY <1>1, ConcatProperties
<1>3. \A k \in 1 .. x + y :
            \/ k <= x /\ k \in 1 .. x
            \/ ~(k <= x) /\ k - x \in 1 .. y
  OBVIOUS
<1> QED
  BY <1>1, <1>2, <1>3

-----------------------------------------------------------------------------
Open(f) == sock[f] # NoClient

InTable(f) == \E k \in 1 .. Count : client_socks[k] = f

(* The table, and where the threads of its connections are.                *)
Listed ==
    /\ \A j, k \in 1 .. Count : client_socks[j] = client_socks[k] => j = k
    /\ \A k \in 1 .. Count : ~Open(client_socks[k]) =>
            main = "undo" /\ client_socks[k] = new
    /\ \A f \in Fds : pc[f] # "none" =>
            Open(f) /\ (InTable(f) <=> pc[f] # "close")

(* What main() has in hand: a connection that has no thread yet.           *)
InHand ==
    /\ main = "accept" <=> new = NoFd
    /\ new # NoFd => pc[new] = "none"
    /\ main = "register" => ~InTable(new)
    /\ main \in {"register", "spawn"} => Open(new)
    /\ main = "undo" => ~Open(new)
    /\ main \in {"spawn", "undo"} => Count > 0 /\ client_socks[Count] = new

(* The holder of the mutex is the one thread that broadcasts.              *)
Locked ==
    /\ mutex # NoFd => pc[mutex] = "send" /\ next[mutex] > 0
    /\ \A f \in Fds : pc[f] = "send" => mutex = f

(* A client is on one descriptor at most, and either there or queued.      *)
Connections ==
    /\ \A f, g \in Fds : Open(f) /\ sock[f] = sock[g] => f = g
    /\ \A f \in Fds : Open(f) => phase[sock[f]] # "start"
    /\ \A a, b \in 1 .. Len(backlog) : backlog[a] = backlog[b] => a = b
    /\ \A a \in 1 .. Len(backlog) :
            /\ phase[backlog[a]] # "start"
            /\ \A f \in Fds : sock[f] # backlog[a]

Table == TypeOK /\ Listed /\ InHand /\ Locked /\ Connections

(* m is older than what the server has not read from its author yet.       *)
Past(m) == /\ m[2] <= said[m[1]]
           /\ \A k \in 1 .. Len(up[m[1]]) : m[2] < up[m[1]][k][2]

(* m is not waiting for the mutex either.                                  *)
Spread(m) == Past(m) /\ \A f \in Fds : pc[f] = "lock" => m # msg[f]

AllSpread(s) == \A k \in 1 .. Len(s) : Spread(s[k])

Unread(c) ==
    \A k \in 1 .. Len(up[c]) :
        /\ up[c][k][1] = c
        /\ up[c][k][2] <= said[c]
        /\ \A l \in k + 1 .. Len(up[c]) : up[c][k][2] < up[c][l][2]

(* Not in the table yet.                                                   *)
Outside(c) ==
    \/ phase[c] = "start"
    \/ \E a \in 1 .. Len(backlog) : backlog[a] = c
    \/ main = "register" /\ sock[new] = c

Talk ==
    /\ \A c \in Clients : Unread(c)
    /\ \A f \in Fds : pc[f] \in {"lock", "send"} =>
            /\ msg[f] # NoMessage
            /\ msg[f][1] = sock[f] /\ Past(msg[f])
    /\ \A c \in Clients : AllSpread(log[c]) /\ AllSpread(down[c])
    /\ \A c \in Clients : Outside(c) => log[c] = <<>> /\ down[c] = <<>>

IInv == Table /\ Talk

-----------------------------------------------------------------------------
(* The shift of lines 105-113: the entries behind the gap move up by one.  *)
LEMMA Shifted ==
    ASSUME NEW S, NEW s \in Seq(S), NEW j \in 1 .. Len(s),
           \A k \in 1 .. Len(s) : s[k] = s[j] => k = j
    PROVE  /\ RemoveFirst(s, s[j]) \in Seq(S) /\ Len(s) \in Nat
           /\ Len(RemoveFirst(s, s[j])) = Len(s) - 1
           /\ \A k \in 1 .. Len(s) - 1 : RemoveFirst(s, s[j])[k] =
                IF k < j THEN s[k] ELSE s[k + 1]
<1>0. PICK t : t = RemoveFirst(s, s[j])
  OBVIOUS
<1>1. PICK n \in Nat : n = Len(s) /\ j \in 1 .. n
  BY LenProperties
<1>2. SelectInSeq(s, LAMBDA v : v = s[j]) = j
  <2>1. {i \in 1 .. Len(s) : s[i] = s[j]} = {j}
    OBVIOUS
  <2>2. Min({j}) = j
    BY <1>1 DEF Min
  <2> QED
    BY <2>1, <2>2 DEF SelectInSeq
<1>3. t = SubSeq(s, 1, j - 1) \o SubSeq(s, j + 1, n)
  BY <1>0, <1>1, <1>2 DEF RemoveFirst, RemoveAt
<1>4. PICK a, b : a = SubSeq(s, 1, j - 1) /\ b = SubSeq(s, j + 1, n)
  OBVIOUS
<1>5. \A k \in 1 .. n : s[k] \in S
  BY <1>1, ElementOfSeq
<1>6. /\ a \in Seq(S) /\ Len(a) = j - 1
      /\ \A k \in 1 .. j - 1 : a[k] = s[k]
  <2>1. PICK m \in Int : m = j - 1 /\ m >= 0 /\ \A k \in 1 .. m : s[k] \in S
    BY <1>1, <1>5
  <2>2. /\ a \in Seq(S) /\ Len(a) = IF 1 <= m THEN m - 1 + 1 ELSE 0
        /\ \A k \in 1 .. m - 1 + 1 : a[k] = s[1 + k - 1]
    BY <1>4, <2>1, SubSeqProperties
  <2> QED
    BY <1>1, <2>1, <2>2
<1>7. /\ b \in Seq(S) /\ Len(b) = n - j
      /\ \A k \in 1 .. n - j : b[k] = s[j + k]
  <2>1. PICK m \in Int : m = j + 1 /\ \A k \in m .. n : s[k] \in S
    BY <1>1, <1>5
  <2>2. /\ b \in Seq(S) /\ Len(b) = IF m <= n THEN n - m + 1 ELSE 0
        /\ \A k \in 1 .. n - m + 1 : b[k] = s[m + k - 1]
    BY <1>1, <1>4, <2>1, SubSeqProperties
  <2>3. IF m <= n THEN n - m + 1 = n - j ELSE n - j = 0
    BY <1>1, <2>1
  <2>4. \A k \in 1 .. n - j : k \in 1 .. n - m + 1 /\ m + k - 1 = j + k
    BY <1>1, <2>1
  <2> QED
    BY <2>2, <2>3, <2>4
<1>8. /\ t \in Seq(S) /\ Len(t) = n - 1
      /\ \A k \in 1 .. n - 1 : t[k] = IF k <= j - 1 THEN a[k] ELSE b[k - (j - 1)]
  <2>1. t = a \o b
    BY <1>3, <1>4
  <2>2. /\ a \o b \in Seq(S) /\ Len(a \o b) = Len(a) + Len(b)
        /\ \A k \in 1 .. Len(a) + Len(b) :
              (a \o b)[k] = IF k <= Len(a) THEN a[k] ELSE b[k - Len(a)]
    BY <1>6, <1>7, ConcatProperties
  <2>3. Len(a) + Len(b) = n - 1
    BY <1>1, <1>6, <1>7
  <2> QED
    BY <1>6, <2>1, <2>2, <2>3
<1>9. ASSUME NEW k \in 1 .. n - 1
      PROVE  t[k] = IF k < j THEN s[k] ELSE s[k + 1]
  <2>1. CASE k < j
    BY <1>1, <1>6, <1>8, <2>1
  <2>2. CASE k >= j
    <3>1. k - (j - 1) \in 1 .. n - j /\ j + (k - (j - 1)) = k + 1
      BY <1>1, <2>2
    <3> QED
      BY <1>1, <1>7, <1>8, <2>2, <3>1
  <2>3. k < j \/ k >= j
    BY <1>1
  <2> QED
    BY <2>1, <2>2, <2>3
<1> QED
  BY <1>0, <1>1, <1>8, <1>9

-----------------------------------------------------------------------------
(* The table through the steps of main().                                  *)

LEMMA InitTable == Init => Table
<1> SUFFICES ASSUME Init PROVE Table
  OBVIOUS
<1> USE ChatAssumption DEF Init
<1>1. TypeOK
  BY DEF TypeOK, NoMessage
<1>2. Listed /\ InHand /\ Locked /\ Connections
  BY DEF Listed, InHand, Locked, Connections, Open, InTable, Count
<1> QED
  BY <1>1, <1>2 DEF Table

LEMMA AcceptTable == Table /\ Accept => Table'
<1> SUFFICES ASSUME Table, Accept PROVE Table'
  OBVIOUS
<1>1. PICK f \in Fds :
        /\ sock[f] = NoClient
        /\ sock' = [sock EXCEPT ![f] = Head(backlog)]
        /\ new' = f
  BY DEF Accept
<1>2. /\ backlog \in Seq(Clients) /\ backlog # <<>>
      /\ backlog' = Tail(backlog)
      /\ sock \in [Fds -> Clients \cup {NoClient}]
      /\ main = "accept" /\ main' = "register"
      /\ UNCHANGED <<phase, said, up, down, log, client_socks, mutex,
                     threadVars, alive>>
  BY DEF Accept, Table, TypeOK
<1>3. PICK c : c = Head(backlog)
  OBVIOUS
<1>4. /\ c = backlog[1] /\ c \in Clients /\ c # NoClient
      /\ backlog' \in Seq(Clients)
      /\ Len(backlog) \in Nat /\ 1 \in 1 .. Len(backlog)
      /\ Len(backlog') = Len(backlog) - 1
      /\ \A a \in 1 .. Len(backlog') : /\ a + 1 \in 1 .. Len(backlog)
                                       /\ backlog'[a] = backlog[a + 1]
  BY <1>2, <1>3, Taken, ChatAssumption
<1>5. /\ sock'[f] = c /\ \A g \in Fds \ {f} : sock'[g] = sock[g]
      /\ sock' \in [Fds -> Clients \cup {NoClient}]
  BY <1>1, <1>2, <1>3, <1>4
<1>6. pc[f] = "none" /\ ~InTable(f) /\ f # NoFd
  BY <1>1, <1>2, ChatAssumption DEF Table, Listed, InTable, Open, TypeOK
<1>7. TypeOK'
  BY <1>1, <1>2, <1>4, <1>5 DEF Table, TypeOK, threadVars
<1>8. Listed'
  <2>1. \A g \in Fds : sock[g] # NoClient => sock'[g] # NoClient
    BY <1>4, <1>5
  <2>2. \A k \in 1 .. Count : client_socks[k] \in Fds
    BY ElementOfSeq DEF Table, TypeOK, Count
  <2> QED
    BY <1>2, <2>1, <2>2 DEF Table, Listed, Open, InTable, Count, threadVars
<1>9. InHand'
  BY <1>1, <1>2, <1>4, <1>5, <1>6
  DEF InHand, Open, InTable, Count, threadVars
<1>10. Locked'
  BY <1>2 DEF Table, Locked, threadVars
<1>11. Connections'
  <2>1. /\ phase[c] # "start"
        /\ \A g \in Fds : sock[g] # c
        /\ \A a \in 1 .. Len(backlog') : backlog'[a] # c
    BY <1>4 DEF Table, Connections
  <2>2. /\ \A a, b \in 1 .. Len(backlog') : backlog'[a] = backlog'[b] => a = b
        /\ \A a \in 1 .. Len(backlog') :
              /\ phase[backlog'[a]] # "start"
              /\ \A g \in Fds : sock[g] # backlog'[a]
    BY <1>4 DEF Table, Connections
  <2>3. \A a \in 1 .. Len(backlog') : \A g \in Fds : sock'[g] # backlog'[a]
    BY <1>5, <2>1, <2>2
  <2>4. \A g \in Fds : sock'[g] # NoClient => phase[sock'[g]] # "start"
    BY <1>5, <2>1 DEF Table, Connections, Open
  <2>5. \A g, h \in Fds : sock'[g] # NoClient /\ sock'[g] = sock'[h] => g = h
    BY <1>5, <2>1 DEF Table, Connections, Open
  <2> QED
    BY <1>2, <2>2, <2>3, <2>4, <2>5 DEF Connections, Open
<1> QED
  BY <1>7, <1>8, <1>9, <1>10, <1>11 DEF Table

(* Hanging up: the descriptor of no thread is closed.                      *)
LEMMA HangUp ==
    ASSUME Table, NEW f \in Fds,
           sock' = [sock EXCEPT ![f] = NoClient],
           UNCHANGED <<phase, backlog>>
    PROVE  Connections' /\ sock' \in [Fds -> Clients \cup {NoClient}]
<1>1. sock \in [Fds -> Clients \cup {NoClient}]
  BY DEF Table, TypeOK
<1>2. \A a \in 1 .. Len(backlog) : backlog[a] # NoClient
  <2>1. backlog \in Seq(Clients)
    BY DEF Table, TypeOK
  <2> QED
    BY <2>1, ElementOfSeq, ChatAssumption
<1>3. \A g \in Fds : sock'[g] = IF g = f THEN NoClient ELSE sock[g]
  BY <1>1
<1> QED
  BY <1>1, <1>2, <1>3 DEF Table, Connections, Open

LEMMA RegisterTable == Table /\ Register => Table'
<1> SUFFICES ASSUME Table, Register PROVE Table'
  OBVIOUS
<1>1. /\ new \in Fds /\ main = "register" /\ Open(new) /\ ~InTable(new)
      /\ pc[new] = "none"
      /\ client_socks \in Seq(Fds) /\ Count \in Nat /\ Count <= MaxClient
      /\ UNCHANGED <<clientVars, mutex, threadVars, alive>>
      /\ sock \in [Fds -> Clients \cup {NoClient}]
  BY LenProperties DEF Register, Table, TypeOK, InHand, Count
<1> USE DEF clientVars, threadVars
<1>2. CASE /\ sock' = [sock EXCEPT ![new] = NoClient]
           /\ new' = NoFd /\ main' = "accept"
           /\ UNCHANGED client_socks
  <2>1. Connections' /\ sock' \in [Fds -> Clients \cup {NoClient}]
    BY <1>1, <1>2, HangUp
  <2>2. TypeOK'
    BY <1>1, <1>2, <2>1 DEF Table, TypeOK
  <2>3. \A k \in 1 .. Count : client_socks[k] \in Fds \ {new}
    BY <1>1, ElementOfSeq DEF InTable, Count
  <2>4. \A g \in Fds \ {new} : sock'[g] = sock[g]
    BY <1>1, <1>2
  <2>5. Listed'
    BY <1>1, <1>2, <2>3, <2>4 DEF Table, Listed, Open, InTable, Count
  <2>6. InHand' /\ Locked'
    BY <1>1, <1>2 DEF Table, InHand, Locked
  <2> QED
    BY <2>1, <2>2, <2>5, <2>6 DEF Table
<1>3. CASE /\ Count < MaxClient
           /\ client_socks' = Append(client_socks, new)
           /\ main' = "spawn" /\ UNCHANGED <<sock, new>>
  <2>1. /\ client_socks' \in Seq(Fds) /\ Count' = Count + 1
        /\ \A k \in 1 .. Count : client_socks'[k] = client_socks[k]
        /\ client_socks'[Count + 1] = new
    BY <1>1, <1>3, Added DEF Count
  <2>2. TypeOK'
    BY <1>1, <1>3, <2>1, ChatAssumption DEF Table, TypeOK, Count
  <2>3. ASSUME NEW g PROVE InTable(g)' <=> InTable(g) \/ g = new
    <3>1. ASSUME NEW k \in 1 .. Count', client_socks'[k] = g
          PROVE  InTable(g) \/ g = new
      <4>1. k \in 1 .. Count \/ k = Count + 1
        BY <1>1, <2>1, <3>1
      <4> QED
        BY <2>1, <3>1, <4>1 DEF InTable
    <3>2. ASSUME NEW k \in 1 .. Count, client_socks[k] = g
          PROVE  k \in 1 .. Count' /\ client_socks'[k] = g
      BY <1>1, <2>1, <3>2
    <3>3. Count + 1 \in 1 .. Count'
      BY <1>1, <2>1
    <3> QED
      BY <2>1, <3>1, <3>2, <3>3 DEF InTable
  <2>4. Listed'
    <3>1. \A j, k \in 1 .. Count' : client_socks'[j] = client_socks'[k] => j = k
      BY <1>1, <2>1 DEF Table, Listed, InTable
    <3>2. \A k \in 1 .. Count' : sock[client_socks'[k]] # NoClient
      BY <1>1, <2>1 DEF Table, Listed, Open
    <3> QED
      BY <1>1, <1>3, <2>3, <3>1, <3>2 DEF Table, Listed, Open
  <2>5. InHand' /\ Locked' /\ Connections'
    BY <1>1, <1>3, <2>1 DEF Table, InHand, Locked, Connections, Open
  <2> QED
    BY <2>2, <2>4, <2>5 DEF Table
<1> QED
  BY <1>2, <1>3 DEF Register

LEMMA SpawnTable == Table /\ Spawn => Table'
<1> SUFFICES ASSUME Table, Spawn PROVE Table'
  OBVIOUS
<1>1. /\ new \in Fds /\ main = "spawn" /\ Open(new) /\ pc[new] = "none"
      /\ client_socks[Count] = new /\ Count \in Nat /\ Count > 0
      /\ UNCHANGED <<clientVars, client_socks, mutex, msg, next, alive>>
      /\ sock \in [Fds -> Clients \cup {NoClient}]
      /\ pc \in [Fds -> {"none", "read", "lock", "send", "remove", "close"}]
  BY LenProperties DEF Spawn, Table, TypeOK, InHand, Count
<1> USE DEF clientVars
<1>2. CASE /\ pc' = [pc EXCEPT ![new] = "read"]
           /\ main' = "accept" /\ new' = NoFd /\ UNCHANGED sock
  <2>1. TypeOK'
    BY <1>1, <1>2 DEF Table, TypeOK
  <2>2. InTable(new)
    BY <1>1 DEF InTable
  <2>3. Listed'
    BY <1>1, <1>2, <2>2 DEF Table, Listed, Open, InTable, Count
  <2>4. InHand'
    BY <1>1, <1>2, ChatAssumption DEF Table, InHand, Open
  <2>5. Locked'
    BY <1>1, <1>2 DEF Table, TypeOK, Locked
  <2>6. Connections'
    BY <1>1, <1>2 DEF Table, Connections, Open
  <2> QED
    BY <2>1, <2>3, <2>4, <2>5, <2>6 DEF Table
<1>3. CASE /\ sock' = [sock EXCEPT ![new] = NoClient]
           /\ main' = "undo" /\ UNCHANGED <<pc, new>>
  <2>1. Connections' /\ sock' \in [Fds -> Clients \cup {NoClient}]
    BY <1>1, <1>3, HangUp
  <2>2. TypeOK'
    BY <1>1, <1>3, <2>1 DEF Table, TypeOK
  <2>3. \A g : sock[g] # NoClient /\ g \in Fds /\ g # new => sock'[g] # NoClient
    BY <1>1, <1>3
  <2>4. \A k \in 1 .. Count : client_socks[k] \in Fds
    BY ElementOfSeq DEF Table, TypeOK, Count
  <2>5. Listed'
    BY <1>1, <1>3, <2>3, <2>4 DEF Table, Listed, Open, InTable, Count
  <2>6. InHand' /\ Locked'
    BY <1>1, <1>3 DEF Table, InHand, Locked, Open, Count
  <2> QED
    BY <2>1, <2>2, <2>5, <2>6 DEF Table
<1> QED
  BY <1>2, <1>3 DEF Spawn

(* The entry that goes blindly is that of the connection main() closed.    *)
LEMMA UndoTable == Table /\ Undo => Table'
<1> SUFFICES ASSUME Table, Undo PROVE Table'
  OBVIOUS
<1>1. /\ new \in Fds /\ main = "undo" /\ pc[new] = "none"
      /\ client_socks[Count] = new /\ Count \in Nat /\ Count > 0
      /\ Count <= MaxClient
      /\ UNCHANGED <<clientVars, sock, mutex, threadVars, alive>>
      /\ main' = "accept" /\ new' = NoFd
      /\ client_socks' = SubSeq(client_socks, 1, Count - 1)
  BY LenProperties DEF Undo, Table, TypeOK, InHand, Count
<1> USE DEF clientVars, threadVars
<1>2. PICK n \in Nat : n = Count - 1 /\ Count = n + 1 /\ n - 1 + 1 = n
  BY <1>1
<1>3. \A k \in 1 .. n + 1 : client_socks[k] \in Fds
  BY <1>2, ElementOfSeq DEF Table, TypeOK, Count
<1>4. /\ client_socks' \in Seq(Fds) /\ Count' = n
      /\ \A k \in 1 .. n : client_socks'[k] = client_socks[k]
  <2>1. \A k \in 1 .. n : client_socks[k] \in Fds
    BY <1>3
  <2>2. /\ SubSeq(client_socks, 1, n) \in Seq(Fds)
        /\ Len(SubSeq(client_socks, 1, n)) = IF 1 <= n THEN n - 1 + 1 ELSE 0
        /\ \A k \in 1 .. n - 1 + 1 :
             SubSeq(client_socks, 1, n)[k] = client_socks[1 + k - 1]
    BY <2>1, SubSeqProperties
  <2> QED
    BY <1>1, <1>2, <2>2 DEF Count
<1>5. TypeOK'
  <2>1. Len(client_socks') <= MaxClient
    BY <1>1, <1>2, <1>4, ChatAssumption DEF Count
  <2>2. /\ main' = "accept" /\ new' = NoFd
        /\ UNCHANGED <<clientVars, sock, mutex, threadVars, alive>>
    BY <1>1
  <2> QED
    BY <1>4, <2>1, <2>2 DEF Table, TypeOK
<1>6. ASSUME NEW g \in Fds PROVE InTable(g)' <=> InTable(g) /\ g # new
  <2>1. \A k \in 1 .. n + 1 : client_socks[k] = new => k = n + 1
    BY <1>1, <1>2 DEF Table, Listed
  <2>2. InTable(g) <=> \E k \in 1 .. n + 1 : client_socks[k] = g
    BY <1>2 DEF InTable
  <2>3. InTable(g)' <=> \E k \in 1 .. n : client_socks[k] = g
    BY <1>4 DEF InTable
  <2> QED
    BY <1>1, <1>2, <2>1, <2>2, <2>3
<1>7. Listed'
  BY <1>1, <1>2, <1>4, <1>6 DEF Table, Listed, Open
<1>8. InHand' /\ Locked' /\ Connections'
  BY <1>1 DEF Table, InHand, Locked, Connections, Open
<1> QED
  BY <1>5, <1>7, <1>8 DEF Table

-----------------------------------------------------------------------------
(* The table through the steps of the threads.                             *)

(* A thread goes on and stays registered.                                  *)
LEMMA ThreadGoesOn ==
    ASSUME Table, NEW f \in Fds, pc[f] \notin {"none", "close"},
           NEW to \in {"read", "lock", "send", "remove"},
           pc' = [pc EXCEPT ![f] = to],
           UNCHANGED <<phase, backlog, sock, client_socks, main, new>>
    PROVE  Listed' /\ InHand' /\ Connections'
<1>1. pc \in [Fds -> {"none", "read", "lock", "send", "remove", "close"}]
  BY DEF Table, TypeOK
<1>2. new # f
  BY ChatAssumption DEF Table, InHand, TypeOK
<1>3. \A g \in Fds : pc'[g] = IF g = f THEN to ELSE pc[g]
  BY <1>1
<1>4. Listed'
  BY <1>3 DEF Table, Listed, Open, InTable, Count
<1>5. InHand'
  BY <1>2, <1>3 DEF Table, TypeOK, InHand, Open, InTable, Count
<1>6. Connections'
  BY DEF Table, Connections, Open
<1> QED
  BY <1>4, <1>5, <1>6

LEMMA MessagesSaySomething == \A m \in Messages : m # NoMessage
<1> SUFFICES ASSUME NEW m \in Messages PROVE m # NoMessage
  OBVIOUS
<1>1. PICK c \in Clients, n \in 1 .. MaxSay : m = <<c, n>>
  BY DEF Messages
<1>2. Len(<<c, n>>) = 2 /\ Len(<<>>) = 0
  OBVIOUS
<1> QED
  BY <1>1, <1>2 DEF NoMessage

LEMMA ThreadsTable ==
    ASSUME Table, NEW f \in Fds,
           Read(f) \/ Lock(f) \/ Unlock(f) \/ EndOfFile(f)
    PROVE  Table'
<1>1. /\ pc[f] \notin {"none", "close"}
      /\ \E to \in {"read", "lock", "send", "remove"} :
            pc' = [pc EXCEPT ![f] = to]
      /\ UNCHANGED <<phase, backlog, sock, client_socks, main, new>>
  BY DEF Read, Lock, Unlock, EndOfFile, At, clientVars
<1>2. Listed' /\ InHand' /\ Connections'
  BY <1>1, ThreadGoesOn
<1>3. /\ pc \in [Fds -> {"none", "read", "lock", "send", "remove", "close"}]
      /\ msg \in [Fds -> Messages \cup {NoMessage}]
      /\ next \in [Fds -> 0 .. MaxClient + 1]
      /\ up \in [Clients -> Seq(Messages)]
      /\ MaxClient \in Nat \ {0}
      /\ mutex \in Fds \cup {NoFd}
  BY ChatAssumption DEF Table, TypeOK
<1>4. pc' \in [Fds -> {"none", "read", "lock", "send", "remove", "close"}]
  BY <1>1, <1>3
<1>5. CASE Read(f)
  <2>1. sock[f] \in Clients /\ up[sock[f]] # <<>>
    BY <1>1, <1>5 DEF Table, TypeOK, Listed, Open, Read
  <2>2. Head(up[sock[f]]) \in Messages /\ Tail(up[sock[f]]) \in Seq(Messages)
    BY <1>3, <2>1, Taken
  <2>3. msg' \in [Fds -> Messages \cup {NoMessage}] /\ up' \in [Clients -> Seq(Messages)]
    BY <1>3, <1>5, <2>2 DEF Read
  <2>4. UNCHANGED <<phase, said, down, log, backlog, sock, client_socks, mutex,
                    main, new, next, alive>>
    BY <1>5 DEF Read
  <2>5. TypeOK'
    BY <1>4, <2>3, <2>4 DEF Table, TypeOK
  <2>6. Locked'
    <3>1. pc[f] = "read" /\ pc' = [pc EXCEPT ![f] = "lock"]
      BY <1>5 DEF Read, At
    <3> QED
      BY <1>3, <2>4, <3>1 DEF Table, Locked
  <2> QED
    BY <1>2, <2>5, <2>6 DEF Table
<1>6. CASE Lock(f)
  <2>1. TypeOK'
    <3>1. /\ mutex' \in Fds \cup {NoFd}
          /\ next' \in [Fds -> 0 .. MaxClient + 1]
      BY <1>3, <1>6, ChatAssumption DEF Table, TypeOK, Lock
    <3>2. UNCHANGED <<phase, said, up, down, log, backlog, sock, client_socks,
                      main, new, msg, alive>>
      BY <1>6 DEF Lock, clientVars
    <3> QED
      BY <1>4, <3>1, <3>2 DEF Table, TypeOK
  <2>2. Locked'
    BY <1>3, <1>6, ChatAssumption DEF Table, Locked, Lock, At
  <2> QED
    BY <1>2, <2>1, <2>2 DEF Table
<1>7. CASE Unlock(f)
  <2>1. TypeOK'
    BY <1>3, <1>4, <1>7 DEF Table, TypeOK, Unlock, clientVars
  <2>2. Locked'
    BY <1>3, <1>7, ChatAssumption DEF Table, Locked, Unlock, At
  <2> QED
    BY <1>2, <2>1, <2>2 DEF Table
<1>8. CASE EndOfFile(f)
  <2>1. TypeOK'
    BY <1>4, <1>8 DEF Table, TypeOK, EndOfFile, clientVars
  <2>2. Locked'
    BY <1>3, <1>8 DEF Table, Locked, EndOfFile, At
  <2> QED
    BY <1>2, <2>1, <2>2 DEF Table
<1> QED
  BY <1>5, <1>6, <1>7, <1>8

(* The socket that is written to next, if it is still open.                *)
LEMMA NextSocket ==
    ASSUME Table, NEW f \in Fds, Write(f)
    PROVE  /\ mutex = f /\ next[f] \in 1 .. Count
           /\ client_socks[next[f]] \in Fds
           /\ sock[client_socks[next[f]]] \in Clients \cup {NoClient}
           /\ msg[f] \in Messages \cup {NoMessage}
           /\ Count \in Nat /\ Count <= MaxClient
<1>1. mutex = f /\ f # NoFd /\ next[f] \in Nat /\ next[f] <= Count
  BY ChatAssumption DEF Write, Table, Locked, TypeOK
<1>2. client_socks \in Seq(Fds) /\ Count \in Nat /\ Count <= MaxClient
  BY LenProperties DEF Table, TypeOK, Count
<1>3. next[f] \in 1 .. Count
  BY <1>1, <1>2 DEF Table, Locked
<1>4. client_socks[next[f]] \in Fds
  BY <1>2, <1>3, ElementOfSeq DEF Count
<1> QED
  BY <1>1, <1>2, <1>3, <1>4 DEF Table, TypeOK

LEMMA WriteTable ==
    ASSUME Table, NEW f \in Fds, Write(f), msg[f] # NoMessage
    PROVE  Table'
<1>1. /\ mutex = f /\ next[f] \in 1 .. Count /\ Count <= MaxClient
      /\ Count \in Nat /\ MaxClient \in Nat
      /\ sock[client_socks[next[f]]] \in Clients \cup {NoClient}
      /\ msg[f] \in Messages
  BY NextSocket, ChatAssumption
<1>2. /\ next \in [Fds -> 0 .. MaxClient + 1]
      /\ next' = [next EXCEPT ![f] = @ + 1]
      /\ UNCHANGED <<phase, said, up, log, backlog, sock, client_socks, mutex,
                     main, new, pc, msg>>
      /\ down \in [Clients -> Seq(Messages)]
  BY DEF Write, Table, TypeOK
<1>3. next' \in [Fds -> 0 .. MaxClient + 1] /\ next'[f] > 0
  <2>1. next[f] + 1 \in 0 .. MaxClient + 1 /\ next[f] + 1 > 0
    BY <1>1
  <2> QED
    BY <1>2, <2>1
<1>4. down' \in [Clients -> Seq(Messages)] /\ alive' \in BOOLEAN
  <2>1. PICK d : d = sock[client_socks[next[f]]]
    OBVIOUS
  <2>2. CASE down' = down
    BY <1>2, <2>2 DEF Write, Table, TypeOK
  <2>3. CASE /\ d # NoClient /\ UNCHANGED alive
             /\ down' = [down EXCEPT ![d] = Append(@, msg[f])]
    BY <1>1, <1>2, <2>1, <2>3, Added DEF Table, TypeOK
  <2> QED
    BY <2>1, <2>2, <2>3 DEF Write
<1>5. TypeOK'
  BY <1>2, <1>3, <1>4 DEF Table, TypeOK
<1>6. Listed' /\ InHand' /\ Connections'
  <2>1. Listed'
    BY <1>2 DEF Table, Listed, Open, InTable, Count
  <2>2. InHand'
    BY <1>2 DEF Table, InHand, Open, InTable, Count
  <2>3. Connections'
    BY <1>2 DEF Table, Connections, Open
  <2> QED
    BY <2>1, <2>2, <2>3
<1>7. Locked'
  BY <1>1, <1>2, <1>3 DEF Table, Locked
<1> QED
  BY <1>5, <1>6, <1>7 DEF Table

LEMMA UnregisterTable ==
    ASSUME Table, NEW f \in Fds, Unregister(f)
    PROVE  Table'
<1>1. /\ pc[f] = "remove" /\ pc' = [pc EXCEPT ![f] = "close"]
      /\ pc \in [Fds -> {"none", "read", "lock", "send", "remove", "close"}]
      /\ client_socks \in Seq(Fds) /\ Len(client_socks) <= MaxClient
      /\ UNCHANGED <<clientVars, sock, mutex, main, new, msg, next, alive>>
      /\ f # new
  BY ChatAssumption DEF Unregister, At, Table, TypeOK, InHand
<1>2. PICK j \in 1 .. Count : client_socks[j] = f
  BY <1>1 DEF Table, Listed, InTable
<1>3. \A k \in 1 .. Count : client_socks[k] = client_socks[j] => k = j
  BY DEF Table, Listed
<1>4. client_socks' = RemoveFirst(client_socks, client_socks[j])
  BY <1>2 DEF Unregister
<1>5. /\ client_socks' \in Seq(Fds)
      /\ Len(client_socks) \in Nat
      /\ Len(client_socks') = Len(client_socks) - 1
      /\ \A k \in 1 .. Len(client_socks') : client_socks'[k] =
            IF k < j THEN client_socks[k] ELSE client_socks[k + 1]
  <2>1. PICK s, t :
            /\ s \in Seq(Fds)
            /\ s = client_socks /\ t = client_socks'
            /\ j \in 1 .. Len(s)
            /\ \A k \in 1 .. Len(s) : s[k] = s[j] => k = j
            /\ t = RemoveFirst(s, s[j])
    BY <1>1, <1>2, <1>3, <1>4 DEF Count
  <2>2. /\ t \in Seq(Fds) /\ Len(s) \in Nat /\ Len(t) = Len(s) - 1
        /\ \A k \in 1 .. Len(t) : t[k] = IF k < j THEN s[k] ELSE s[k + 1]
    <3>1. PICK i \in 1 .. Len(s) : i = j
      BY <2>1
    <3>2. /\ s \in Seq(Fds)
          /\ \A k \in 1 .. Len(s) : s[k] = s[i] => k = i
          /\ t = RemoveFirst(s, s[i])
      BY <2>1, <3>1
    <3>3. /\ t \in Seq(Fds) /\ Len(s) \in Nat /\ Len(t) = Len(s) - 1
          /\ \A k \in 1 .. Len(t) : t[k] = IF k < i THEN s[k] ELSE s[k + 1]
      <4> HIDE <2>1, <3>1
      <4> QED
        BY <3>2, Shifted
    <3> QED
      BY <3>1, <3>3
  <2> QED
    BY <2>1, <2>2
<1>6. PICK n \in Nat : /\ n = Len(client_socks') /\ Count = n + 1
                       /\ j \in 1 .. n + 1
  BY <1>2, <1>5 DEF Count
<1>7. \A k \in 1 .. n : client_socks'[k] =
            IF k < j THEN client_socks[k] ELSE client_socks[k + 1]
  BY <1>5, <1>6
<1>8. TypeOK'
  <2>1. Len(client_socks') <= MaxClient
    BY <1>1, <1>5, ChatAssumption
  <2>2. pc' \in [Fds -> {"none", "read", "lock", "send", "remove", "close"}]
    BY <1>1
  <2>3. UNCHANGED <<clientVars, sock, mutex, main, new, msg, next, alive>>
    BY <1>1
  <2> QED
    BY <1>5, <2>1, <2>2, <2>3 DEF Table, TypeOK, clientVars
<1>9. ASSUME NEW g \in Fds PROVE InTable(g)' <=> InTable(g) /\ g # f
  <2>1. InTable(g) <=> \E k \in 1 .. n + 1 : client_socks[k] = g
    BY <1>6 DEF InTable
  <2>2. InTable(g)' <=> \E k \in 1 .. n : client_socks'[k] = g
    BY <1>6 DEF InTable, Count
  <2>3. ASSUME NEW k \in 1 .. n, client_socks'[k] = g
        PROVE  g # f /\ \E l \in 1 .. n + 1 : client_socks[l] = g
    BY <1>2, <1>3, <1>6, <1>7, <2>3
  <2>4. ASSUME NEW k \in 1 .. n + 1, client_socks[k] = g, g # f
        PROVE  \E l \in 1 .. n : client_socks'[l] = g
    <3>1. CASE k < j
      BY <1>6, <1>7, <2>4, <3>1
    <3>2. CASE k > j
      <4>1. k - 1 \in 1 .. n /\ ~(k - 1 < j) /\ (k - 1) + 1 = k
        BY <1>6, <3>2
      <4> QED
        BY <1>7, <2>4, <4>1
    <3>3. k # j
      BY <1>2, <2>4
    <3> QED
      BY <3>1, <3>2, <3>3
  <2> QED
    BY <2>1, <2>2, <2>3, <2>4
<1>10. Listed'
  <2>1. \A k, l \in 1 .. n + 1 : client_socks[k] = client_socks[l] => k = l
    BY <1>6 DEF Table, Listed
  <2>2. \A k, l \in 1 .. n : client_socks'[k] = client_socks'[l] => k = l
    BY <1>6, <1>7, <2>1
  <2>3. \A k \in 1 .. n :
            sock[client_socks'[k]] = NoClient => main = "undo" /\ client_socks'[k] = new
    BY <1>6, <1>7 DEF Table, Listed, Open
  <2>4. \A g \in Fds : pc'[g] = IF g = f THEN "close" ELSE pc[g]
    BY <1>1
  <2>5. \A g \in Fds : pc'[g] # "none" =>
            sock[g] # NoClient /\ (InTable(g)' <=> pc'[g] # "close")
    BY <1>1, <1>9, <2>4 DEF Table, Listed, Open
  <2> QED
    BY <1>1, <1>6, <2>2, <2>3, <2>5 DEF Listed, Open, Count
<1>11. InHand'
  <2>1. main \in {"spawn", "undo"} => n > 0 /\ client_socks'[n] = new
    <3>1. SUFFICES ASSUME main \in {"spawn", "undo"}
                   PROVE  n > 0 /\ client_socks'[n] = new
      OBVIOUS
    <3>2. client_socks[n + 1] = new
      BY <1>6, <3>1 DEF Table, InHand
    <3>3. j # n + 1
      BY <1>1, <1>2, <3>2
    <3> QED
      BY <1>6, <1>7, <3>2, <3>3
  <2>2. \A g \in Fds : g # f => pc'[g] = pc[g]
    BY <1>1
  <2>3. main = "register" => ~InTable(new)'
    BY <1>1, <1>9 DEF Table, InHand, TypeOK
  <2> QED
    BY <1>1, <1>6, <2>1, <2>2, <2>3 DEF Table, TypeOK, InHand, Open, Count
<1>12. Locked'
  BY <1>1 DEF Table, TypeOK, Locked
<1>13. Connections'
  BY <1>1 DEF Table, Connections, Open, clientVars
<1> QED
  BY <1>8, <1>10, <1>11, <1>12, <1>13 DEF Table

LEMMA CloseTable ==
    ASSUME Table, NEW f \in Fds, Close(f)
    PROVE  Table'
<1>1. /\ pc[f] = "close" /\ pc' = [pc EXCEPT ![f] = "none"]
      /\ pc \in [Fds -> {"none", "read", "lock", "send", "remove", "close"}]
      /\ sock' = [sock EXCEPT ![f] = NoClient]
      /\ sock \in [Fds -> Clients \cup {NoClient}]
      /\ UNCHANGED <<clientVars, client_socks, mutex, main, new, msg, next, alive>>
      /\ f # new /\ ~InTable(f)
  BY ChatAssumption DEF Close, At, Table, TypeOK, Listed, InHand
<1>2. Connections' /\ sock' \in [Fds -> Clients \cup {NoClient}]
  BY <1>1, HangUp DEF clientVars
<1>3. /\ pc' \in [Fds -> {"none", "read", "lock", "send", "remove", "close"}]
      /\ \A g \in Fds \ {f} : pc'[g] = pc[g] /\ sock'[g] = sock[g]
      /\ pc'[f] = "none"
  BY <1>1
<1>4. TypeOK'
  BY <1>1, <1>2, <1>3 DEF Table, TypeOK, clientVars
<1>5. \A k \in 1 .. Count : client_socks[k] \in Fds \ {f}
  <2>1. client_socks \in Seq(Fds)
    BY DEF Table, TypeOK
  <2> QED
    BY <1>1, <2>1, ElementOfSeq DEF InTable, Count
<1>6. Listed'
  BY <1>1, <1>3, <1>5 DEF Table, Listed, Open, InTable, Count
<1>7. InHand'
  BY <1>1, <1>3 DEF Table, TypeOK, InHand, Open, InTable, Count
<1>8. Locked'
  BY <1>1, <1>3 DEF Table, TypeOK, Locked
<1> QED
  BY <1>2, <1>4, <1>6, <1>7, <1>8 DEF Table

-----------------------------------------------------------------------------
(* The table through the steps of the clients.                             *)

LEMMA ConnectTable ==
    ASSUME Table, NEW c \in Clients, Connect(c)
    PROVE  Table'
<1>1. /\ backlog \in Seq(Clients) /\ phase[c] = "start"
      /\ phase \in [Clients -> {"start", "in", "gone"}]
      /\ phase' = [phase EXCEPT ![c] = "in"]
      /\ backlog' = Append(backlog, c)
      /\ UNCHANGED <<said, up, down, log, serverVars>>
  BY DEF Connect, Table, TypeOK
<1>2. /\ backlog' \in Seq(Clients)
      /\ Len(backlog) \in Nat /\ Len(backlog') = Len(backlog) + 1
      /\ \A a \in 1 .. Len(backlog) : /\ backlog'[a] = backlog[a]
                                      /\ backlog[a] \in Clients
      /\ backlog'[Len(backlog) + 1] = c
  BY <1>1, Added, ElementOfSeq
<1>3. TypeOK'
  <2>1. phase' \in [Clients -> {"start", "in", "gone"}]
    BY <1>1
  <2>2. UNCHANGED <<said, up, down, log, serverVars>>
    BY <1>1
  <2> QED
    BY <1>2, <2>1, <2>2 DEF Table, TypeOK, serverVars, threadVars
<1>4. Listed' /\ InHand' /\ Locked'
  BY <1>1
  DEF Table, Listed, InHand, Locked, Open, InTable, Count, serverVars, threadVars
<1>5. Connections'
  <2>1. /\ sock' = sock
        /\ \A f \in Fds : sock[f] \in Clients \cup {NoClient}
    BY <1>1 DEF Table, TypeOK, serverVars
  <2>2. /\ \A a \in 1 .. Len(backlog) : backlog[a] # c
        /\ \A f \in Fds : sock[f] # c
    BY <1>1, ChatAssumption DEF Table, Connections, Open
  <2>3. \A a, b \in 1 .. Len(backlog') : backlog'[a] = backlog'[b] => a = b
    BY <1>2, <2>2 DEF Table, Connections
  <2>4. \A a \in 1 .. Len(backlog') :
              /\ phase'[backlog'[a]] # "start"
              /\ \A f \in Fds : sock[f] # backlog'[a]
    BY <1>1, <1>2, <2>2 DEF Table, Connections
  <2>5. \A f \in Fds : Open(f) => phase'[sock[f]] # "start"
    BY <1>1, <2>1, <2>2 DEF Table, Connections, Open
  <2> QED
    BY <2>1, <2>3, <2>4, <2>5 DEF Table, Connections, Open
<1> QED
  BY <1>3, <1>4, <1>5 DEF Table

(* Writing, reading and leaving: no connection is made or closed.          *)
LEMMA ClientTable ==
    ASSUME Table, NEW c \in Clients, Say(c) \/ Receive(c) \/ Leave(c)
    PROVE  Table'
<1>1. /\ phase \in [Clients -> {"start", "in", "gone"}]
      /\ said \in [Clients -> 0 .. MaxSay]
      /\ up \in [Clients -> Seq(Messages)]
      /\ down \in [Clients -> Seq(Messages)]
      /\ log \in [Clients -> Seq(Messages)]
      /\ MaxSay \in Nat
      /\ UNCHANGED <<backlog, serverVars>>
  BY ChatAssumption DEF Table, TypeOK, Say, Receive, Leave
<1>2. /\ phase' \in [Clients -> {"start", "in", "gone"}]
      /\ \A d \in Clients : phase[d] # "start" => phase'[d] # "start"
  BY <1>1 DEF Say, Receive, Leave
<1> DEFINE Typed ==
      /\ said' \in [Clients -> 0 .. MaxSay]
      /\ up' \in [Clients -> Seq(Messages)]
      /\ down' \in [Clients -> Seq(Messages)]
      /\ log' \in [Clients -> Seq(Messages)]
<1>3. ASSUME Say(c) PROVE Typed
  <2>1. said[c] + 1 \in 1 .. MaxSay /\ up[c] \in Seq(Messages)
    BY <1>1, <1>3 DEF Say
  <2>2. PICK m \in Messages : m = <<c, said[c] + 1>>
    BY <2>1 DEF Messages
  <2>3. Append(up[c], m) \in Seq(Messages)
    BY <2>1, <2>2, Added
  <2>4. said' \in [Clients -> 0 .. MaxSay] /\ up' \in [Clients -> Seq(Messages)]
    BY <1>1, <1>3, <2>1, <2>2, <2>3 DEF Say
  <2>5. UNCHANGED <<down, log>>
    BY <1>3 DEF Say
  <2> QED
    BY <1>1, <1>2, <2>4, <2>5
<1>4. ASSUME Receive(c) PROVE Typed
  <2>1. Head(down[c]) \in Messages /\ Tail(down[c]) \in Seq(Messages)
    BY <1>1, <1>4, Taken DEF Receive
  <2>2. Append(log[c], Head(down[c])) \in Seq(Messages)
    BY <1>1, <2>1, Added
  <2>3. /\ down' \in [Clients -> Seq(Messages)]
        /\ log' \in [Clients -> Seq(Messages)]
    BY <1>1, <1>4, <2>1, <2>2 DEF Receive
  <2>4. UNCHANGED <<phase, said, up>>
    BY <1>4 DEF Receive
  <2> QED
    BY <1>1, <2>3, <2>4
<1>5. ASSUME Leave(c) PROVE Typed
  <2>1. down' \in [Clients -> Seq(Messages)]
    BY <1>1, <1>5, EmptySeq DEF Leave
  <2>2. UNCHANGED <<said, up, log>>
    BY <1>5 DEF Leave
  <2> QED
    BY <1>1, <2>1, <2>2
<1>6. TypeOK'
  <2>1. Typed
    BY <1>3, <1>4, <1>5
  <2> QED
    BY <1>1, <1>2, <2>1 DEF Table, TypeOK, serverVars, threadVars
<1>7. Listed' /\ InHand' /\ Locked'
  BY <1>1
  DEF Table, Listed, InHand, Locked, Open, InTable, Count, serverVars, threadVars
<1>8. Connections'
  <2>1. /\ \A f \in Fds : Open(f) => sock[f] \in Clients
        /\ sock' = sock
    BY <1>1 DEF Table, TypeOK, Open, serverVars
  <2>2. \A a \in 1 .. Len(backlog) : backlog[a] \in Clients
    <3>1. backlog \in Seq(Clients)
      BY DEF Table, TypeOK
    <3> QED
      BY <3>1, ElementOfSeq
  <2> QED
    BY <1>1, <1>2, <2>1, <2>2 DEF Table, Connections, Open
<1> QED
  BY <1>6, <1>7, <1>8 DEF Table

-----------------------------------------------------------------------------
(* What is said.                                                           *)

LEMMA MessageParts ==
    \A m \in Messages : m[1] \in Clients /\ m[2] \in 1 .. MaxSay /\ m[2] \in Nat
BY ChatAssumption DEF Messages

LEMMA InitTalk == Init => Talk
BY DEF Init, Talk, Unread, AllSpread

(* Steps that neither begin a broadcast nor pass a message on.             *)
LEMMA TalkKept ==
    ASSUME Talk, UNCHANGED <<said, up, log>>,
           \A c \in Clients : down'[c] = down[c] \/ down'[c] = <<>>,
           \A f \in Fds : pc'[f] \in {"lock", "send"} =>
                /\ pc[f] \in {"lock", "send"}
                /\ msg'[f] = msg[f] /\ sock'[f] = sock[f],
           \A f \in Fds : pc'[f] = "lock" => pc[f] = "lock",
           \A c \in Clients : Outside(c)' => Outside(c)
    PROVE  Talk'
<1>1. \A m : Past(m)' <=> Past(m)
  BY DEF Past
<1>2. \A m : Spread(m) => Spread(m)'
  BY <1>1 DEF Spread
<1>3. \A c \in Clients : Unread(c)'
  BY DEF Talk, Unread
<1>4. \A f \in Fds : pc'[f] \in {"lock", "send"} =>
            /\ msg'[f] # NoMessage
            /\ msg'[f][1] = sock'[f] /\ Past(msg[f])'
  <2>1. SUFFICES ASSUME NEW f \in Fds, pc'[f] \in {"lock", "send"}
                 PROVE  /\ msg'[f] # NoMessage
                        /\ msg'[f][1] = sock'[f] /\ Past(msg[f])'
    OBVIOUS
  <2>2. PICK m : m = msg[f]
    OBVIOUS
  <2>3. m # NoMessage /\ m[1] = sock[f] /\ Past(m)' /\ m = msg'[f]
    BY <1>1, <2>1, <2>2 DEF Talk
  <2> QED
    BY <2>1, <2>3 DEF Past
<1>5. \A s : AllSpread(s) => AllSpread(s)'
  BY <1>2 DEF AllSpread
<1>6. AllSpread(<<>>)
  BY DEF AllSpread
<1>7. ASSUME NEW c \in Clients PROVE AllSpread(log[c])' /\ AllSpread(down[c])'
  <2>1. PICK l, s : l = log'[c] /\ s = down'[c]
    OBVIOUS
  <2>2. AllSpread(l)' /\ AllSpread(s)'
    BY <1>5, <1>6, <2>1 DEF Talk
  <2> QED
    BY <2>1, <2>2 DEF AllSpread
<1>8. \A c \in Clients : Outside(c)' => log'[c] = <<>> /\ down'[c] = <<>>
  BY DEF Talk
<1> QED
  BY <1>3, <1>4, <1>7, <1>8 DEF Talk

LEMMA MainTalk ==
    ASSUME Table, Talk, Accept \/ Register \/ Spawn \/ Undo
    PROVE  Talk'
<1>1. /\ UNCHANGED <<phase, said, up, down, log, msg>>
      /\ sock \in [Fds -> Clients \cup {NoClient}]
      /\ pc \in [Fds -> {"none", "read", "lock", "send", "remove", "close"}]
  BY DEF Table, TypeOK, Accept, Register, Spawn, Undo, clientVars, threadVars
<1>2. \A f \in Fds : pc'[f] = pc[f] \/ pc'[f] = "read"
  BY <1>1 DEF Accept, Register, Spawn, Undo, threadVars
<1>3. \A f \in Fds : sock'[f] # sock[f] => pc[f] = "none"
  <2>1. CASE Accept
    BY <1>1, <2>1 DEF Accept, Table, Listed, Open
  <2>2. CASE Register \/ Spawn
    <3>1. new \in Fds /\ pc[new] = "none"
      BY <2>2 DEF Register, Spawn, Table, TypeOK, InHand
    <3> QED
      BY <1>1, <2>2, <3>1 DEF Register, Spawn
  <2>3. CASE Undo
    BY <2>3 DEF Undo
  <2> QED
    BY <2>1, <2>2, <2>3
<1>4. ASSUME NEW c \in Clients, Outside(c)' PROVE Outside(c)
  <2>1. CASE Accept
    <3>1. backlog \in Seq(Clients) /\ backlog # <<>> /\ backlog' = Tail(backlog)
      BY <2>1 DEF Accept, Table, TypeOK
    <3>2. /\ \A a \in 1 .. Len(backlog') : /\ a + 1 \in 1 .. Len(backlog)
                                           /\ backlog'[a] = backlog[a + 1]
          /\ Head(backlog) = backlog[1] /\ 1 \in 1 .. Len(backlog)
      BY <3>1, Taken
    <3>3. sock'[new'] = Head(backlog)
      BY <1>1, <2>1 DEF Accept
    <3> QED
      BY <1>1, <1>4, <3>2, <3>3 DEF Outside
  <2>2. CASE Register \/ Spawn \/ Undo
    BY <1>1, <1>4, <2>2 DEF Outside, Register, Spawn, Undo, clientVars
  <2> QED
    BY <2>1, <2>2
<1> QED
  BY <1>1, <1>2, <1>3, <1>4, TalkKept

LEMMA ThreadTalk ==
    ASSUME Table, Talk, NEW f \in Fds,
           Lock(f) \/ Unlock(f) \/ EndOfFile(f) \/ Unregister(f) \/ Close(f)
    PROVE  Talk'
<1>1. /\ UNCHANGED <<phase, said, up, down, log, backlog, main, new>>
      /\ sock \in [Fds -> Clients \cup {NoClient}]
      /\ pc \in [Fds -> {"none", "read", "lock", "send", "remove", "close"}]
      /\ msg \in [Fds -> Messages \cup {NoMessage}]
  BY DEF Table, TypeOK, Lock, Unlock, EndOfFile, Unregister, Close, clientVars
<1>2. /\ \A g \in Fds \ {f} : /\ pc'[g] = pc[g] /\ msg'[g] = msg[g]
                              /\ sock'[g] = sock[g]
      /\ pc'[f] # "lock"
      /\ pc'[f] = "send" =>
            pc[f] = "lock" /\ msg'[f] = msg[f] /\ sock'[f] = sock[f]
  BY <1>1 DEF Lock, Unlock, EndOfFile, Unregister, Close, At
<1>3. ASSUME NEW c \in Clients, Outside(c)' PROVE Outside(c)
  <2>1. main = "register" => new \in Fds \ {f}
    <3>1. pc[f] # "none"
      BY DEF Lock, Unlock, EndOfFile, Unregister, Close, At
    <3> QED
      BY <3>1 DEF Table, TypeOK, InHand
  <2> QED
    BY <1>1, <1>2, <1>3, <2>1 DEF Outside
<1> QED
  BY <1>1, <1>2, <1>3, TalkKept

LEMMA ConnectOrLeaveTalk ==
    ASSUME Table, Talk, NEW c \in Clients, Connect(c) \/ Leave(c)
    PROVE  Talk'
<1>1. /\ UNCHANGED <<said, up, log, serverVars>>
      /\ phase \in [Clients -> {"start", "in", "gone"}]
      /\ down \in [Clients -> Seq(Messages)] /\ backlog \in Seq(Clients)
  BY DEF Table, TypeOK, Connect, Leave
<1>2. \A d \in Clients : down'[d] = down[d] \/ down'[d] = <<>>
  BY <1>1 DEF Connect, Leave
<1>3. ASSUME NEW d \in Clients, Outside(d)' PROVE Outside(d)
  <2>1. CASE Connect(c)
    <3>1. /\ Len(backlog) \in Nat /\ Len(backlog') = Len(backlog) + 1
          /\ \A a \in 1 .. Len(backlog) : backlog'[a] = backlog[a]
          /\ backlog'[Len(backlog) + 1] = c
      BY <1>1, <2>1, Added DEF Connect
    <3>2. \A a \in 1 .. Len(backlog') :
                backlog'[a] = c \/ \E b \in 1 .. Len(backlog) : backlog'[a] = backlog[b]
      BY <3>1
    <3> QED
      BY <1>1, <1>3, <2>1, <3>2 DEF Connect, Outside, serverVars
  <2>2. CASE Leave(c)
    BY <1>1, <1>3, <2>2 DEF Leave, Outside, serverVars
  <2> QED
    BY <2>1, <2>2
<1> QED
  BY <1>1, <1>2, <1>3, TalkKept DEF serverVars, threadVars

(* A thread reads: the message is newer than all its author has had read.  *)
LEMMA ReadTalk ==
    ASSUME Table, Talk, NEW f \in Fds, Read(f)
    PROVE  Talk'
<1>1. PICK c \in Clients : c = sock[f]
  BY DEF Read, At, Table, TypeOK, Listed, Open
<1>2. /\ up \in [Clients -> Seq(Messages)] /\ up[c] # <<>>
      /\ pc \in [Fds -> {"none", "read", "lock", "send", "remove", "close"}]
      /\ msg \in [Fds -> Messages \cup {NoMessage}]
      /\ UNCHANGED <<phase, said, down, log, backlog, sock, main, new>>
      /\ pc' = [pc EXCEPT ![f] = "lock"]
      /\ log \in [Clients -> Seq(Messages)] /\ down \in [Clients -> Seq(Messages)]
  BY <1>1 DEF Read, At, Table, TypeOK
<1>3. PICK m \in Messages : m = Head(up[c])
  BY <1>2, Taken
<1>4. /\ m = up[c][1]
      /\ Len(up[c]) \in Nat /\ 1 \in 1 .. Len(up[c])
      /\ Len(up'[c]) = Len(up[c]) - 1
      /\ \A k \in 1 .. Len(up'[c]) : /\ k + 1 \in 1 .. Len(up[c])
                                     /\ up'[c][k] = up[c][k + 1]
      /\ \A d \in Clients \ {c} : up'[d] = up[d]
  <2>1. up' = [up EXCEPT ![c] = Tail(@)] /\ up[c] \in Seq(Messages)
    BY <1>1, <1>2 DEF Read
  <2> QED
    BY <1>2, <1>3, <2>1, Taken
<1>5. /\ msg'[f] = m /\ \A g \in Fds \ {f} : msg'[g] = msg[g] /\ pc'[g] = pc[g]
      /\ pc'[f] = "lock"
  BY <1>1, <1>2, <1>3 DEF Read
<1>6. m[1] = c /\ m # NoMessage /\ m[2] <= said[c]
      /\ \A k \in 1 .. Len(up'[c]) : m[2] < up'[c][k][2]
  BY <1>4, MessagesSaySomething DEF Talk, Unread
<1>7. ASSUME NEW x \in Messages, Past(x) PROVE Past(x)'
  <2>1. x[2] <= said'[x[1]] /\ x[1] \in Clients
    BY <1>2, <1>7, MessageParts DEF Past
  <2>2. ASSUME NEW k \in 1 .. Len(up'[x[1]]) PROVE x[2] < up'[x[1]][k][2]
    <3>1. CASE x[1] = c
      BY <1>4, <1>7, <2>2, <3>1 DEF Past
    <3>2. CASE x[1] # c
      BY <1>4, <1>7, <2>1, <2>2, <3>2 DEF Past
    <3> QED
      BY <3>1, <3>2
  <2> QED
    BY <2>1, <2>2 DEF Past
<1>8. Past(m)'
  BY <1>2, <1>6 DEF Past
<1>9. ASSUME NEW x \in Messages, Spread(x) PROVE Spread(x)'
  <2>1. x # m
    BY <1>4, <1>6, <1>9, MessageParts DEF Spread, Past
  <2>2. \A g \in Fds : pc'[g] = "lock" => x # msg'[g]
    BY <1>5, <1>9, <2>1 DEF Spread
  <2> QED
    BY <1>7, <1>9, <2>2 DEF Spread
<1>10. ASSUME NEW d \in Clients PROVE Unread(d)'
  <2>1. CASE d = c
    <3>1. Unread(c)
      BY DEF Talk
    <3>2. ASSUME NEW k \in 1 .. Len(up'[c])
          PROVE  /\ up'[c][k][1] = c
                 /\ up'[c][k][2] <= said[c]
                 /\ \A l \in k + 1 .. Len(up'[c]) :
                        up'[c][k][2] < up'[c][l][2]
      <4>1. k + 1 \in 1 .. Len(up[c]) /\ up'[c][k] = up[c][k + 1]
        BY <1>4, <3>2
      <4>2. /\ up[c][k + 1][1] = c /\ up[c][k + 1][2] <= said[c]
            /\ \A l \in (k + 1) + 1 .. Len(up[c]) : up[c][k + 1][2] < up[c][l][2]
        BY <3>1, <4>1 DEF Unread
      <4>3. ASSUME NEW l \in k + 1 .. Len(up'[c])
            PROVE  up'[c][k][2] < up'[c][l][2]
        <5>1. /\ l + 1 \in (k + 1) + 1 .. Len(up[c]) /\ up'[c][l] = up[c][l + 1]
          BY <1>4, <3>2, <4>3
        <5> QED
          BY <4>1, <4>2, <5>1
      <4> QED
        BY <4>1, <4>2, <4>3
    <3>3. said' = said
      BY <1>2
    <3> QED
      BY <2>1, <3>2, <3>3 DEF Unread
  <2>2. CASE d # c
    <3>1. Unread(d) /\ up'[d] = up[d] /\ said' = said
      BY <1>2, <1>4, <2>2 DEF Talk
    <3> QED
      BY <3>1 DEF Unread
  <2> QED
    BY <2>1, <2>2
<1>11. ASSUME NEW g \in Fds, pc'[g] \in {"lock", "send"}
       PROVE  /\ msg'[g] # NoMessage /\ msg'[g][1] = sock[g]
              /\ Past(msg[g])'
  <2>1. PICK x : x = msg'[g]
    OBVIOUS
  <2>2. x # NoMessage /\ x[1] = sock[g] /\ Past(x)'
    <3>1. CASE g = f
      BY <1>1, <1>5, <1>6, <1>8, <2>1, <3>1
    <3>2. CASE g # f
      BY <1>2, <1>5, <1>7, <1>11, <2>1, <3>2 DEF Talk
    <3> QED
      BY <3>1, <3>2
  <2> QED
    BY <2>1, <2>2 DEF Past
<1>12. ASSUME NEW d \in Clients PROVE AllSpread(log[d])' /\ AllSpread(down[d])'
  <2>1. PICK l \in Seq(Messages), s \in Seq(Messages) : l = log[d] /\ s = down[d]
    BY <1>2
  <2>2. AllSpread(l)' /\ AllSpread(s)'
    BY <1>9, <2>1, ElementOfSeq DEF Talk, AllSpread
  <2> QED
    BY <1>2, <2>1, <2>2 DEF AllSpread
<1>13. \A d \in Clients : Outside(d)' => log'[d] = <<>> /\ down'[d] = <<>>
  BY <1>2 DEF Talk, Outside
<1> QED
  BY <1>2, <1>10, <1>11, <1>12, <1>13 DEF Talk

LEMMA SpreadQueues ==
    ASSUME NEW s \in Seq(Messages), AllSpread(s), NEW m \in Messages, Spread(m)
    PROVE  AllSpread(Append(s, m))
<1>1. PICK t : t = Append(s, m)
  OBVIOUS
<1>2. /\ Len(s) \in Nat /\ Len(t) = Len(s) + 1
      /\ \A k \in 1 .. Len(s) : t[k] = s[k]
      /\ t[Len(s) + 1] = m
  BY <1>1, Added
<1>3. \A k \in 1 .. Len(t) : Spread(t[k])
  BY <1>2 DEF AllSpread
<1> QED
  BY <1>1, <1>3 DEF AllSpread

LEMMA SpreadHead ==
    ASSUME NEW s \in Seq(Messages), AllSpread(s), s # <<>>
    PROVE  AllSpread(Tail(s)) /\ Spread(Head(s))
<1>1. PICK t : t = Tail(s)
  OBVIOUS
<1>2. /\ Len(s) \in Nat /\ 1 \in 1 .. Len(s) /\ Head(s) = s[1]
      /\ \A k \in 1 .. Len(t) : k + 1 \in 1 .. Len(s) /\ t[k] = s[k + 1]
  BY <1>1, Taken
<1>3. \A k \in 1 .. Len(t) : Spread(t[k])
  BY <1>2 DEF AllSpread
<1> QED
  BY <1>1, <1>2, <1>3 DEF AllSpread

LEMMA WriteTalk ==
    ASSUME Table, Talk, NEW f \in Fds, Write(f)
    PROVE  Talk'
<1>1. /\ UNCHANGED <<phase, said, up, log, backlog, sock, main, new, pc, msg>>
      /\ pc[f] = "send" /\ mutex = f
      /\ down \in [Clients -> Seq(Messages)]
      /\ msg[f] \in Messages /\ Past(msg[f]) /\ msg[f][1] = sock[f]
  BY NextSocket DEF Write, Table, TypeOK, Talk
<1>2. CASE down' = down
  BY <1>1, <1>2, TalkKept DEF Outside
<1>3. ASSUME NEW d, d = sock[client_socks[next[f]]], d # NoClient,
             down' = [down EXCEPT ![d] = Append(@, msg[f])]
      PROVE  Talk'
  <2>1. /\ d \in Clients /\ next[f] \in 1 .. Count
        /\ client_socks[next[f]] \in Fds
    BY <1>3, NextSocket
  <2>2. ~Outside(d)
    <3>1. phase[d] # "start" /\ \A a \in 1 .. Len(backlog) : backlog[a] # d
      BY <1>3, <2>1 DEF Table, Connections, Open
    <3>2. main = "register" => sock[new] # d
      BY <1>3, <2>1, ChatAssumption
      DEF Table, TypeOK, Connections, InHand, Open, InTable
    <3> QED
      BY <3>1, <3>2 DEF Outside
  <2>3. Spread(msg[f])
    <3>1. ASSUME NEW g \in Fds, pc[g] = "lock" PROVE msg[g] # msg[f]
      <4>1. g # f /\ msg[g][1] = sock[g] /\ Open(f) /\ Open(g)
        BY <1>1, <3>1 DEF Table, Talk, Listed
      <4>2. sock[g] # sock[f]
        BY <4>1 DEF Table, Connections
      <4> QED
        BY <1>1, <4>1, <4>2
    <3> QED
      BY <1>1, <3>1 DEF Spread
  <2>4. AllSpread(Append(down[d], msg[f]))
    BY <1>1, <2>1, <2>3, SpreadQueues DEF Talk
  <2>5. \A s : AllSpread(s)' <=> AllSpread(s)
    BY <1>1 DEF AllSpread, Spread, Past
  <2>6. PICK t : t = Append(down[d], msg[f])
    OBVIOUS
  <2>7. /\ down'[d] = t /\ AllSpread(t)'
        /\ \A c \in Clients \ {d} : down'[c] = down[c]
    BY <1>1, <1>3, <2>1, <2>4, <2>5, <2>6
  <2>8. ASSUME NEW c \in Clients
        PROVE  AllSpread(log[c])' /\ AllSpread(down[c])'
    <3>1. PICK l, s : l = log'[c] /\ s = down'[c]
      OBVIOUS
    <3>2. AllSpread(l)' /\ AllSpread(s)'
      BY <1>1, <2>5, <2>7, <3>1 DEF Talk
    <3> QED
      BY <3>1, <3>2 DEF AllSpread
  <2>9. \A g \in Fds : pc'[g] \in {"lock", "send"} =>
            /\ msg'[g] # NoMessage
            /\ msg'[g][1] = sock'[g] /\ Past(msg[g])'
    BY <1>1 DEF Talk, Past
  <2>10. \A c \in Clients : Unread(c)'
    BY <1>1 DEF Talk, Unread
  <2>11. \A c \in Clients : Outside(c)' => log'[c] = <<>> /\ down'[c] = <<>>
    BY <1>1, <2>2, <2>7 DEF Talk, Outside
  <2> QED
    BY <2>8, <2>9, <2>10, <2>11 DEF Talk
<1> QED
  BY <1>2, <1>3 DEF Write

LEMMA SayTalk ==
    ASSUME Table, Talk, NEW c \in Clients, Say(c)
    PROVE  Talk'
<1>1. /\ said \in [Clients -> 0 .. MaxSay]
      /\ up \in [Clients -> Seq(Messages)]
      /\ log \in [Clients -> Seq(Messages)] /\ down \in [Clients -> Seq(Messages)]
      /\ msg \in [Fds -> Messages \cup {NoMessage}]
      /\ phase[c] = "in" /\ said[c] < MaxSay
      /\ UNCHANGED <<phase, down, log, backlog, sock, main, new, pc, msg>>
      /\ MaxSay \in Nat
  BY ChatAssumption DEF Say, Table, TypeOK, serverVars, threadVars
<1>2. PICK h \in Nat, n \in Nat : h = said[c] /\ n = h + 1 /\ n \in 1 .. MaxSay
  BY <1>1
<1>3. PICK e \in Messages : e = <<c, n>> /\ e[1] = c /\ e[2] = n
  <2>1. <<c, n>> \in Messages
    BY <1>2 DEF Messages
  <2> QED
    BY <2>1
<1>4. /\ up' = [up EXCEPT ![c] = Append(@, e)]
      /\ said'[c] = n /\ \A d \in Clients \ {c} : said'[d] = said[d]
  BY <1>1, <1>2, <1>3 DEF Say
<1>5. /\ \A d \in Clients \ {c} : up'[d] = up[d]
      /\ Len(up[c]) \in Nat /\ Len(up'[c]) = Len(up[c]) + 1
      /\ \A k \in 1 .. Len(up[c]) : up'[c][k] = up[c][k]
      /\ up'[c][Len(up[c]) + 1] = e
  <2>1. up[c] \in Seq(Messages)
    BY <1>1
  <2> QED
    BY <1>1, <1>4, <2>1, Added
<1>6. ASSUME NEW m \in Messages, Past(m) PROVE Past(m)'
  <2>1. CASE m[1] = c
    <3>1. /\ m[2] \in Nat /\ m[2] <= h
          /\ \A k \in 1 .. Len(up[c]) : m[2] < up[c][k][2]
      BY <1>2, <1>6, <2>1, MessageParts DEF Past
    <3>2. m[2] < n /\ m[2] <= n
      BY <1>2, <3>1
    <3>3. ASSUME NEW k \in 1 .. Len(up'[c]) PROVE m[2] < up'[c][k][2]
      <4>1. CASE k = Len(up[c]) + 1
        BY <1>3, <1>5, <3>2, <4>1
      <4>2. CASE k \in 1 .. Len(up[c])
        BY <1>5, <3>1, <4>2
      <4> QED
        BY <1>5, <3>3, <4>1, <4>2
    <3> QED
      BY <1>4, <2>1, <3>2, <3>3 DEF Past
  <2>2. CASE m[1] # c
    BY <1>4, <1>5, <1>6, <2>2, MessageParts DEF Past
  <2> QED
    BY <2>1, <2>2
<1>7. \A m \in Messages : Spread(m) => Spread(m)'
  BY <1>1, <1>6 DEF Spread
<1>8. Unread(c)'
  <2>1. ASSUME NEW k \in 1 .. Len(up'[c])
        PROVE  /\ up'[c][k][1] = c /\ up'[c][k][2] <= n
               /\ \A l \in k + 1 .. Len(up'[c]) : up'[c][k][2] < up'[c][l][2]
    <3>1. CASE k = Len(up[c]) + 1
      BY <1>2, <1>3, <1>5, <3>1
    <3>2. CASE k \in 1 .. Len(up[c])
      <4>1. up[c][k] \in Messages
        BY <1>1, <3>2, ElementOfSeq
      <4>2. /\ up[c][k][1] = c /\ up[c][k][2] <= h /\ up[c][k][2] \in Nat
            /\ \A l \in k + 1 .. Len(up[c]) : up[c][k][2] < up[c][l][2]
        BY <1>2, <3>2, <4>1, MessageParts DEF Talk, Unread
      <4>3. up[c][k][2] < n /\ up[c][k][2] <= n
        BY <1>2, <4>2
      <4>4. ASSUME NEW l \in k + 1 .. Len(up'[c])
            PROVE  up'[c][k][2] < up'[c][l][2]
        <5>1. CASE l = Len(up[c]) + 1
          BY <1>3, <1>5, <3>2, <4>3, <5>1
        <5>2. CASE l \in k + 1 .. Len(up[c])
          <6>1. l \in 1 .. Len(up[c])
            BY <1>5, <3>2, <5>2
          <6> QED
            BY <1>5, <3>2, <4>2, <5>2, <6>1
        <5> QED
          BY <1>5, <3>2, <4>4, <5>1, <5>2
      <4> QED
        BY <1>5, <3>2, <4>2, <4>3, <4>4
    <3> QED
      BY <1>5, <3>1, <3>2
  <2> QED
    BY <1>4, <2>1 DEF Unread
<1>9. \A d \in Clients \ {c} : Unread(d)'
  BY <1>4, <1>5 DEF Talk, Unread
<1>10. ASSUME NEW d \in Clients PROVE AllSpread(log[d])' /\ AllSpread(down[d])'
  <2>1. PICK l \in Seq(Messages), s \in Seq(Messages) : l = log[d] /\ s = down[d]
    BY <1>1
  <2>2. AllSpread(l)' /\ AllSpread(s)'
    BY <1>7, <2>1, ElementOfSeq DEF Talk, AllSpread
  <2> QED
    BY <1>1, <2>1, <2>2 DEF AllSpread
<1>11. ASSUME NEW f \in Fds, pc'[f] \in {"lock", "send"}
       PROVE  /\ msg'[f] # NoMessage /\ msg'[f][1] = sock'[f]
              /\ Past(msg[f])'
  <2>1. PICK m \in Messages : m = msg[f]
    BY <1>1, <1>11 DEF Talk
  <2>2. Past(m)'
    BY <1>1, <1>6, <1>11, <2>1 DEF Talk
  <2> QED
    BY <1>1, <1>11, <2>1, <2>2 DEF Talk, Past
<1>12. \A d \in Clients : Outside(d)' => log'[d] = <<>> /\ down'[d] = <<>>
  BY <1>1 DEF Talk, Outside
<1> QED
  BY <1>8, <1>9, <1>10, <1>11, <1>12 DEF Talk

LEMMA ReceiveTalk ==
    ASSUME Table, Talk, NEW c \in Clients, Receive(c)
    PROVE  Talk'
<1>1. /\ log \in [Clients -> Seq(Messages)] /\ down \in [Clients -> Seq(Messages)]
      /\ down[c] # <<>>
      /\ log' = [log EXCEPT ![c] = Append(@, Head(down[c]))]
      /\ down' = [down EXCEPT ![c] = Tail(@)]
      /\ UNCHANGED <<phase, said, up, backlog, sock, main, new, pc, msg>>
  BY DEF Receive, Table, TypeOK, serverVars, threadVars
<1>2. \A s : AllSpread(s)' <=> AllSpread(s)
  BY <1>1 DEF AllSpread, Spread, Past
<1>3. PICK l, s, m : l = Append(log[c], m) /\ s = Tail(down[c]) /\ m = Head(down[c])
  OBVIOUS
<1>4. AllSpread(l) /\ AllSpread(s)
  BY <1>1, <1>3, SpreadHead, SpreadQueues, Taken DEF Talk
<1>5. ASSUME NEW d \in Clients PROVE AllSpread(log[d])' /\ AllSpread(down[d])'
  <2>1. PICK a, b : a = log'[d] /\ b = down'[d]
    OBVIOUS
  <2>2. AllSpread(a) /\ AllSpread(b)
    BY <1>1, <1>3, <1>4, <2>1 DEF Talk
  <2>3. AllSpread(a)' /\ AllSpread(b)'
    BY <1>2, <2>2
  <2> QED
    BY <2>1, <2>3 DEF AllSpread
<1>6. \A d \in Clients : Unread(d)'
  BY <1>1 DEF Talk, Unread
<1>7. \A f \in Fds : pc'[f] \in {"lock", "send"} =>
            /\ msg'[f] # NoMessage
            /\ msg'[f][1] = sock'[f] /\ Past(msg[f])'
  BY <1>1 DEF Talk, Past
<1>8. \A d \in Clients : Outside(d)' => log'[d] = <<>> /\ down'[d] = <<>>
  BY <1>1 DEF Talk, Outside
<1> QED
  BY <1>5, <1>6, <1>7, <1>8 DEF Talk

-----------------------------------------------------------------------------
LEMMA NextIInv == IInv /\ [Next]_vars => IInv'
<1> SUFFICES ASSUME IInv, [Next]_vars PROVE IInv'
  OBVIOUS
<1> USE DEF IInv
<1>1. CASE Main
  BY <1>1, AcceptTable, RegisterTable, SpawnTable, UndoTable, MainTalk DEF Main
<1>2. ASSUME NEW f \in Fds, Thread(f) PROVE IInv'
  <2>1. CASE Read(f)
    BY <2>1, ThreadsTable, ReadTalk
  <2>2. CASE Write(f)
    <3>1. msg[f] # NoMessage
      BY <2>2 DEF Talk, Write
    <3> QED
      BY <2>2, <3>1, WriteTable, WriteTalk
  <2>3. CASE Lock(f) \/ Unlock(f) \/ EndOfFile(f) \/ Unregister(f) \/ Close(f)
    BY <2>3, ThreadsTable, UnregisterTable, CloseTable, ThreadTalk
  <2> QED
    BY <1>2, <2>1, <2>2, <2>3 DEF Thread
<1>3. ASSUME NEW c \in Clients, Connect(c) \/ Say(c) \/ Receive(c) \/ Leave(c)
      PROVE  IInv'
  BY <1>3, ConnectTable, ClientTable, ConnectOrLeaveTalk, SayTalk, ReceiveTalk
<1>4. CASE UNCHANGED vars
  <2> USE <1>4 DEF vars, clientVars, serverVars, threadVars
  <2>1. TypeOK'
    BY DEF Table, TypeOK
  <2>2. Listed' /\ InHand' /\ Locked' /\ Connections'
    BY DEF Table, Listed, InHand, Locked, Connections, Open, InTable, Count
  <2>3. Talk'
    BY TalkKept DEF Outside
  <2> QED
    BY <2>1, <2>2, <2>3 DEF Table
<1> QED
  BY <1>1, <1>2, <1>3, <1>4 DEF Next

(* The inductive invariant holds throughout.                               *)
THEOREM Invariance == SafeSpec => []IInv
<1>1. Init => IInv
  BY InitTable, InitTalk DEF IInv
<1> QED
  BY <1>1, NextIInv, PTL DEF SafeSpec

(* Type correctness; among others, client_count never exceeds MAX_CLIENT,  *)
(* whichever threads register and unregister in between.                   *)
THEOREM TypeCorrect == SafeSpec => []TypeOK
<1> QED
  BY Invariance, PTL DEF IInv, Table

(* server.c:13: under its mutex the table holds every connection that has  *)
(* a thread once and in no case a closed one, but for the one that main()  *)
(* is about to take out, which is the last when client_count-- removes it. *)
THEOREM TableSound == SafeSpec => []TableConsistent
<1>1. IInv => TableConsistent
  <2> SUFFICES ASSUME IInv PROVE TableConsistent
    OBVIOUS
  <2>1. Count \in Nat
    BY LenProperties DEF IInv, Table, TypeOK, Count
  <2>2. ASSUME NEW k \in 1 .. Count, sock[client_socks[k]] = NoClient
        PROVE  main = "undo" /\ k = Count /\ client_socks[k] = new
    <3>1. main = "undo" /\ client_socks[k] = new
      BY <2>2 DEF IInv, Table, Listed, Open
    <3>2. Count \in 1 .. Count /\ client_socks[Count] = new
      BY <2>1, <3>1 DEF IInv, Table, InHand
    <3> QED
      BY <3>1, <3>2 DEF IInv, Table, Listed
  <2> QED
    BY <2>2 DEF IInv, Table, Listed, InHand, Open, InTable, TableConsistent
<1> QED
  BY <1>1, Invariance, PTL

-----------------------------------------------------------------------------
(* The refinement of ChatRoom.                                             *)

Heard(c) == log[c] \o down[c] \o Pending(c)

View == [c \in Members |-> Heard(c)]

Stays == Members' = Members /\ \A c \in Members : Heard(c)' = Heard(c)

LEMMA Stutters == Stays => View' = View
BY DEF Stays, View

(* The client of entry k of the table, and what is owed in a broadcast.    *)
Peer(k) == sock[client_socks[k]]

Owed(c) == mutex # NoFd /\ \E k \in next[mutex] .. Count : Peer(k) = c

LEMMA OwedIsPending ==
    \A c : Pending(c) = IF Owed(c) THEN <<msg[mutex]>> ELSE <<>>
BY DEF Pending, Owed, Peer

LEMMA EntriesAreFds ==
    ASSUME TypeOK
    PROVE  Count \in Nat /\ \A k \in 1 .. Count : client_socks[k] \in Fds
<1>1. client_socks \in Seq(Fds)
  BY DEF TypeOK
<1> QED
  BY <1>1, ElementOfSeq, LenProperties DEF Count

(* Members are on one entry.                                               *)
LEMMA OneEntry ==
    ASSUME Table, NEW j \in 1 .. Count, NEW k \in 1 .. Count,
           Peer(j) = Peer(k), Peer(j) # NoClient
    PROVE  j = k
<1>1. client_socks[j] \in Fds /\ client_socks[k] \in Fds
  BY EntriesAreFds DEF Table
<1>2. client_socks[j] = client_socks[k]
  BY <1>1 DEF Table, Connections, Open, Peer
<1> QED
  BY <1>2 DEF Table, Listed

(* Nothing happens to the sockets in the table, or to the broadcast.       *)
LEMMA TableStays ==
    ASSUME Table,
           UNCHANGED <<phase, log, down, client_socks, mutex>>,
           mutex # NoFd => next'[mutex] = next[mutex] /\ msg'[mutex] = msg[mutex],
           \A k \in 1 .. Count : Peer(k)' = Peer(k)
    PROVE  Stays
<1>1. Count' = Count /\ Count \in Nat
  BY EntriesAreFds DEF Count, Table
<1>2. Members' = Members
  BY <1>1 DEF Members, Peer
<1>3. \A c : Owed(c)' <=> Owed(c)
  <2>1. CASE mutex = NoFd
    BY <2>1 DEF Owed
  <2>2. CASE mutex # NoFd
    <3>1. next[mutex] \in Nat /\ next[mutex] > 0
      BY <2>2 DEF Table, TypeOK, Locked
    <3>2. \A k \in next[mutex] .. Count : k \in 1 .. Count
      BY <1>1, <3>1
    <3> QED
      BY <1>1, <2>2, <3>2 DEF Owed
  <2> QED
    BY <2>1, <2>2
<1>4. \A c : Pending(c)' = Pending(c)
  <2>1. \A c : Pending(c)' = IF Owed(c)' THEN <<msg'[mutex']>> ELSE <<>>
    BY DEF Pending, Owed, Peer
  <2> QED
    BY <1>3, <2>1, OwedIsPending DEF Owed
<1> QED
  BY <1>2, <1>4 DEF Stays, Heard

(* c is out, and nothing happens to the others.                            *)
LEMMA Leaves ==
    ASSUME NEW c \in Clients, c \notin Members', log' = log,
           \A d \in Clients \ {c} :
                /\ d \in Members' <=> d \in Members
                /\ down'[d] = down[d] /\ Pending(d)' = Pending(d)
    PROVE  Stays \/ Chat!Exit(c)
<1>1. /\ Members' = Members \ {c}
      /\ \A d \in Members' : d \in Clients \ {c}
  BY DEF Members
<1>2. \A d \in Members \ {c} : Heard(d)' = Heard(d)
  BY <1>1 DEF Heard
<1>3. CASE c \notin Members
  BY <1>1, <1>2, <1>3 DEF Stays
<1>4. CASE c \in Members
  <2>1. View' = [d \in Members \ {c} |-> View[d]]
    BY <1>1, <1>2 DEF View
  <2> QED
    BY <1>4, <2>1 DEF Chat!Exit, Chat!Members, View, Heard
<1> QED
  BY <1>3, <1>4

(* main() has accepted, or accepts no more, or has a thread.               *)
LEMMA MainStays ==
    ASSUME Table,
           \/ Accept
           \/ Register /\ main' = "accept"
           \/ Spawn /\ main' = "accept"
    PROVE  Stays
<1>1. UNCHANGED <<phase, log, down, client_socks, mutex, next, msg>>
  BY DEF Accept, Register, Spawn, clientVars, threadVars
<1>2. \A g \in Fds : InTable(g) => sock'[g] = sock[g]
  <2>1. sock \in [Fds -> Clients \cup {NoClient}]
    BY DEF Table, TypeOK
  <2>2. CASE Accept
    <3>1. PICK f \in Fds :
            sock[f] = NoClient /\ sock' = [sock EXCEPT ![f] = Head(backlog)]
      BY <2>2 DEF Accept
    <3>2. ~InTable(f)
      <4>1. \A k \in 1 .. Count : Open(client_socks[k])
        BY <2>2 DEF Accept, Table, Listed
      <4> QED
        BY <3>1, <4>1 DEF InTable, Open
    <3> QED
      BY <2>1, <3>1, <3>2
  <2>3. CASE Register
    BY <2>1, <2>3 DEF Register, Table, InHand
  <2>4. CASE Spawn /\ main' = "accept"
    BY <2>4 DEF Spawn
  <2> QED
    BY <2>2, <2>3, <2>4
<1>3. \A k \in 1 .. Count : Peer(k)' = Peer(k)
  BY <1>1, <1>2, EntriesAreFds DEF Peer, InTable, Table
<1> QED
  BY <1>1, <1>3, TableStays

LEMMA ThreadStays ==
    ASSUME Table, NEW f \in Fds, Read(f) \/ EndOfFile(f) \/ Close(f)
    PROVE  Stays
<1>1. UNCHANGED <<phase, log, down, client_socks, mutex, next>>
  BY DEF Read, EndOfFile, Close, clientVars
<1>2. mutex # NoFd => msg'[mutex] = msg[mutex]
  <2>1. mutex # NoFd => mutex # f
    BY DEF Read, EndOfFile, Close, At, Table, Locked
  <2>2. msg \in [Fds -> Messages \cup {NoMessage}]
    BY DEF Table, TypeOK
  <2> QED
    BY <2>1, <2>2 DEF Read, EndOfFile, Close, Table, TypeOK
<1>3. \A g \in Fds : InTable(g) => sock'[g] = sock[g]
  <2>1. sock \in [Fds -> Clients \cup {NoClient}]
    BY DEF Table, TypeOK
  <2>2. CASE Close(f)
    BY <2>1, <2>2 DEF Close, At, Table, Listed
  <2>3. CASE Read(f) \/ EndOfFile(f)
    BY <2>3 DEF Read, EndOfFile
  <2> QED
    BY <2>2, <2>3
<1>4. \A k \in 1 .. Count : Peer(k)' = Peer(k)
  BY <1>1, <1>3, EntriesAreFds DEF Peer, InTable, Table
<1> QED
  BY <1>1, <1>2, <1>4, TableStays

(* Steps that need the mutex free: no broadcast is under way.              *)
LEMMA NoBroadcast ==
    /\ mutex = NoFd => \A c : Pending(c) = <<>>
    /\ mutex' = NoFd => \A c : Pending(c)' = <<>>
BY DEF Pending

LEMMA RegisterEnters ==
    ASSUME Table, Talk, Register
    PROVE  Stays \/ \E c \in Clients : Chat!Enter(c)
<1>1. CASE main' = "accept"
  BY <1>1, MainStays
<1>2. CASE main' # "accept"
  <2>1. /\ main = "register" /\ mutex = NoFd /\ mutex' = NoFd
        /\ client_socks' = Append(client_socks, new)
        /\ UNCHANGED <<phase, log, down, sock>>
        /\ new \in Fds /\ Open(new) /\ ~InTable(new)
        /\ client_socks \in Seq(Fds)
        /\ sock \in [Fds -> Clients \cup {NoClient}]
    BY <1>2 DEF Register, Table, TypeOK, InHand, clientVars
  <2>0. PICK n \in Nat : n = Count
    BY EntriesAreFds DEF Table
  <2>2. /\ Count' = n + 1
        /\ \A k \in 1 .. n : Peer(k)' = Peer(k)
        /\ Peer(n + 1)' = sock[new]
    <3>1. /\ Len(client_socks') = n + 1
          /\ \A k \in 1 .. n : client_socks'[k] = client_socks[k]
          /\ client_socks'[n + 1] = new
      BY <2>0, <2>1, Added DEF Count
    <3> QED
      BY <2>1, <3>1 DEF Count, Peer
  <2>3. PICK c \in Clients : c = sock[new] /\ c # NoClient
    BY <2>1, ChatAssumption DEF Open
  <2>4. \A k \in 1 .. Count : Peer(k) # c
    <3>1. ASSUME NEW k \in 1 .. Count, Peer(k) = c PROVE FALSE
      <4>1. client_socks[k] \in Fds
        BY EntriesAreFds DEF Table
      <4>2. client_socks[k] = new
        BY <2>1, <2>3, <3>1, <4>1 DEF Table, Connections, Open, Peer
      <4> QED
        BY <2>1, <4>2 DEF InTable
    <3> QED
      BY <3>1
  <2>5. \A d : (\E k \in 1 .. Count' : Peer(k)' = d) <=>
                  d = c \/ \E k \in 1 .. Count : Peer(k) = d
    <3>1. \A k : k \in 1 .. n + 1 <=> k \in 1 .. n \/ k = n + 1
      OBVIOUS
    <3> QED
      BY <2>0, <2>2, <2>3, <3>1
  <2>6. \A d : Heard(d)' = Heard(d)
    <3>1. \A d : Pending(d) = <<>> /\ Pending(d)' = <<>>
      BY <2>1, NoBroadcast
    <3> QED
      BY <2>1, <3>1 DEF Heard
  <2>7. CASE phase[c] = "in"
    <3>1. Members' = Members \cup {c} /\ c \notin Members
      BY <2>1, <2>4, <2>5, <2>7 DEF Members, Peer
    <3>2. Heard(c) = <<>>
      <4>1. log[c] = <<>> /\ down[c] = <<>> /\ Pending(c) = <<>>
        BY <2>1, <2>3, NoBroadcast DEF Talk, Outside
      <4>2. <<>> \o <<>> \o <<>> = <<>>
        <5>1. <<>> \in Seq(Messages)
          BY EmptySeq
        <5> QED
          BY <5>1, ConcatEmptySeq
      <4> QED
        BY <4>1, <4>2 DEF Heard
    <3>3. View' = [d \in Members \cup {c} |-> IF d = c THEN <<>> ELSE View[d]]
      BY <2>6, <3>1, <3>2 DEF View
    <3>4. DOMAIN View = Members
      BY DEF View
    <3> QED
      BY <3>1, <3>3, <3>4 DEF Chat!Enter, Chat!Members, View, Heard
  <2>8. CASE phase[c] # "in"
    <3>1. Members' = Members
      BY <2>1, <2>5, <2>8 DEF Members, Peer
    <3> QED
      BY <2>6, <3>1 DEF Stays
  <2> QED
    BY <2>7, <2>8
<1> QED
  BY <1>1, <1>2

(* No thread could be had: the connection is closed, its client is out.    *)
LEMMA SpawnExits ==
    ASSUME Table, Spawn
    PROVE  Stays \/ \E c \in Clients : Chat!Exit(c)
<1>1. CASE main' = "accept"
  BY <1>1, MainStays
<1>2. CASE main' # "accept"
  <2>1. /\ sock' = [sock EXCEPT ![new] = NoClient]
        /\ UNCHANGED <<phase, log, down, client_socks, mutex, msg, next>>
        /\ new \in Fds /\ Open(new)
        /\ sock \in [Fds -> Clients \cup {NoClient}]
    BY <1>2 DEF Spawn, Table, TypeOK, InHand, clientVars
  <2>2. PICK c \in Clients : c = sock[new] /\ c # NoClient
    BY <2>1, ChatAssumption DEF Open
  <2>3. \A k \in 1 .. Count : client_socks[k] \in Fds
    BY EntriesAreFds DEF Table
  <2>4. \A g \in Fds : /\ sock'[g] # c
                       /\ \A d \in Clients \ {c} : sock'[g] = d <=> sock[g] = d
    BY <2>1, <2>2, ChatAssumption DEF Table, Connections, Open
  <2>5. Count' = Count /\ Count \in Nat
    BY <2>1, EntriesAreFds DEF Count, Table
  <2>6. \A k \in 1 .. Count :
            /\ Peer(k)' # c
            /\ \A d \in Clients \ {c} : Peer(k)' = d <=> Peer(k) = d
    BY <2>1, <2>3, <2>4 DEF Peer
  <2>7. c \notin Members'
    BY <2>5, <2>6 DEF Members, Peer
  <2>8. ASSUME NEW d \in Clients \ {c}
        PROVE  (d \in Members' <=> d \in Members) /\ Pending(d)' = Pending(d)
    <3>1. d \in Members' <=> d \in Members
      BY <2>1, <2>5, <2>6 DEF Members, Peer
    <3>2. Owed(d)' <=> Owed(d)
      <4>1. CASE mutex # NoFd
        <5>1. next[mutex] \in Nat /\ next[mutex] > 0
          BY <4>1 DEF Table, TypeOK, Locked
        <5>2. \A k \in next[mutex] .. Count : k \in 1 .. Count
          BY <2>5, <5>1
        <5> QED
          BY <2>1, <2>5, <2>6, <5>2 DEF Owed
      <4>2. CASE mutex = NoFd
        BY <2>1, <4>2 DEF Owed
      <4> QED
        BY <4>1, <4>2
    <3>3. Pending(d)' = IF Owed(d)' THEN <<msg'[mutex']>> ELSE <<>>
      BY DEF Pending, Owed, Peer
    <3> QED
      BY <2>1, <3>1, <3>2, <3>3, OwedIsPending
  <2> QED
    BY <2>1, <2>7, <2>8, Leaves
<1> QED
  BY <1>1, <1>2

(* What goes from the table blindly is an entry that is closed already.    *)
LEMMA UndoStays ==
    ASSUME Table, Undo
    PROVE  Stays
<1>1. /\ mutex = NoFd /\ mutex' = NoFd
      /\ UNCHANGED <<phase, log, down, sock>>
      /\ Count > 0 /\ client_socks[Count] = new /\ ~Open(new)
      /\ client_socks' = SubSeq(client_socks, 1, Count - 1)
  BY DEF Undo, Table, InHand, clientVars
<1>2. PICK n \in Nat : n = Count - 1 /\ Count = n + 1 /\ n - 1 + 1 = n
  BY <1>1, EntriesAreFds DEF Table
<1>3. /\ Count' = n
      /\ \A k \in 1 .. n : client_socks'[k] = client_socks[k]
  <2>1. \A k \in 1 .. n : client_socks[k] \in Fds
    BY <1>2, EntriesAreFds DEF Table
  <2>2. /\ Len(SubSeq(client_socks, 1, n)) = IF 1 <= n THEN n - 1 + 1 ELSE 0
        /\ \A k \in 1 .. n - 1 + 1 :
             SubSeq(client_socks, 1, n)[k] = client_socks[1 + k - 1]
    BY <2>1, SubSeqProperties
  <2> QED
    BY <1>1, <1>2, <2>2 DEF Count
<1>4. \A c \in Clients : (\E k \in 1 .. Count' : Peer(k)' = c) <=>
                            \E k \in 1 .. Count : Peer(k) = c
  <2>1. \A c \in Clients : Peer(n + 1) # c
    BY <1>1, <1>2, ChatAssumption DEF Open, Peer
  <2>2. \A k \in 1 .. n : Peer(k)' = Peer(k)
    BY <1>1, <1>3 DEF Peer
  <2> QED
    BY <1>2, <1>3, <2>1, <2>2
<1>5. Members' = Members
  BY <1>1, <1>4 DEF Members, Peer
<1>6. \A c : Pending(c) = <<>> /\ Pending(c)' = <<>>
  BY <1>1, NoBroadcast
<1> QED
  BY <1>1, <1>5, <1>6 DEF Stays, Heard

LEMMA UnlockStays ==
    ASSUME Table, NEW f \in Fds, Unlock(f)
    PROVE  Stays
<1>1. /\ mutex = f /\ mutex' = NoFd /\ next[f] > Count
      /\ UNCHANGED <<phase, log, down, sock, client_socks>>
      /\ next[f] \in Nat
  BY DEF Unlock, At, Table, TypeOK, Locked, clientVars
<1>2. \A c : Pending(c) = <<>>
  <2>1. \A c : ~Owed(c)
    BY <1>1, EntriesAreFds DEF Owed, Table
  <2> QED
    BY <2>1, OwedIsPending
<1>3. \A c : Pending(c)' = <<>>
  BY <1>1, NoBroadcast
<1>4. Members' = Members
  BY <1>1 DEF Members, Count
<1> QED
  BY <1>1, <1>2, <1>3, <1>4 DEF Stays, Heard

LEMMA UnregisterExits ==
    ASSUME Table, NEW f \in Fds, Unregister(f)
    PROVE  Stays \/ \E c \in Clients : Chat!Exit(c)
<1>1. /\ mutex = NoFd /\ mutex' = NoFd
      /\ UNCHANGED <<phase, log, down, sock>>
      /\ client_socks' = RemoveFirst(client_socks, f)
      /\ client_socks \in Seq(Fds)
      /\ Open(f) /\ InTable(f)
      /\ sock \in [Fds -> Clients \cup {NoClient}]
  BY DEF Unregister, At, Table, TypeOK, Listed, clientVars
<1>2. PICK c \in Clients : c = sock[f] /\ c # NoClient
  BY <1>1, ChatAssumption DEF Open
<1>3. PICK n \in Nat : n = Count
  BY EntriesAreFds DEF Table
<1>4. PICK j \in 1 .. n : client_socks[j] = f
  BY <1>1, <1>3 DEF InTable
<1>5. /\ n > 0 /\ Count' = n - 1
      /\ \A k \in 1 .. n - 1 : Peer(k)' = IF k < j THEN Peer(k) ELSE Peer(k + 1)
  <2>0. PICK s, t :
            /\ s \in Seq(Fds)
            /\ s = client_socks /\ t = client_socks' /\ Len(s) = n
            /\ \A k, l \in 1 .. n : s[k] = s[l] => k = l
    BY <1>1, <1>3 DEF Count, Table, Listed
  <2>1. PICK i \in 1 .. Len(s) :
            /\ i = j
            /\ \A k \in 1 .. Len(s) : s[k] = s[i] => k = i
            /\ t = RemoveFirst(s, s[i])
    BY <1>1, <1>4, <2>0
  <2>2. /\ s \in Seq(Fds)
        /\ \A k \in 1 .. Len(s) : s[k] = s[i] => k = i
        /\ t = RemoveFirst(s, s[i])
    BY <2>0, <2>1
  <2>3. /\ t \in Seq(Fds) /\ Len(s) \in Nat /\ Len(t) = Len(s) - 1
        /\ \A k \in 1 .. Len(t) : t[k] = IF k < i THEN s[k] ELSE s[k + 1]
    <3> HIDE <2>0, <2>1
    <3> QED
      BY <2>2, Shifted
  <2>4. \A k \in 1 .. n - 1 :
            client_socks'[k] = IF k < j THEN client_socks[k] ELSE client_socks[k + 1]
    BY <2>0, <2>1, <2>3
  <2> QED
    BY <1>1, <1>3, <2>0, <2>3, <2>4 DEF Count, Peer
<1>6. \A k \in 1 .. n : Peer(k) = c <=> k = j
  BY <1>2, <1>3, <1>4, OneEntry DEF Peer
<1>7. \A k \in 1 .. n - 1 : Peer(k)' # c
  BY <1>5, <1>6
<1>8. ASSUME NEW d \in Clients \ {c}
      PROVE  (\E k \in 1 .. n - 1 : Peer(k)' = d) <=> \E k \in 1 .. n : Peer(k) = d
  <2>1. ASSUME NEW k \in 1 .. n - 1, Peer(k)' = d
        PROVE  \E l \in 1 .. n : Peer(l) = d
    <3>1. k \in 1 .. n /\ k + 1 \in 1 .. n
      OBVIOUS
    <3> QED
      BY <1>5, <2>1, <3>1
  <2>2. ASSUME NEW k \in 1 .. n, Peer(k) = d
        PROVE  \E l \in 1 .. n - 1 : Peer(l)' = d
    <3>1. CASE k < j
      <4>1. k \in 1 .. n - 1
        BY <3>1
      <4> QED
        BY <1>5, <2>2, <3>1, <4>1
    <3>2. CASE k > j
      <4>1. PICK l \in 1 .. n - 1 : l = k - 1 /\ ~(l < j) /\ l + 1 = k
        BY <3>2
      <4> QED
        BY <1>5, <2>2, <4>1
    <3>3. k # j
      BY <1>6, <2>2
    <3> QED
      BY <3>1, <3>2, <3>3
  <2> QED
    BY <2>1, <2>2
<1>9. c \notin Members'
  BY <1>5, <1>7 DEF Members, Peer
<1>10. \A d \in Clients \ {c} : d \in Members' <=> d \in Members
  BY <1>1, <1>3, <1>5, <1>8 DEF Members, Peer
<1>11. \A d : Pending(d) = <<>> /\ Pending(d)' = <<>>
  BY <1>1, NoBroadcast
<1> QED
  BY <1>1, <1>9, <1>10, <1>11, Leaves

(* Taking the mutex is the instant at which everyone hears the message.    *)
LEMMA LockSays ==
    ASSUME Table, Talk, NEW f \in Fds, Lock(f)
    PROVE  \E m \in Messages : Chat!Say(m)
<1>1. /\ pc[f] = "lock" /\ mutex = NoFd /\ mutex' = f /\ f # NoFd
      /\ UNCHANGED <<phase, log, down, sock, client_socks, msg>>
      /\ next'[f] = 1
      /\ log \in [Clients -> Seq(Messages)] /\ down \in [Clients -> Seq(Messages)]
  BY ChatAssumption DEF Lock, At, Table, TypeOK, clientVars
<1>2. PICK m \in Messages : m = msg[f]
  BY <1>1 DEF Table, TypeOK, Talk
<1>3. Members' = Members /\ \A c \in Members : c \in Clients
  BY <1>1 DEF Members, Count
<1>4. ASSUME NEW c \in Members
      PROVE  Pending(c) = <<>> /\ Pending(c)' = <<m>>
  <2>1. \E k \in 1 .. Count : sock[client_socks[k]] = c
    BY DEF Members
  <2> QED
    BY <1>1, <1>2, <2>1 DEF Pending, Count
<1>5. ASSUME NEW c \in Members
      PROVE  /\ Heard(c)' = Append(Heard(c), m)
             /\ \A k \in 1 .. Len(Heard(c)) : Heard(c)[k] # m
  <2>1. PICK l \in Seq(Messages), s \in Seq(Messages) :
            l = log[c] /\ s = down[c]
    BY <1>1, <1>3
  <2>2. /\ (l \o s) \o <<m>> = Append(l \o s, m)
        /\ (l \o s) \o <<>> = l \o s
    BY AppendInside
  <2>3. Heard(c) = l \o s /\ Heard(c)' = (l \o s) \o <<m>>
    BY <1>1, <1>4, <2>1, <2>2 DEF Heard
  <2>4. /\ \A k \in 1 .. Len(l) : l[k] # m
        /\ \A k \in 1 .. Len(s) : s[k] # m
    <3>1. AllSpread(l) /\ AllSpread(s)
      BY <1>3, <2>1 DEF Talk
    <3>2. \A x : Spread(x) => x # m
      BY <1>1, <1>2 DEF Spread
    <3> QED
      BY <3>1, <3>2 DEF AllSpread
  <2>5. \A k \in 1 .. Len(l \o s) : (l \o s)[k] # m
    BY <2>4, InEither
  <2> QED
    BY <2>2, <2>3, <2>5
<1>6. View' = [c \in Members |->
                IF Hears(c, m) THEN Append(View[c], m) ELSE View[c]]
  BY <1>3, <1>5 DEF View, Hears
<1>7. \A c \in Members : \A k \in 1 .. Len(View[c]) : View[c][k] # m
  BY <1>5 DEF View
<1>8. DOMAIN View = Members
  BY DEF View
<1>9. Chat!Say(m)
  BY <1>6, <1>7, <1>8 DEF Chat!Say, Chat!Members, View, Heard
<1> QED
  BY <1>9

(* One write of the loop: what was owed to the client is in its socket.    *)
LEMMA WriteStays ==
    ASSUME Table, Talk, NEW f \in Fds, Write(f)
    PROVE  Stays
<1>1. /\ UNCHANGED <<phase, log, sock, client_socks, mutex, msg>>
      /\ mutex = f /\ f # NoFd
      /\ msg[f] \in Messages
      /\ down \in [Clients -> Seq(Messages)] /\ log \in [Clients -> Seq(Messages)]
  BY NextSocket, ChatAssumption DEF Write, Table, TypeOK, Talk
<1>2. PICK n \in Nat, z \in Nat :
        /\ n = next[f] /\ n \in 1 .. z /\ z = Count
        /\ next'[f] = n + 1
        /\ Peer(n) \in Clients \cup {NoClient}
  <2>1. /\ next[f] \in 1 .. Count /\ Count \in Nat
        /\ Peer(next[f]) \in Clients \cup {NoClient}
    BY NextSocket DEF Peer
  <2>2. next'[f] = next[f] + 1
    BY DEF Write, Table, TypeOK
  <2>3. next[f] \in Nat
    BY <2>1
  <2> QED
    BY <2>1, <2>2, <2>3
<1>3. Members' = Members /\ \A c \in Members : c \in Clients /\ phase[c] = "in"
  BY <1>1 DEF Members, Count
<1>4. /\ \A c : Pending(c) =
            IF \E k \in n .. z : Peer(k) = c THEN <<msg[f]>> ELSE <<>>
      /\ \A c : Pending(c)' =
            IF \E k \in n + 1 .. z : Peer(k) = c THEN <<msg[f]>> ELSE <<>>
  BY <1>1, <1>2 DEF Pending, Peer, Count
<1>5. ASSUME NEW c, Peer(n) # c PROVE Pending(c)' = Pending(c)
  <2>1. (\E k \in n .. z : Peer(k) = c) <=> \E k \in n + 1 .. z : Peer(k) = c
    BY <1>2, <1>5
  <2> QED
    BY <1>4, <2>1
<1>6. CASE down' = down /\ (Peer(n) = NoClient \/ phase[Peer(n)] # "in")
  <2>1. \A c \in Members : Peer(n) # c
    BY <1>3, <1>6, ChatAssumption
  <2> QED
    BY <1>1, <1>3, <1>5, <1>6, <2>1 DEF Stays, Heard
<1>7. ASSUME NEW d, d = Peer(n), d # NoClient,
             down' = [down EXCEPT ![d] = Append(@, msg[f])]
      PROVE  Stays
  <2>1. d \in Clients
    BY <1>2, <1>7
  <2>2. Pending(d) = <<msg[f]>>
    <3>1. n \in n .. z /\ Peer(n) = d
      BY <1>2, <1>7
    <3> QED
      BY <1>4, <3>1
  <2>3. Pending(d)' = <<>>
    <3>1. ASSUME NEW k \in n + 1 .. z, Peer(k) = d PROVE FALSE
      <4>1. k \in 1 .. z /\ k # n
        BY <1>2, <3>1
      <4> QED
        BY <1>2, <1>7, <3>1, <4>1, OneEntry
    <3> QED
      BY <1>4, <3>1
  <2>4. Heard(d)' = Heard(d)
    <3>1. PICK l \in Seq(Messages), s \in Seq(Messages), m \in Messages :
                l = log[d] /\ s = down[d] /\ m = msg[f]
      BY <1>1, <2>1
    <3>2. /\ l \o Append(s, m) = (l \o s) \o <<m>>
          /\ Append(s, m) \in Seq(Messages)
      BY AppendInside, Added
    <3>3. (l \o Append(s, m)) \o <<>> = l \o Append(s, m)
      BY <3>2, AppendInside
    <3>4. log'[d] = l /\ down'[d] = Append(s, m)
      BY <1>1, <1>7, <2>1, <3>1
    <3> QED
      BY <2>2, <2>3, <3>1, <3>2, <3>3, <3>4 DEF Heard
  <2>5. \A c \in Members \ {d} : Heard(c)' = Heard(c)
    BY <1>1, <1>3, <1>5, <1>7, <2>1 DEF Heard
  <2> QED
    BY <1>3, <2>4, <2>5 DEF Stays
<1> QED
  BY <1>2, <1>6, <1>7 DEF Write, Peer

LEMMA ClientStays ==
    ASSUME Table, NEW c \in Clients, Connect(c) \/ Say(c) \/ Receive(c)
    PROVE  Stays
<1>1. /\ UNCHANGED <<sock, client_socks, mutex, msg, next>>
      /\ log \in [Clients -> Seq(Messages)] /\ down \in [Clients -> Seq(Messages)]
      /\ phase \in [Clients -> {"start", "in", "gone"}]
  BY DEF Connect, Say, Receive, Table, TypeOK, serverVars, threadVars
<1>2. \A d : Pending(d)' = Pending(d)
  BY <1>1 DEF Pending, Count
<1>3. ASSUME NEW d \in Clients, \E k \in 1 .. Count : sock[client_socks[k]] = d
      PROVE  phase'[d] = phase[d]
  <2>1. PICK g \in Fds : sock[g] = d
    BY <1>3, EntriesAreFds DEF Table
  <2>2. phase[d] # "start"
    BY <2>1, ChatAssumption DEF Table, Connections, Open
  <2> QED
    BY <1>1, <2>2 DEF Connect, Say, Receive
<1>4. Members' = Members
  BY <1>1, <1>3 DEF Members, Count
<1>5. ASSUME NEW d \in Clients PROVE log'[d] \o down'[d] = log[d] \o down[d]
  <2>1. CASE d = c /\ Receive(c)
    BY <1>1, <2>1, ReceivedInside DEF Receive
  <2>2. CASE d # c \/ ~Receive(c)
    BY <1>1, <2>2 DEF Connect, Say, Receive
  <2> QED
    BY <2>1, <2>2
<1>6. \A d \in Members : d \in Clients
  BY DEF Members
<1> QED
  BY <1>2, <1>4, <1>5, <1>6 DEF Stays, Heard

LEMMA LeaveExits ==
    ASSUME Table, NEW c \in Clients, Leave(c)
    PROVE  Stays \/ Chat!Exit(c)
<1>1. /\ UNCHANGED <<log, sock, client_socks, mutex, msg, next>>
      /\ \A d \in Clients \ {c} : phase'[d] = phase[d] /\ down'[d] = down[d]
      /\ phase'[c] = "gone"
  BY DEF Leave, Table, TypeOK, serverVars, threadVars
<1>2. \A d : Pending(d)' = Pending(d)
  BY <1>1 DEF Pending, Count
<1>3. c \notin Members' /\ \A d \in Clients \ {c} : d \in Members' <=> d \in Members
  BY <1>1 DEF Members, Count
<1> QED
  BY <1>1, <1>2, <1>3, Leaves

LEMMA NextRefines == IInv /\ [Next]_vars => [Chat!Next]_View
<1> SUFFICES ASSUME IInv, [Next]_vars PROVE Chat!Next \/ Stays
  BY Stutters
<1> USE DEF IInv
<1>1. CASE Main
  BY <1>1, MainStays, RegisterEnters, SpawnExits, UndoStays
  DEF Main, Chat!Next
<1>2. ASSUME NEW f \in Fds, Thread(f) PROVE Chat!Next \/ Stays
  BY <1>2, ThreadStays, LockSays, WriteStays, UnlockStays, UnregisterExits
  DEF Thread, Chat!Next
<1>3. ASSUME NEW c \in Clients, Connect(c) \/ Say(c) \/ Receive(c) \/ Leave(c)
      PROVE  Chat!Next \/ Stays
  BY <1>3, ClientStays, LeaveExits DEF Chat!Next
<1>4. CASE UNCHANGED vars
  <2>1. \A c : Pending(c)' = Pending(c)
    BY <1>4 DEF vars, clientVars, serverVars, threadVars, Pending, Count
  <2>2. Members' = Members
    BY <1>4 DEF vars, clientVars, serverVars, threadVars, Members, Count
  <2> QED
    BY <1>4, <2>1, <2>2
    DEF vars, clientVars, serverVars, threadVars, Heard, Stays
<1> QED
  BY <1>1, <1>2, <1>3, <1>4 DEF Next

(* server.c:124: to the clients in its table the server is a room in which *)
(* a message is heard by all at once, although send_msg() writes to one    *)
(* after the other, may block in between, and meanwhile clients leave,     *)
(* threads read and main() accepts and closes connections.                 *)
THEOREM Atomic == SafeSpec => AtomicBroadcast
<1>1. Init => Chat!Init
  <2> SUFFICES ASSUME Init PROVE Chat!Init
    OBVIOUS
  <2>1. Members = {}
    BY DEF Init, Members
  <2> QED
    BY <2>1 DEF Chat!Init
<1>2. IInv /\ [Next]_vars => [Chat!Next]_View
  BY NextRefines
<1> QED
  BY <1>1, <1>2, Invariance, PTL
  DEF SafeSpec, AtomicBroadcast, Chat!Spec, View, Heard
=============================================================================
